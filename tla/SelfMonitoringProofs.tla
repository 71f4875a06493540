------------------------ MODULE SelfMonitoringProofs ------------------------
(***************************************************************************)
(* Proofs about SelfMonitoring, for every set of sources, all thresholds   *)
(* and any number of cycles: it drives the incident engine as the engine's *)
(* own specification says, and its alarms tell of silences.                *)
(***************************************************************************)
EXTENDS SelfMonitoring, IncidentEngineProofs

-----------------------------------------------------------------------------
RecentOK == recent \in [Signals -> Windows]

(* Whatever a cycle finds is a state the engine can be given. *)
LEMMA StatesAreInputs ==
  ASSUME NEW s \in Signals, NEW state \in States(s)
  PROVE  state \in InputStates
  <1>1. \A t, age : Freshness(age, t) \in HealthStates
    BY DEF Freshness, HealthStates
  <1>2. SourceState(s) \in HealthStates
    BY <1>1 DEF SourceState, HealthStates
  <1>3. OutboxState \in HealthStates
    BY DEF OutboxState, Freshness, HealthStates
  <1>4. DeliveryStates \subseteq HealthStates
    BY DEF DeliveryStates, HealthStates
  <1>5. States(s) \subseteq HealthStates
    BY <1>2, <1>3, <1>4 DEF States
  <1> QED BY <1>5, SelfMonitoringAssumption

(* What a check evaluates: one observation of the engine, newer than all   *)
(* before it.                                                              *)
LEMMA CheckEvaluates ==
  ASSUME RecentOK, NEW s \in Signals, Check(s)
  PROVE  \E state \in States(s), o \in Observations :
           LET w == <<o, recent[s][1]>>
           IN  /\ o = [at |-> 0, state |-> state]
               /\ w \in Stored(recent[s], o)
               /\ Evaluate(s, o, w)
  <1>1. PICK state \in States(s) :
          LET o == [at |-> 0, state |-> state] IN Evaluate(s, o, <<o, recent[s][1]>>)
    BY DEF Check
  <1> DEFINE o == [at |-> 0, state |-> state]
             w == <<o, recent[s][1]>>
  <1>2. o \in Observations
    BY StatesAreInputs, SelfMonitoringAssumption DEF Observations
  <1>3. recent[s] \in Windows
    BY DEF RecentOK
  <1>4. recent[s][1].at \in {0, -1}
    BY <1>3, SelfMonitoringAssumption DEF Windows, Observations, Nothing
  <1>5. w \in Stored(recent[s], o)
    BY <1>4 DEF Stored
  <1> QED BY <1>1, <1>2, <1>5

(* Every step of self-monitoring is a step of the engine or none. *)
LEMMA MonitorSteps ==
  ASSUME RecentOK, [NextMonitor]_monitorVars
  PROVE  [Next]_vars
  <1>1. ASSUME NEW s \in Signals, Check(s)
        PROVE  Next
    <2>1. PICK o \in Observations :
            /\ <<o, recent[s][1]>> \in Stored(recent[s], o)
            /\ Evaluate(s, o, <<o, recent[s][1]>>)
      BY <1>1, CheckEvaluates
    <2> QED BY <2>1 DEF Next
  <1>2. ASSUME StartCycle \/ (\E k \in DOMAIN rows : Deliver(k))
                 \/ (\E s \in Sources : Hear(s)) \/ Tick \/ Configure
                 \/ UNCHANGED monitorVars
        PROVE  UNCHANGED vars
    BY <1>2 DEF StartCycle, Deliver, Hear, Tick, Configure, monitorVars, cycle, vars
  <1> QED BY <1>1, <1>2 DEF NextMonitor

(* The windows keep their type. *)
LEMMA RecentStays ==
  ASSUME RecentOK, [Next]_vars
  PROVE  RecentOK'
  <1>1. ASSUME NEW s \in Signals, NEW o \in Observations, NEW w \in Stored(recent[s], o),
               Evaluate(s, o, w)
        PROVE  RecentOK'
    BY <1>1, StoredWindow DEF RecentOK, Evaluate, Recur, Open, Resolve, Quiet, Store
  <1>2. CASE UNCHANGED vars
    BY <1>2 DEF RecentOK, vars
  <1> QED BY <1>1, <1>2 DEF Next

(* run_self_monitoring does to incidents, outbox and analysis queue what   *)
(* the engine's specification allows and nothing else: everything proved   *)
(* of the engine holds while Cockpit watches itself.                       *)
THEOREM MonitorRunsEngine == SpecMonitor => Spec
  <1>1. InitMonitor => Init /\ RecentOK
    BY DEF InitMonitor, Init, RecentOK, Windows
  <1>2. RecentOK /\ [NextMonitor]_monitorVars => [Next]_vars /\ RecentOK'
    BY MonitorSteps, RecentStays
  <1> QED BY <1>1, <1>2, PTL DEF SpecMonitor, Spec

(* While Cockpit watches itself, its incidents live as IncidentLifecycle    *)
(* promises, each told once and in its turn.                               *)
THEOREM MonitorImplementsLifecycle == SpecMonitor => ImplementsLifecycle
  BY MonitorRunsEngine, LifecycleImplemented, PTL

(* The tables of the engine keep their types while run_self_monitoring runs. *)
LEMMA MonitorTypes == SpecMonitor => []TypeOK
  BY MonitorRunsEngine, TypeCorrect, PTL

-----------------------------------------------------------------------------
(* A failing observation either finds the code's incident or opens it, or  *)
(* it is the first failure and there is none; the severity follows up.     *)
LEMMA FailureEffect ==
  ASSUME TypeOK, NEW s \in Signals, NEW o \in Observations,
         NEW w \in Stored(recent[s], o), Evaluate(s, o, w),
         o.state \in {"WARNING", "CRITICAL"}, CodeOf[s] \in Codes
  PROVE  \/ /\ Active(CodeOf[s]) = {} /\ ~Both(w, FailureStates)
            /\ incidents' = incidents
         \/ /\ Len(incidents') = Len(incidents) \/ Active(CodeOf[s]) = {}
            /\ \E i \in (Active(CodeOf[s]))' :
                 o.state = "CRITICAL" => incidents'[i].severity = "CRITICAL"
  <1>1. o.state \in FailureStates /\ Evaluated(s, o)
    BY EngineAssumption DEF FailureStates, Evaluated
  <1>2. CASE Recur(s, o, w)
    <2>1. Len(incidents') = Len(incidents)
      BY <1>2, RecurEffect
    <2>2. PICK i \in Active(CodeOf[s]) :
            /\ i \in 1 .. Len(incidents)
            /\ incidents'[i] = Recurred(incidents[i], s, o)
      BY <1>2, RecurEffect
    <2>3. incidents[i] \in Incidents
      BY <2>2, Indices
    <2>4. /\ incidents'[i].code = incidents[i].code
          /\ incidents'[i].lifecycle = incidents[i].lifecycle
          /\ incidents'[i].severity =
               IF Worse(o, incidents[i].severity) THEN o.state ELSE incidents[i].severity
      BY <1>1, <2>2, <2>3, RecurredIncident
    <2>5. o.state = "CRITICAL" => incidents'[i].severity = "CRITICAL"
      BY <2>3, <2>4 DEF Worse, SeverityRank, Incidents, FailureStates
    <2>6. i \in DOMAIN incidents'
      BY <1>2, <2>2 DEF Recur, TypeOK
    <2>7. i \in (Active(CodeOf[s]))'
      BY <2>2, <2>4, <2>6 DEF Active, IsActive
    <2> QED BY <2>1, <2>5, <2>7
  <1>3. CASE Open(s, o, w)
    <2> PICK n : n = Len(incidents) + 1
      OBVIOUS
    <2>1. /\ incidents'[n].code = CodeOf[s] /\ incidents'[n].lifecycle = "OPEN"
          /\ incidents'[n].severity = o.state
      BY <1>3, OpenEffect
    <2>2. n \in DOMAIN incidents'
      BY <1>3 DEF Open, TypeOK
    <2>3. n \in (Active(CodeOf[s]))'
      BY <2>1, <2>2 DEF Active, IsActive
    <2> QED BY <1>3, <2>1, <2>3 DEF Open, OpenDue
  <1>4. CASE Resolve(s, o, w)
    BY <1>1, <1>4 DEF Resolve
  <1>5. CASE Quiet(s, o, w)
    BY <1>1, <1>5 DEF Quiet, OpenDue
  <1> QED BY <1>2, <1>3, <1>4, <1>5 DEF Evaluate

(* An observation that is no failure opens nothing. *)
LEMMA NoFailureEffect ==
  ASSUME TypeOK, NEW s \in Signals, NEW o \in Observations,
         NEW w \in Stored(recent[s], o), Evaluate(s, o, w), o.state \notin FailureStates
  PROVE  Len(incidents') = Len(incidents)
  BY ResolveEffect DEF Evaluate, Recur, Open, OpenDue, Quiet

-----------------------------------------------------------------------------
(* The inductive invariant.  A source that a check found late since it was *)
(* heard is late still, because ages only grow, and so its next            *)
(* observation is a failure too; the incident that the second failure      *)
(* opened cannot be resolved by it, nor by another code's signal.          *)
AgesOK ==
  /\ silence \in [Sources -> Ages \cup {Never}]
  /\ known \in [Sources -> Ages \cup {Never}]
  /\ missed \in [Sources -> 0 .. 2]
  /\ alarms \in [Sources -> Nat]

MissedIsLate(s) ==
  missed[s] > 0 => Overdue(s) /\ recent[s][1].state \in FailureStates

MissedTwiceIsNoticed(s) ==
  missed[s] = 2 =>
    \E i \in Active(CodeOf[s]) :
      recent[s][1].state = "CRITICAL" => incidents[i].severity = "CRITICAL"

AlarmIsActive(s) ==
  /\ alarms[s] > 0 => missed[s] > 0 /\ Active(CodeOf[s]) # {}
  /\ alarms[s] <= 1

SourceInv(s) == MissedIsLate(s) /\ MissedTwiceIsNoticed(s) /\ AlarmIsActive(s)

AlarmInv == AgesOK /\ \A s \in Sources : SourceInv(s)

(* A late source is observed as a failure, any other source is not.        *)
LEMMA LateIsFailure ==
  ASSUME AgesOK, NEW s \in Sources
  PROVE  /\ Overdue(s) => SourceState(s) \in {"WARNING", "CRITICAL"}
         /\ Overdue(s) => silence[s] # Never \/ known[s] # Never
         /\ ~Overdue(s) => SourceState(s) \notin FailureStates
  <1>1. /\ silence[s] \in Ages \cup {Never} /\ known[s] \in Ages \cup {Never}
        /\ WarningAge[s] \in Nat /\ CriticalAge[s] \in Nat
        /\ WarningAge[s] < CriticalAge[s]
    BY SelfMonitoringAssumption DEF AgesOK, Aged
  <1> QED BY <1>1 DEF Overdue, SourceState, Freshness, FailureStates, Never, Ages

(* A check of s leaves what is known of another source as it is. *)
LEMMA OtherSource ==
  ASSUME TypeOK, RecentOK, AlarmInv, NEW s \in Signals, Check(s),
         NEW t \in Sources, t # s
  PROVE  SourceInv(t)'
  <1>1. PICK o \in Observations :
          /\ <<o, recent[s][1]>> \in Stored(recent[s], o)
          /\ Evaluate(s, o, <<o, recent[s][1]>>)
    BY CheckEvaluates
  <1>2. CodeOf[t] # CodeOf[s] /\ t \in Signals
    BY SelfMonitoringAssumption DEF Aged
  <1>3. \A i \in Active(CodeOf[t]) :
          i \in (Active(CodeOf[t]))' /\ incidents'[i] = incidents[i]
    BY <1>1, <1>2, OtherIncidentsStay
  <1>4. recent'[t] = recent[t]
    BY <1>1, <1>2 DEF Evaluate, Recur, Open, Resolve, Quiet, Store, RecentOK
  <1>5. /\ missed'[t] = missed[t] /\ alarms'[t] = alarms[t]
        /\ known'[t] = known[t] /\ silence' = silence
    BY DEF Check, AlarmInv, AgesOK
  <1>6. SourceInv(t)
    BY DEF AlarmInv
  <1> QED BY <1>3, <1>4, <1>5, <1>6
          DEF SourceInv, MissedIsLate, MissedTwiceIsNoticed, AlarmIsActive, Overdue

(* A check of s itself. *)
LEMMA CheckedSource ==
  ASSUME TypeOK, RecentOK, AlarmInv, NEW s \in Sources, Check(s)
  PROVE  SourceInv(s)'
  <1>1. s \in Signals /\ CodeOf[s] \in Codes /\ States(s) = {SourceState(s)}
    BY SelfMonitoringAssumption DEF Aged, States
  <1>2. PICK o \in Observations :
          /\ o.state = SourceState(s)
          /\ <<o, recent[s][1]>> \in Stored(recent[s], o)
          /\ Evaluate(s, o, <<o, recent[s][1]>>)
    BY <1>1, CheckEvaluates
  <1> PICK w : w = <<o, recent[s][1]>>
    OBVIOUS
  <1>3. recent'[s] = w
    BY <1>1, <1>2 DEF Evaluate, Recur, Open, Resolve, Quiet, Store, RecentOK
  <1>4. /\ silence' = silence
        /\ known'[s] = IF known[s] = Never THEN 0 ELSE known[s]
        /\ missed'[s] = IF Overdue(s) THEN (IF missed[s] < 2 THEN missed[s] + 1 ELSE 2)
                        ELSE missed[s]
        /\ alarms'[s] = IF Len(incidents') > Len(incidents) THEN alarms[s] + 1 ELSE alarms[s]
    BY DEF Check, AlarmInv, AgesOK
  <1>5. /\ missed[s] \in 0 .. 2 /\ alarms[s] \in Nat /\ SourceInv(s)
        /\ Len(incidents) \in Nat /\ AgesOK
    BY Indices DEF AlarmInv, AgesOK
  <1>6. CASE Overdue(s)
    <2>1. o.state \in {"WARNING", "CRITICAL"} /\ Overdue(s)'
      <3>0. AgesOK
        BY <1>5
      <3>1. /\ SourceState(s) \in {"WARNING", "CRITICAL"}
            /\ silence[s] # Never \/ known[s] # Never
        BY <3>0, <1>6, LateIsFailure
      <3>2. silence'[s] = silence[s] /\ (silence[s] = Never => known'[s] = known[s])
        BY <1>4, <3>1
      <3>3. Overdue(s)'
        BY <1>6, <3>2 DEF Overdue
      <3> QED BY <1>2, <3>1, <3>3
    <2>2. w[1].state = o.state
      OBVIOUS
    <2>3. MissedIsLate(s)'
      BY <1>3, <2>1, <2>2 DEF MissedIsLate, FailureStates
    <2>4. CASE /\ Active(CodeOf[s]) = {} /\ ~Both(w, FailureStates)
               /\ incidents' = incidents
      <3>1. missed[s] = 0
        BY <1>5, <2>1, <2>4 DEF SourceInv, MissedIsLate, Both, FailureStates
      <3>2. missed'[s] = 1 /\ alarms'[s] = alarms[s] /\ alarms[s] = 0
        BY <1>4, <1>5, <1>6, <2>4, <3>1 DEF SourceInv, AlarmIsActive
      <3> QED BY <2>3, <3>2 DEF SourceInv, MissedTwiceIsNoticed, AlarmIsActive
    <2>5. CASE /\ Len(incidents') = Len(incidents) \/ Active(CodeOf[s]) = {}
               /\ \E i \in (Active(CodeOf[s]))' :
                    o.state = "CRITICAL" => incidents'[i].severity = "CRITICAL"
      <3>1. MissedTwiceIsNoticed(s)'
        BY <1>3, <2>2, <2>5 DEF MissedTwiceIsNoticed
      <3>2. missed'[s] > 0
        BY <1>4, <1>5, <1>6
      <3>3. alarms'[s] <= 1
        BY <1>4, <1>5, <2>5 DEF SourceInv, AlarmIsActive
      <3> QED BY <2>3, <2>5, <3>1, <3>2, <3>3 DEF SourceInv, AlarmIsActive
    <2> QED BY <1>1, <1>2, <2>1, <2>4, <2>5, FailureEffect
  <1>7. CASE ~Overdue(s)
    <2>1. missed[s] = 0 /\ alarms[s] = 0
      BY <1>5, <1>7 DEF SourceInv, MissedIsLate, AlarmIsActive
    <2>2. Len(incidents') = Len(incidents)
      BY <1>1, <1>2, <1>5, <1>7, LateIsFailure, NoFailureEffect
    <2>3. missed'[s] = 0 /\ alarms'[s] = 0
      BY <1>4, <1>5, <1>7, <2>1, <2>2
    <2> QED BY <2>3 DEF SourceInv, MissedIsLate, MissedTwiceIsNoticed, AlarmIsActive
  <1> QED BY <1>6, <1>7

(* Ages stay within their bound. *)
LEMMA AgesStay ==
  ASSUME AgesOK, [NextMonitor]_monitorVars
  PROVE  AgesOK'
  <1>1. MaxAge \in Nat /\ Never \notin Ages /\ 0 \in Ages
    BY SelfMonitoringAssumption DEF Never, Ages
  <1>2. \A age \in Ages \cup {Never} : Older(age) \in Ages \cup {Never}
    BY <1>1 DEF Older, Ages, Never
  <1>3. ASSUME NEW s \in Signals, Check(s) PROVE AgesOK'
    <2>1. silence' = silence
      BY <1>3 DEF Check
    <2>2. CASE s \in Sources
      <3>1. known' \in [Sources -> Ages \cup {Never}]
        BY <1>1, <1>3, <2>2 DEF Check, AgesOK
      <3>2. missed' \in [Sources -> 0 .. 2]
        BY <1>3, <2>2 DEF Check, AgesOK
      <3>3. alarms' \in [Sources -> Nat]
        <4>1. alarms' = alarms \/ alarms' = [alarms EXCEPT ![s] = @ + 1]
          BY <1>3, <2>2 DEF Check
        <4> QED BY <4>1 DEF AgesOK
      <3> QED BY <2>1, <3>1, <3>2, <3>3 DEF AgesOK
    <2>3. CASE s \notin Sources
      BY <1>3, <2>1, <2>3 DEF Check, AgesOK
    <2> QED BY <2>2, <2>3
  <1>4. ASSUME NEW s \in Sources, Hear(s) PROVE AgesOK'
    BY <1>1, <1>4 DEF Hear, AgesOK, cycle
  <1>5. CASE Tick
    BY <1>2, <1>5 DEF Tick, AgesOK
  <1>6. ASSUME StartCycle \/ (\E k \in DOMAIN rows : Deliver(k)) \/ Configure
                 \/ UNCHANGED monitorVars
        PROVE  AgesOK'
    BY <1>6 DEF StartCycle, Deliver, Configure, monitorVars, cycle, AgesOK
  <1> QED BY <1>3, <1>4, <1>5, <1>6 DEF NextMonitor

(* The steps between the checks: time only makes a late source later, and  *)
(* a source that is heard starts anew.                                     *)
LEMMA BetweenChecks ==
  ASSUME AlarmInv, [NextMonitor]_monitorVars, UNCHANGED vars,
         \A s \in Signals : ~Check(s), NEW t \in Sources
  PROVE  SourceInv(t)'
  <1>1. SourceInv(t) /\ AgesOK
    BY DEF AlarmInv
  <1>2. ASSUME UNCHANGED <<missed, alarms>>, Overdue(t) => Overdue(t)'
        PROVE  SourceInv(t)'
    BY <1>1, <1>2 DEF vars, SourceInv, MissedIsLate, MissedTwiceIsNoticed, AlarmIsActive,
                      Active, IsActive
  <1>3. ASSUME missed'[t] = 0, alarms'[t] = 0 PROVE SourceInv(t)'
    BY <1>3 DEF SourceInv, MissedIsLate, MissedTwiceIsNoticed, AlarmIsActive
  <1>4. ASSUME NEW s \in Sources, Hear(s) PROVE SourceInv(t)'
    <2>1. CASE s = t
      BY <1>1, <1>3, <1>4, <2>1 DEF Hear, AgesOK
    <2>2. CASE s # t
      <3>1. /\ missed'[t] = missed[t] /\ alarms'[t] = alarms[t]
            /\ silence'[t] = silence[t] /\ known' = known
        BY <1>1, <1>4, <2>2 DEF Hear, cycle, AgesOK
      <3> QED BY <1>1, <3>1
              DEF vars, SourceInv, MissedIsLate, MissedTwiceIsNoticed, AlarmIsActive,
                  Active, IsActive, Overdue
    <2> QED BY <2>1, <2>2
  <1>5. CASE Tick
    <2>1. /\ silence[t] \in Ages \cup {Never} /\ known[t] \in Ages \cup {Never}
          /\ WarningAge[t] \in Nat /\ MaxAge \in Nat /\ WarningAge[t] < MaxAge
      <3>1. /\ WarningAge[t] \in Nat /\ CriticalAge[t] \in Nat /\ MaxAge \in Nat
            /\ WarningAge[t] < CriticalAge[t] /\ CriticalAge[t] < MaxAge
        BY SelfMonitoringAssumption DEF Aged
      <3> QED BY <1>1, <3>1 DEF AgesOK
    <2>2. silence'[t] = Older(silence[t]) /\ known'[t] = Older(known[t])
      BY <1>5 DEF Tick
    <2>3. Overdue(t) => Overdue(t)'
      BY <2>1, <2>2 DEF Overdue, Older, Ages, Never
    <2> QED BY <1>2, <1>5, <2>3 DEF Tick
  <1>6. ASSUME StartCycle \/ (\E k \in DOMAIN rows : Deliver(k)) \/ Configure
                 \/ UNCHANGED monitorVars
        PROVE  SourceInv(t)'
    <2>1. UNCHANGED <<missed, alarms, silence, known>>
      BY <1>6 DEF StartCycle, Deliver, Configure, monitorVars, cycle
    <2> QED BY <1>2, <2>1 DEF Overdue
  <1> QED BY <1>4, <1>5, <1>6 DEF NextMonitor

(* AlarmInv is an invariant, with the type of the windows. *)
LEMMA AlarmInvariant == SpecMonitor => [](AlarmInv /\ RecentOK)
  <1>1. InitMonitor => AlarmInv /\ RecentOK
    BY SelfMonitoringAssumption
    DEF InitMonitor, Init, AlarmInv, AgesOK, RecentOK, Windows, SourceInv, MissedIsLate,
        MissedTwiceIsNoticed, AlarmIsActive, Never
  <1>2. TypeOK /\ AlarmInv /\ RecentOK /\ [NextMonitor]_monitorVars => (AlarmInv /\ RecentOK)'
    <2> SUFFICES ASSUME TypeOK, AlarmInv, RecentOK, [NextMonitor]_monitorVars
                 PROVE  (AlarmInv /\ RecentOK)'
      OBVIOUS
    <2>1. AgesOK' /\ RecentOK'
      BY AgesStay, MonitorSteps, RecentStays DEF AlarmInv
    <2>2. ASSUME NEW t \in Sources PROVE SourceInv(t)'
      <3>1. ASSUME NEW s \in Signals, Check(s) PROVE SourceInv(t)'
        BY <3>1, CheckedSource, OtherSource
      <3>2. CASE \A s \in Signals : ~Check(s)
        <4>1. UNCHANGED vars
          BY <3>2 DEF NextMonitor, StartCycle, Deliver, Hear, Tick, Configure, monitorVars,
                      cycle, vars
        <4> QED BY <3>2, <4>1, BetweenChecks
      <3> QED BY <3>1, <3>2
    <2> QED BY <2>1, <2>2 DEF AlarmInv
  <1> QED BY <1>1, <1>2, MonitorTypes, PTL DEF SpecMonitor

(* A source that two checks in a row found late has an active incident, of *)
(* the severity its silence has, until it is heard again.                  *)
THEOREM SilenceIsNoticed == SpecMonitor => []SilenceNoticed
  <1>1. AlarmInv => SilenceNoticed
    BY DEF AlarmInv, SourceInv, MissedTwiceIsNoticed, SilenceNoticed
  <1> QED BY <1>1, AlarmInvariant, PTL

(* No incident opens for a source that is in time.                         *)
THEOREM AlarmsAreEarned == SpecMonitor => []AlarmIsEarned
  <1>1. AlarmInv => AlarmIsEarned
    BY DEF AlarmInv, SourceInv, MissedIsLate, AlarmIsActive, AlarmIsEarned
  <1> QED BY <1>1, AlarmInvariant, PTL

(* One silence opens one incident, however often it is checked.            *)
THEOREM OneAlarmForASilence == SpecMonitor => []OneAlarmPerSilence
  <1>1. AlarmInv => OneAlarmPerSilence
    BY DEF AlarmInv, SourceInv, AlarmIsActive, OneAlarmPerSilence
  <1> QED BY <1>1, AlarmInvariant, PTL

-----------------------------------------------------------------------------
(* The delivery rows follow the outbox: one for each event, with attempts  *)
(* to spare while it waits and none when it failed.                        *)
DeliveryRow(row) ==
  /\ row \in Rows
  /\ row.state = "FAILED" => row.attempts = MaxAttempts
  /\ row.state = "PENDING" => row.attempts < MaxAttempts

RowsInv ==
  /\ Len(rows) = Len(outbox) /\ rows \in Seq(Rows)
  /\ \A k \in 1 .. Len(rows) : DeliveryRow(rows[k])
  /\ visible \in 0 .. Len(rows)
  /\ left = {} => visible = Len(rows)
  /\ left \subseteq Signals
  /\ configured \in BOOLEAN

(* An evaluation queues one event at most. *)
LEMMA OneEventAtMost ==
  ASSUME NEW s \in Signals, NEW o, NEW w, Evaluate(s, o, w)
  PROVE  outbox' = outbox \/ \E e : outbox' = Append(outbox, e)
  BY DEF Evaluate, Recur, Open, Resolve, Quiet, Notify

(* What the worker makes of an event that waits. *)
Tried(row, state) ==
  [state |-> state, attempts |-> row.attempts + 1, age |-> row.age, after |-> row.after]

(* What one attempt of the worker leaves of a row. *)
LEMMA TriedRow ==
  ASSUME NEW row, DeliveryRow(row), row.state = "PENDING", NEW state,
         state = "SENT" \/ state = (IF Exhausted(row) THEN "FAILED" ELSE row.state)
  PROVE  DeliveryRow(Tried(row, state))
  <1>1. /\ row.attempts \in Nat /\ MaxAttempts \in Nat /\ row.attempts < MaxAttempts
        /\ row.age \in Ages /\ row.after \in Nat
    BY SelfMonitoringAssumption DEF DeliveryRow, Rows
  <1>2. state \in {"PENDING", "SENT", "FAILED"}
    BY DEF Exhausted
  <1>3. state = "FAILED" => row.attempts + 1 = MaxAttempts
    BY <1>1 DEF Exhausted
  <1>4. state = "PENDING" => row.attempts + 1 < MaxAttempts
    BY <1>1 DEF Exhausted
  <1>5. row.attempts + 1 \in 0 .. MaxAttempts
    BY <1>1
  <1>6. Tried(row, state) \in Rows
    BY <1>1, <1>2, <1>5 DEF Tried, Rows
  <1>7. Tried(row, state).state = state /\ Tried(row, state).attempts = row.attempts + 1
    BY DEF Tried
  <1> QED BY <1>3, <1>4, <1>6, <1>7 DEF DeliveryRow

(* Both ways in which deliver_pending writes a row come down to that. *)
LEMMA TriedFields ==
  ASSUME NEW row \in Rows, NEW state
  PROVE  /\ [[row EXCEPT !.state = state] EXCEPT !.attempts = row.attempts + 1] = Tried(row, state)
         /\ [[row EXCEPT !.attempts = row.attempts + 1] EXCEPT !.state = state] = Tried(row, state)
  <1>1. row = [state |-> row.state, attempts |-> row.attempts, age |-> row.age,
               after |-> row.after]
    BY DEF Rows
  <1>2. [row EXCEPT !.state = state] =
          [state |-> state, attempts |-> row.attempts, age |-> row.age, after |-> row.after]
    BY <1>1
  <1>3. [row EXCEPT !.attempts = row.attempts + 1] =
          [state |-> row.state, attempts |-> row.attempts + 1, age |-> row.age,
           after |-> row.after]
    BY <1>1
  <1>4. PICK a :
          /\ a = [row EXCEPT !.state = state]
          /\ a = [state |-> state, attempts |-> row.attempts, age |-> row.age,
                  after |-> row.after]
    BY <1>2
  <1>5. PICK b :
          /\ b = [row EXCEPT !.attempts = row.attempts + 1]
          /\ b = [state |-> row.state, attempts |-> row.attempts + 1, age |-> row.age,
                  after |-> row.after]
    BY <1>3
  <1>6. [a EXCEPT !.attempts = row.attempts + 1] = Tried(row, state)
    <2>1. a = [state |-> state, attempts |-> row.attempts, age |-> row.age,
               after |-> row.after]
      BY <1>4
    <2> QED BY <2>1 DEF Tried
  <1>7. [b EXCEPT !.state = state] = Tried(row, state)
    <2>1. b = [state |-> row.state, attempts |-> row.attempts + 1, age |-> row.age,
               after |-> row.after]
      BY <1>5
    <2> QED BY <2>1 DEF Tried
  <1> QED BY <1>4, <1>5, <1>6, <1>7

(* A row that waits grows older, and is otherwise what it was. *)
LEMMA OlderRow ==
  ASSUME NEW row, DeliveryRow(row)
  PROVE  DeliveryRow([row EXCEPT !.age = Older(@)])
  <1>1. row.age \in Ages /\ MaxAge \in Nat
    BY SelfMonitoringAssumption DEF DeliveryRow, Rows
  <1>2. Older(row.age) \in Ages
    BY <1>1 DEF Older, Ages, Never
  <1> DEFINE aged == [row EXCEPT !.age = Older(@)]
  <1>3. aged \in Rows /\ aged.state = row.state /\ aged.attempts = row.attempts
    BY <1>2 DEF DeliveryRow, Rows
  <1> QED BY <1>3 DEF DeliveryRow

(* Every step of the monitor and of the worker keeps rows and outbox       *)
(* together.                                                               *)
LEMMA RowsStep ==
  ASSUME outbox \in Seq(Events), RowsInv, [NextMonitor]_monitorVars
  PROVE  RowsInv'
  <1>0. Len(rows) \in Nat /\ DOMAIN rows = 1 .. Len(rows) /\ visible \in Nat
    BY DEF RowsInv
  <1>1. ASSUME NEW s \in Signals, Check(s) PROVE RowsInv'
    <2>1. outbox' = outbox \/ \E e : outbox' = Append(outbox, e)
      BY <1>1, OneEventAtMost DEF Check
    <2>2. /\ rows' = IF Len(outbox') > Len(outbox) THEN Append(rows, NewRow) ELSE rows
          /\ left' = left \ {s} /\ configured' = configured
          /\ visible' = IF left' = {} THEN Len(outbox') ELSE visible
      BY <1>1 DEF Check, Grows
    <2>3. DeliveryRow(NewRow)
      BY <1>0, SelfMonitoringAssumption DEF DeliveryRow, NewRow, Rows, Ages
    <2>4. CASE outbox' = outbox
      <3>1. rows' = rows /\ Len(outbox') = Len(outbox)
        BY <2>2, <2>4
      <3>2. visible' = visible \/ visible' = Len(rows)
        BY <2>2, <3>1 DEF RowsInv
      <3>3. left' = {} => visible' = Len(rows)
        BY <2>2, <3>1 DEF RowsInv
      <3>4. \A k \in 1 .. Len(rows') : DeliveryRow(rows'[k])
        BY <3>1 DEF RowsInv
      <3>5. visible' \in 0 .. Len(rows')
        <4>1. visible \in 0 .. Len(rows)
          BY DEF RowsInv
        <4> QED BY <1>0, <3>1, <3>2, <4>1
      <3>7. Len(rows') = Len(outbox') /\ rows' \in Seq(Rows)
        BY <3>1 DEF RowsInv
      <3>6. left' \subseteq Signals /\ configured' \in BOOLEAN
        BY <2>2 DEF RowsInv
      <3> QED BY <3>1, <3>3, <3>4, <3>5, <3>6, <3>7 DEF RowsInv
    <2>5. CASE \E e : outbox' = Append(outbox, e)
      <3>1. Len(outbox') = Len(outbox) + 1 /\ Len(outbox) \in Nat
        BY <2>5
      <3>2. rows' = Append(rows, NewRow)
        BY <2>2, <3>1
      <3>3. /\ rows' \in Seq(Rows) /\ Len(rows') = Len(rows) + 1
            /\ \A k \in 1 .. Len(rows') :
                 rows'[k] = IF k = Len(rows) + 1 THEN NewRow ELSE rows[k]
        BY <2>3, <3>2 DEF RowsInv, DeliveryRow
      <3>4. ASSUME NEW k \in 1 .. Len(rows') PROVE DeliveryRow(rows'[k])
        <4>1. CASE k = Len(rows) + 1
          BY <2>3, <3>3, <4>1
        <4>2. CASE k # Len(rows) + 1
          <5>1. k \in 1 .. Len(rows) /\ rows'[k] = rows[k]
            BY <1>0, <3>3, <4>2
          <5> QED BY <5>1 DEF RowsInv
        <4> QED BY <4>1, <4>2
      <3>5. visible' \in 0 .. Len(rows') /\ (left' = {} => visible' = Len(rows'))
        <4>1. Len(outbox') = Len(rows) + 1 /\ visible \in 0 .. Len(rows)
          BY <3>1 DEF RowsInv
        <4>2. CASE left' = {}
          BY <1>0, <2>2, <3>3, <4>1, <4>2
        <4>3. CASE left' # {}
          BY <1>0, <2>2, <3>3, <4>1, <4>3
        <4> QED BY <4>2, <4>3
      <3>6. /\ Len(rows') = Len(outbox') /\ left' \subseteq Signals
            /\ configured' \in BOOLEAN
        BY <2>2, <3>1, <3>3 DEF RowsInv
      <3> QED BY <3>3, <3>4, <3>5, <3>6 DEF RowsInv, DeliveryRow
    <2> QED BY <2>1, <2>4, <2>5
  <1>2. ASSUME NEW k \in DOMAIN rows, Deliver(k) PROVE RowsInv'
    <2>1. /\ rows[k].state = "PENDING"
          /\ UNCHANGED <<outbox, visible, left, configured>>
      BY <1>2 DEF Deliver, Turn, cycle
    <2>2. DeliveryRow(rows[k])
      BY <1>0 DEF RowsInv
    <2>3. rows[k] \in Rows
      BY <2>2 DEF DeliveryRow
    <2>4. PICK state :
            /\ state = "SENT" \/ state = (IF Exhausted(rows[k]) THEN "FAILED" ELSE rows[k].state)
            /\ rows' = [rows EXCEPT ![k] = Tried(rows[k], state)]
      <3>0. PICK A, B :
              /\ A = [rows EXCEPT ![k].state = "SENT", ![k].attempts = @ + 1]
              /\ B = [rows EXCEPT ![k].attempts = @ + 1,
                       ![k].state = IF Exhausted(rows[k]) THEN "FAILED" ELSE @]
        OBVIOUS
      <3>1. CASE rows' = A
        <4>1. A = [rows EXCEPT ![k] = [[rows[k] EXCEPT !.state = "SENT"]
                                         EXCEPT !.attempts = rows[k].attempts + 1]]
          BY <1>0, <2>3, <3>0 DEF Rows
        <4> QED BY <2>3, <3>1, <4>1, TriedFields
      <3>2. CASE rows' = B
        <4>1. PICK x : x = IF Exhausted(rows[k]) THEN "FAILED" ELSE rows[k].state
          OBVIOUS
        <4>2. B = [rows EXCEPT ![k] = [[rows[k] EXCEPT !.attempts = rows[k].attempts + 1]
                                         EXCEPT !.state = x]]
          BY <1>0, <2>3, <3>0, <4>1 DEF Rows
        <4>3. PICK y : y = Tried(rows[k], x)
          OBVIOUS
        <4>4. rows' = [rows EXCEPT ![k] = y]
          BY <2>3, <3>2, <4>2, <4>3, TriedFields
        <4> QED BY <4>1, <4>3, <4>4
      <3>3. rows' = A \/ rows' = B
        BY <1>2, <3>0 DEF Deliver
      <3> QED BY <3>1, <3>2, <3>3
    <2>5. DeliveryRow(Tried(rows[k], state)) /\ Tried(rows[k], state) \in Rows
      BY <2>1, <2>2, <2>4, TriedRow DEF DeliveryRow
    <2>6. /\ rows' \in Seq(Rows) /\ Len(rows') = Len(rows)
          /\ \A l \in 1 .. Len(rows) :
               rows'[l] = IF l = k THEN Tried(rows[k], state) ELSE rows[l]
      BY <1>0, <2>4, <2>5 DEF RowsInv
    <2> QED BY <1>0, <2>1, <2>5, <2>6 DEF RowsInv
  <1>3. CASE Tick
    <2>1. /\ UNCHANGED <<outbox, visible, left, configured>>
          /\ rows' = [k \in 1 .. Len(rows) |->
               IF rows[k].state = "PENDING" THEN [rows[k] EXCEPT !.age = Older(@)] ELSE rows[k]]
      BY <1>0, <1>3 DEF Tick, vars
    <2>2. \A k \in 1 .. Len(rows) : DeliveryRow(rows'[k])
      BY <2>1, OlderRow DEF RowsInv
    <2>3. rows' \in Seq(Rows) /\ Len(rows') = Len(rows)
      <3>1. \A k \in 1 .. Len(rows) : rows'[k] \in Rows
        BY <2>2 DEF DeliveryRow
      <3>2. rows' \in [1 .. Len(rows) -> Rows]
        BY <2>1, <3>1
      <3> QED BY <1>0, <3>2
    <2> QED BY <1>0, <2>1, <2>2, <2>3 DEF RowsInv
  <1>4. CASE StartCycle
    BY <1>0, <1>4 DEF StartCycle, Resting, RowsInv, vars
  <1>5. CASE Configure
    BY <1>0, <1>5 DEF Configure, RowsInv, cycle
  <1>6. ASSUME NEW s \in Sources, Hear(s) PROVE RowsInv'
    BY <1>0, <1>6 DEF Hear, RowsInv, cycle
  <1>7. CASE UNCHANGED monitorVars
    BY <1>0, <1>7 DEF monitorVars, cycle, RowsInv
  <1> QED BY <1>1, <1>2, <1>3, <1>4, <1>5, <1>6, <1>7 DEF NextMonitor

(* The tables of the engine, the deliveries and the state of a cycle keep  *)
(* their types: run_self_monitoring leaves one row for every event, and a  *)
(* worker gives an event up only after notification_max_attempts.          *)
THEOREM MonitorTypeCorrect == SpecMonitor => []TypeOKMonitor
  <1>1. InitMonitor => RowsInv
    BY DEF InitMonitor, Init, RowsInv
  <1>2. TypeOK /\ RowsInv /\ [NextMonitor]_monitorVars => RowsInv'
    BY RowsStep DEF TypeOK
  <1>3. TypeOK /\ RowsInv /\ AlarmInv => TypeOKMonitor
    BY DEF TypeOKMonitor, RowsInv, DeliveryRow, AlarmInv, AgesOK, Resting
  <1> QED BY <1>1, <1>2, <1>3, MonitorTypes, AlarmInvariant, PTL DEF SpecMonitor
=============================================================================
