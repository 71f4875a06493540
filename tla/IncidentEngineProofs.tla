------------------------ MODULE IncidentEngineProofs ------------------------
(***************************************************************************)
(* Proofs about IncidentEngine and IncidentStability, for every set of     *)
(* signals and codes, every assignment of codes to signals and any number  *)
(* of observations.                                                        *)
(***************************************************************************)
EXTENDS IncidentStability, TLAPS

-----------------------------------------------------------------------------
(* What storing an observation can do to a window: it stays a window, and  *)
(* it only changes by taking the observation in.                           *)
LEMMA StoredWindow ==
  ASSUME NEW w \in Windows, NEW o \in Observations, NEW v \in Stored(w, o)
  PROVE  /\ v \in Windows
         /\ v = w \/ v = <<o, w[1]>> \/ v = <<w[1], o>>
  BY DEF Stored, Windows

(* A window enters a set of states only by an observation in that set.     *)
LEMMA StoredEnters ==
  ASSUME NEW w \in Windows, NEW o \in Observations, NEW v \in Stored(w, o),
         NEW S, Both(v, S), ~Both(w, S)
  PROVE  o.state \in S
  BY StoredWindow DEF Both

(* Every step evaluates one observation of one signal. *)
LEMMA StepCases ==
  ASSUME Next
  PROVE  \E s \in Signals, o \in Observations :
           \E w \in Stored(recent[s], o) :
             Recur(s, o, w) \/ Open(s, o, w) \/ Resolve(s, o, w) \/ Quiet(s, o, w)
  BY DEF Next, Evaluate

(* The records the branches of evaluate write are incidents, and they keep *)
(* the code, the start and the order of severities.                        *)
LEMMA RecurredIncident ==
  ASSUME NEW r \in Incidents, NEW s \in Signals, NEW o \in Observations,
         o.state \in FailureStates
  PROVE  /\ Recurred(r, s, o) \in Incidents
         /\ Recurred(r, s, o).code = r.code
         /\ Recurred(r, s, o).first = r.first
         /\ Recurred(r, s, o).lifecycle = r.lifecycle
         /\ Recurred(r, s, o).count >= r.count
         /\ Recurred(r, s, o).severity = IF Worse(o, r.severity) THEN o.state ELSE r.severity
  <1> DEFINE worse == Worse(o, r.severity)
             after == [code |-> r.code, severity |-> IF worse THEN o.state ELSE r.severity,
                       lifecycle |-> r.lifecycle, first |-> r.first, last |-> o.at,
                       resolved |-> r.resolved, count |-> r.count + 1, latest |-> s]
  <1>1. worse \in BOOLEAN
    BY DEF Worse
  <1>2. Recurred(r, s, o) = [r EXCEPT !.last = o.at,
                                     !.severity = IF worse THEN o.state ELSE r.severity,
                                     !.count = r.count + 1, !.latest = s]
    BY DEF Recurred
  <1> HIDE DEF worse
  <1>3. Recurred(r, s, o) = after
    BY <1>1, <1>2 DEF Incidents
  <1>4. after \in Incidents
    BY DEF Incidents, Observations
  <1>5. /\ after.code = r.code /\ after.first = r.first
        /\ after.lifecycle = r.lifecycle /\ after.count >= r.count
        /\ after.severity = IF worse THEN o.state ELSE r.severity
    BY DEF Incidents
  <1> QED
    BY <1>3, <1>4, <1>5 DEF worse

(* What resolving leaves of an incident. *)
LEMMA ClosedIncident ==
  ASSUME NEW r \in Incidents, NEW s \in Signals, NEW o \in Observations
  PROVE  /\ Closed(r, s, o) \in Incidents
         /\ Closed(r, s, o).code = r.code
         /\ Closed(r, s, o).first = r.first
         /\ Closed(r, s, o).lifecycle = "RESOLVED"
         /\ Closed(r, s, o).count = r.count
         /\ Closed(r, s, o).severity = r.severity
  BY DEF Closed, Incidents, Observations

(* What a new incident is. *)
LEMMA OpenedIncident ==
  ASSUME EngineAssumption, NEW s \in Signals, NEW o \in Observations, NEW w \in Windows,
         Evaluated(s, o), o.state \in FailureStates, Both(w, FailureStates)
  PROVE  /\ Opened(s, o, w) \in Incidents
         /\ Opened(s, o, w).code = CodeOf[s]
         /\ Opened(s, o, w).lifecycle = "OPEN"
         /\ Opened(s, o, w).severity = o.state
  <1>1. w[1] \in Observations /\ w[2] \in Observations
    BY DEF Windows, Both, FailureStates, Nothing
  <1>2. Earlier(w[1].at, w[2].at) \in Times
    BY <1>1 DEF Earlier, Observations
  <1>3. CodeOf[s] \in Codes
    BY DEF Evaluated, EngineAssumption
  <1> QED
    BY <1>2, <1>3 DEF Opened, Incidents, Observations

(* What Notify appends. *)
LEMMA NotifyType ==
  ASSUME TypeOK, NEW i \in Nat, NEW type \in {"OPENED", "ESCALATED", "RESOLVED"},
         NEW from \in FailureStates \cup {"NONE"}, NEW severity \in FailureStates,
         Notify(i, type, from, severity)
  PROVE  outbox' \in Seq(Events) /\ requests' \in Seq(Requests)
  <1>1. Event(i, type, from, severity) \in Events
    BY DEF Event, Events
  <1>2. outbox' \in Seq(Events)
    BY <1>1 DEF Notify, TypeOK
  <1>3. CASE type \in {"OPENED", "ESCALATED"}
    <2>1. Request(i, type, severity) \in Requests
      BY <1>3 DEF Request, Requests
    <2> QED BY <2>1, <1>2, <1>3 DEF Notify, TypeOK
  <1>4. CASE type \notin {"OPENED", "ESCALATED"}
    BY <1>2, <1>4 DEF Notify, TypeOK
  <1> QED BY <1>3, <1>4

(* Every table keeps its type.  This is the code's schema, and what the    *)
(* other proofs start from.                                                *)
THEOREM TypeCorrect == Spec => []TypeOK
  <1>1. Init => TypeOK
    BY DEF Init, TypeOK, Windows
  <1>2. TypeOK /\ [Next]_vars => TypeOK'
    <2> SUFFICES ASSUME TypeOK, [Next]_vars PROVE TypeOK'
      OBVIOUS
    <2>1. ASSUME NEW s \in Signals, NEW o \in Observations,
                 NEW w \in Stored(recent[s], o), Store(s, o, w)
          PROVE  recent' \in [Signals -> Windows] /\ observed' \in Nat /\ w \in Windows
      BY <2>1, StoredWindow DEF TypeOK, Store
    <2>2. ASSUME NEW s \in Signals, NEW o \in Observations,
                 NEW w \in Stored(recent[s], o), Recur(s, o, w)
          PROVE  TypeOK'
      <3>1. PICK i \in Active(CodeOf[s]) :
              /\ incidents' = [incidents EXCEPT ![i] = Recurred(@, s, o)]
              /\ IF Worse(o, incidents[i].severity)
                 THEN Notify(i, "ESCALATED", incidents[i].severity, o.state)
                 ELSE UNCHANGED <<outbox, requests>>
        BY <2>2 DEF Recur
      <3>2. i \in 1 .. Len(incidents) /\ incidents[i] \in Incidents
        BY DEF Active, TypeOK
      <3>3. Recurred(incidents[i], s, o) \in Incidents
        BY <3>2, <2>2, RecurredIncident DEF Recur
      <3>4. incidents' \in Seq(Incidents)
        BY <3>1, <3>2, <3>3 DEF TypeOK
      <3>5. o.state \in FailureStates /\ incidents[i].severity \in FailureStates
        BY <2>2, <3>2 DEF Recur, Incidents
      <3>6. outbox' \in Seq(Events) /\ requests' \in Seq(Requests)
        <4>1. CASE Worse(o, incidents[i].severity)
          BY <4>1, <3>1, <3>2, <3>5, NotifyType
        <4>2. CASE ~Worse(o, incidents[i].severity)
          BY <4>2, <3>1 DEF TypeOK
        <4> QED BY <4>1, <4>2
      <3> QED BY <2>1, <2>2, <3>4, <3>6 DEF TypeOK, Recur
    <2>3. ASSUME NEW s \in Signals, NEW o \in Observations,
                 NEW w \in Stored(recent[s], o), Open(s, o, w)
          PROVE  TypeOK'
      <3>1. recent' \in [Signals -> Windows] /\ observed' \in Nat /\ w \in Windows
        BY <2>1, <2>3 DEF Open, OpenDue
      <3>2. Opened(s, o, w) \in Incidents
        BY <2>3, <3>1, OpenedIncident, EngineAssumption DEF Open, OpenDue
      <3>3. incidents' \in Seq(Incidents) /\ Len(incidents) + 1 \in Nat
        BY <2>3, <3>2 DEF Open, OpenDue, TypeOK
      <3>4. outbox' \in Seq(Events) /\ requests' \in Seq(Requests)
        <4> DEFINE i == Len(incidents) + 1
        <4>1. Notify(i, "OPENED", "NONE", o.state) /\ o.state \in FailureStates
          BY <2>3 DEF Open, OpenDue
        <4>2. i \in Nat
          BY <3>3
        <4> HIDE DEF i
        <4> QED BY <4>1, <4>2, NotifyType
      <3> QED BY <3>1, <3>3, <3>4 DEF TypeOK
    <2>4. ASSUME NEW s \in Signals, NEW o \in Observations,
                 NEW w \in Stored(recent[s], o), Resolve(s, o, w)
          PROVE  TypeOK'
      <3>1. PICK i \in Active(CodeOf[s]) :
              /\ incidents' = [incidents EXCEPT ![i] = Closed(@, s, o)]
              /\ Notify(i, "RESOLVED", "NONE", incidents[i].severity)
        BY <2>4 DEF Resolve
      <3>2. i \in 1 .. Len(incidents) /\ incidents[i] \in Incidents
        BY DEF Active, TypeOK
      <3>3. Closed(incidents[i], s, o) \in Incidents
        BY <3>2, ClosedIncident
      <3>4. incidents' \in Seq(Incidents)
        BY <3>1, <3>2, <3>3 DEF TypeOK
      <3>5. outbox' \in Seq(Events) /\ requests' \in Seq(Requests)
        <4> DEFINE severity == incidents[i].severity
        <4>1. severity \in FailureStates
          BY <3>2 DEF Incidents
        <4>2. Notify(i, "RESOLVED", "NONE", severity) /\ i \in Nat
          BY <3>1, <3>2
        <4> HIDE DEF severity
        <4> QED BY <4>1, <4>2, NotifyType
      <3> QED BY <2>1, <2>4, <3>4, <3>5 DEF TypeOK, Resolve
    <2>5. ASSUME NEW s \in Signals, NEW o \in Observations,
                 NEW w \in Stored(recent[s], o), Quiet(s, o, w)
          PROVE  TypeOK'
      BY <2>1, <2>5 DEF TypeOK, Quiet
    <2>6. CASE UNCHANGED vars
      BY <2>6 DEF vars, TypeOK
    <2> QED BY <2>2, <2>3, <2>4, <2>5, <2>6, StepCases
  <1> QED BY <1>1, <1>2, PTL DEF Spec

-----------------------------------------------------------------------------
(* What each branch of evaluate does to the table of incidents, index by   *)
(* index, as the invariants below use it.                                  *)
LEMMA RecurEffect ==
  ASSUME TypeOK, NEW s \in Signals, NEW o \in Observations,
         NEW w \in Stored(recent[s], o), Recur(s, o, w)
  PROVE  /\ Len(incidents') = Len(incidents)
         /\ \E i \in Active(CodeOf[s]) :
              /\ i \in 1 .. Len(incidents)
              /\ incidents'[i] = Recurred(incidents[i], s, o)
              /\ \A j \in 1 .. Len(incidents) : j # i => incidents'[j] = incidents[j]
              /\ IF Worse(o, incidents[i].severity)
                 THEN Notify(i, "ESCALATED", incidents[i].severity, o.state)
                 ELSE UNCHANGED <<outbox, requests>>
  <1>1. PICK i \in Active(CodeOf[s]) :
          /\ incidents' = [incidents EXCEPT ![i] = Recurred(@, s, o)]
          /\ IF Worse(o, incidents[i].severity)
             THEN Notify(i, "ESCALATED", incidents[i].severity, o.state)
             ELSE UNCHANGED <<outbox, requests>>
    BY DEF Recur
  <1>2. i \in 1 .. Len(incidents) /\ incidents \in Seq(Incidents)
    BY DEF Active, TypeOK
  <1>3. /\ Len(incidents') = Len(incidents)
        /\ incidents'[i] = Recurred(incidents[i], s, o)
        /\ \A j \in 1 .. Len(incidents) : j # i => incidents'[j] = incidents[j]
    BY <1>1, <1>2
  <1> QED BY <1>1, <1>2, <1>3

(* Resolve closes the one active incident of the code and no other. *)
LEMMA ResolveEffect ==
  ASSUME TypeOK, NEW s \in Signals, NEW o \in Observations,
         NEW w \in Stored(recent[s], o), Resolve(s, o, w)
  PROVE  /\ Len(incidents') = Len(incidents)
         /\ \E i \in Active(CodeOf[s]) :
              /\ i \in 1 .. Len(incidents)
              /\ incidents'[i] = Closed(incidents[i], s, o)
              /\ \A j \in 1 .. Len(incidents) : j # i => incidents'[j] = incidents[j]
              /\ Notify(i, "RESOLVED", "NONE", incidents[i].severity)
  <1>1. PICK i \in Active(CodeOf[s]) :
          /\ incidents' = [incidents EXCEPT ![i] = Closed(@, s, o)]
          /\ Notify(i, "RESOLVED", "NONE", incidents[i].severity)
    BY DEF Resolve
  <1>2. i \in 1 .. Len(incidents) /\ incidents \in Seq(Incidents)
    BY DEF Active, TypeOK
  <1>3. /\ Len(incidents') = Len(incidents)
        /\ incidents'[i] = Closed(incidents[i], s, o)
        /\ \A j \in 1 .. Len(incidents) : j # i => incidents'[j] = incidents[j]
    BY <1>1, <1>2
  <1> QED BY <1>1, <1>2, <1>3

(* Open adds one active incident and changes no other. *)
LEMMA OpenEffect ==
  ASSUME TypeOK, NEW s \in Signals, NEW o \in Observations,
         NEW w \in Stored(recent[s], o), Open(s, o, w)
  PROVE  /\ Len(incidents') = Len(incidents) + 1
         /\ incidents'[Len(incidents) + 1] = Opened(s, o, w)
         /\ Opened(s, o, w) \in Incidents
         /\ Opened(s, o, w).code = CodeOf[s]
         /\ Opened(s, o, w).lifecycle = "OPEN"
         /\ Opened(s, o, w).severity = o.state
         /\ \A j \in 1 .. Len(incidents) : incidents'[j] = incidents[j]
  <1>1. w \in Windows
    BY StoredWindow DEF TypeOK
  <1>2. /\ Opened(s, o, w) \in Incidents
        /\ Opened(s, o, w).code = CodeOf[s]
        /\ Opened(s, o, w).lifecycle = "OPEN"
        /\ Opened(s, o, w).severity = o.state
    BY <1>1, OpenedIncident, EngineAssumption DEF Open, OpenDue
  <1>3. incidents' = Append(incidents, Opened(s, o, w)) /\ incidents \in Seq(Incidents)
    BY DEF Open, OpenDue, TypeOK
  <1> QED BY <1>2, <1>3

(* The incidents and the windows are where the type says they are. *)
LEMMA Indices ==
  ASSUME TypeOK
  PROVE  /\ DOMAIN incidents = 1 .. Len(incidents)
         /\ Len(incidents) \in Nat
         /\ \A i \in 1 .. Len(incidents) : incidents[i] \in Incidents
  BY DEF TypeOK

(* At any time at most one incident of a fingerprint is active: evaluate   *)
(* looks the active one up before it opens another, and nothing reopens a  *)
(* resolved one.                                                           *)
THEOREM OneActive == Spec => []AtMostOneActive
  <1>1. Init => AtMostOneActive
    BY DEF Init, AtMostOneActive
  <1>2. TypeOK /\ TypeOK' /\ AtMostOneActive /\ [Next]_vars => AtMostOneActive'
    <2> SUFFICES ASSUME TypeOK, TypeOK', AtMostOneActive, [Next]_vars
                 PROVE  AtMostOneActive'
      OBVIOUS
    <2> USE DEF IsActive
    <2>0. /\ DOMAIN incidents = 1 .. Len(incidents) /\ Len(incidents) \in Nat
          /\ \A i \in 1 .. Len(incidents) : incidents[i] \in Incidents
          /\ DOMAIN incidents' = 1 .. Len(incidents')
      BY Indices DEF TypeOK
    <2>1. ASSUME NEW s \in Signals, NEW o \in Observations,
                 NEW w \in Stored(recent[s], o), Recur(s, o, w)
          PROVE  AtMostOneActive'
      <3>1. PICK i \in Active(CodeOf[s]) :
              /\ i \in 1 .. Len(incidents)
              /\ incidents'[i] = Recurred(incidents[i], s, o)
              /\ \A j \in 1 .. Len(incidents) : j # i => incidents'[j] = incidents[j]
        BY <2>1, RecurEffect
      <3>2. incidents'[i].code = incidents[i].code
              /\ incidents'[i].lifecycle = incidents[i].lifecycle
        BY <2>0, <2>1, <3>1, RecurredIncident DEF Recur
      <3>3. Len(incidents') = Len(incidents)
        BY <2>1, RecurEffect
      <3> QED BY <2>0, <3>1, <3>2, <3>3 DEF AtMostOneActive
    <2>2. ASSUME NEW s \in Signals, NEW o \in Observations,
                 NEW w \in Stored(recent[s], o), Open(s, o, w)
          PROVE  AtMostOneActive'
      <3>1. \A j \in 1 .. Len(incidents) :
              IsActive(j) => incidents[j].code # CodeOf[s]
        BY <2>0, <2>2 DEF Open, OpenDue, Active
      <3> DEFINE n == Len(incidents)
      <3>2. /\ Len(incidents') = n + 1
            /\ incidents'[n + 1].code = CodeOf[s]
            /\ \A j \in 1 .. n : incidents'[j] = incidents[j]
        BY <2>2, OpenEffect
      <3>3. SUFFICES ASSUME NEW i \in 1 .. n + 1, NEW j \in 1 .. n + 1, i < j,
                            incidents'[i].lifecycle # "RESOLVED",
                            incidents'[j].lifecycle # "RESOLVED",
                            incidents'[i].code = incidents'[j].code
                     PROVE  FALSE
        BY <2>0, <3>2 DEF AtMostOneActive
      <3>4. CASE j = n + 1
        BY <2>0, <3>1, <3>2, <3>3, <3>4
      <3>5. CASE j # n + 1
        BY <2>0, <3>2, <3>3, <3>5 DEF AtMostOneActive
      <3> QED BY <3>4, <3>5
    <2>3. ASSUME NEW s \in Signals, NEW o \in Observations,
                 NEW w \in Stored(recent[s], o), Resolve(s, o, w)
          PROVE  AtMostOneActive'
      <3>1. PICK i \in Active(CodeOf[s]) :
              /\ i \in 1 .. Len(incidents)
              /\ incidents'[i] = Closed(incidents[i], s, o)
              /\ \A j \in 1 .. Len(incidents) : j # i => incidents'[j] = incidents[j]
        BY <2>3, ResolveEffect
      <3>2. incidents'[i].lifecycle = "RESOLVED"
        BY <2>0, <3>1, ClosedIncident
      <3>3. Len(incidents') = Len(incidents)
        BY <2>3, ResolveEffect
      <3> QED BY <2>0, <3>1, <3>2, <3>3 DEF AtMostOneActive
    <2>4. ASSUME NEW s \in Signals, NEW o \in Observations,
                 NEW w \in Stored(recent[s], o), Quiet(s, o, w)
          PROVE  AtMostOneActive'
      BY <2>4 DEF Quiet, AtMostOneActive
    <2>5. CASE UNCHANGED vars
      BY <2>5 DEF vars, AtMostOneActive
    <2> QED BY <2>1, <2>2, <2>3, <2>4, <2>5, StepCases
  <1> QED BY <1>1, <1>2, TypeCorrect, PTL DEF Spec

-----------------------------------------------------------------------------
(* An incident is never left active once every signal of its code is back  *)
(* to two healthy observations, in whatever order the observations were    *)
(* stored.  The argument is that a window turns healthy only by storing a  *)
(* healthy observation, and that very evaluation resolves the incident.    *)
THEOREM ActiveIncidentHasCause == Spec => []ActiveHasCause
  <1>1. Init => ActiveHasCause
    BY DEF Init, ActiveHasCause
  <1>2. TypeOK /\ AtMostOneActive /\ ActiveHasCause /\ [Next]_vars => ActiveHasCause'
    <2> SUFFICES ASSUME TypeOK, AtMostOneActive, ActiveHasCause, [Next]_vars
                 PROVE  ActiveHasCause'
      OBVIOUS
    <2> DEFINE Cause(code) ==
                 \E t \in Signals : CodeOf[t] = code /\ ~Both(recent[t], {"HEALTHY"})
    <2>0. /\ DOMAIN incidents = 1 .. Len(incidents) /\ Len(incidents) \in Nat
          /\ \A i \in 1 .. Len(incidents) : incidents[i] \in Incidents
      BY Indices
    (* What storing does to the causes, for a state that is not healthy and  *)
    (* for one that does not complete two healthy observations.              *)
    <2>1. ASSUME NEW s \in Signals, NEW o \in Observations,
                 NEW w \in Stored(recent[s], o), Store(s, o, w), NEW code,
                 code # CodeOf[s] \/ ~Both(w, {"HEALTHY"}) \/ o.state # "HEALTHY",
                 Cause(code)
          PROVE  Cause(code)'
      <3>1. PICK t \in Signals : CodeOf[t] = code /\ ~Both(recent[t], {"HEALTHY"})
        BY <2>1
      <3>2. recent' = [recent EXCEPT ![s] = w] /\ recent \in [Signals -> Windows]
        BY <2>1 DEF Store, TypeOK
      <3>3. CASE t # s
        <4>1. recent'[t] = recent[t]
          BY <3>2, <3>3
        <4> QED BY <3>1, <4>1 DEF Both
      <3>4. CASE t = s
        <4>1. recent'[s] = w /\ recent[s] \in Windows
          BY <3>2
        <4>2. ~Both(w, {"HEALTHY"})
          <5> SUFFICES ASSUME Both(w, {"HEALTHY"}) PROVE FALSE
            OBVIOUS
          <5>1. o.state \in {"HEALTHY"}
            BY <3>1, <3>4, <4>1, StoredEnters
          <5> QED BY <5>1, <2>1, <3>1, <3>4
        <4> QED BY <3>1, <3>4, <4>1, <4>2 DEF Both
      <3> QED BY <3>3, <3>4
    <2>2. ASSUME NEW s \in Signals, NEW o \in Observations,
                 NEW w \in Stored(recent[s], o), Recur(s, o, w)
          PROVE  ActiveHasCause'
      <3>1. PICK i \in Active(CodeOf[s]) :
              /\ i \in 1 .. Len(incidents)
              /\ incidents'[i] = Recurred(incidents[i], s, o)
              /\ \A j \in 1 .. Len(incidents) : j # i => incidents'[j] = incidents[j]
        BY <2>2, RecurEffect
      <3>2. /\ incidents'[i].code = incidents[i].code
            /\ incidents'[i].lifecycle = incidents[i].lifecycle
        BY <2>0, <2>2, <3>1, RecurredIncident DEF Recur
      <3>3. Len(incidents') = Len(incidents)
        BY <2>2, RecurEffect
      <3>4. o.state # "HEALTHY"
        BY <2>2 DEF Recur, FailureStates
      <3>5. \A code : Cause(code) => Cause(code)'
        BY <2>1, <2>2, <3>4 DEF Recur
      <3>6. DOMAIN incidents' = 1 .. Len(incidents)
        BY <2>0, <2>2 DEF Recur
      <3>7. ASSUME NEW j \in 1 .. Len(incidents), incidents'[j].lifecycle # "RESOLVED"
            PROVE  Cause(incidents[j].code)'
        <4>1. /\ incidents'[j].code = incidents[j].code
              /\ incidents[j].lifecycle # "RESOLVED"
          BY <3>1, <3>2, <3>7
        <4>2. Cause(incidents[j].code)
          BY <2>0, <4>1 DEF ActiveHasCause, IsActive
        <4> QED BY <3>5, <4>1, <4>2
      <3> QED BY <3>6, <3>7 DEF ActiveHasCause, IsActive
    <2>3. ASSUME NEW s \in Signals, NEW o \in Observations,
                 NEW w \in Stored(recent[s], o), Open(s, o, w)
          PROVE  ActiveHasCause'
      <3> DEFINE n == Len(incidents)
      <3>1. /\ incidents'[n + 1].code = CodeOf[s]
            /\ \A j \in 1 .. n : incidents'[j] = incidents[j]
        BY <2>3, OpenEffect
      <3>2. DOMAIN incidents' = 1 .. n + 1
        BY <2>0, <2>3 DEF Open, OpenDue, TypeOK
      <3>3. o.state # "HEALTHY" /\ recent' = [recent EXCEPT ![s] = w]
              /\ ~Both(w, {"HEALTHY"})
        BY <2>3 DEF Open, OpenDue, Store, Both, FailureStates
      <3>4. \A code : Cause(code) => Cause(code)'
        BY <2>1, <2>3, <3>3 DEF Open, OpenDue
      <3>5. Cause(CodeOf[s])'
        BY <3>3 DEF TypeOK
      <3>6. ASSUME NEW j \in 1 .. n + 1, incidents'[j].lifecycle # "RESOLVED"
            PROVE  Cause(incidents[j].code)'
        <4>1. CASE j = n + 1
          BY <3>1, <3>5, <4>1
        <4>2. CASE j # n + 1
          <5>1. j \in 1 .. n /\ incidents'[j] = incidents[j]
            BY <2>0, <3>1, <4>2
          <5>2. Cause(incidents[j].code)
            BY <2>0, <3>6, <5>1 DEF ActiveHasCause, IsActive
          <5> QED BY <3>4, <5>1, <5>2
        <4> QED BY <4>1, <4>2
      <3> QED BY <3>2, <3>6 DEF ActiveHasCause, IsActive
    <2>4. ASSUME NEW s \in Signals, NEW o \in Observations,
                 NEW w \in Stored(recent[s], o), Resolve(s, o, w)
          PROVE  ActiveHasCause'
      <3>1. PICK i \in Active(CodeOf[s]) :
              /\ i \in 1 .. Len(incidents)
              /\ incidents'[i] = Closed(incidents[i], s, o)
              /\ \A j \in 1 .. Len(incidents) : j # i => incidents'[j] = incidents[j]
        BY <2>4, ResolveEffect
      <3>2. incidents'[i].lifecycle = "RESOLVED"
        BY <2>0, <3>1, ClosedIncident
      <3>3. DOMAIN incidents' = 1 .. Len(incidents)
        BY <2>0, <2>4 DEF Resolve
      <3>4. \A code : code # CodeOf[s] /\ Cause(code) => Cause(code)'
        BY <2>1, <2>4 DEF Resolve
      <3>5. \A j \in 1 .. Len(incidents) :
              j # i /\ IsActive(j) => incidents[j].code # CodeOf[s]
        BY <2>0, <3>1 DEF AtMostOneActive, Active
      <3>6. ASSUME NEW j \in 1 .. Len(incidents), incidents'[j].lifecycle # "RESOLVED"
            PROVE  Cause(incidents[j].code)'
        <4>1. j # i /\ incidents'[j] = incidents[j]
          BY <3>1, <3>2, <3>6
        <4>2. Cause(incidents[j].code) /\ incidents[j].code # CodeOf[s]
          BY <2>0, <3>5, <3>6, <4>1 DEF ActiveHasCause, IsActive
        <4> QED BY <3>4, <4>1, <4>2
      <3> QED BY <3>3, <3>6 DEF ActiveHasCause, IsActive
    <2>5. ASSUME NEW s \in Signals, NEW o \in Observations,
                 NEW w \in Stored(recent[s], o), Quiet(s, o, w)
          PROVE  ActiveHasCause'
      <3>1. incidents' = incidents /\ Store(s, o, w)
        BY <2>5 DEF Quiet
      <3>2. \/ CodeOf[s] = NoCode \/ Active(CodeOf[s]) = {}
            \/ o.state # "HEALTHY" \/ ~Both(w, {"HEALTHY"})
        BY <2>5 DEF Quiet, Evaluated, FailureStates
      <3>3. ASSUME NEW j \in 1 .. Len(incidents), IsActive(j)
            PROVE  Cause(incidents[j].code)'
        <4>1. Cause(incidents[j].code)
          BY <2>0, <3>3 DEF ActiveHasCause
        <4>2. incidents[j].code # NoCode
          BY <2>0, EngineAssumption DEF EngineAssumption, Incidents
        <4>3. \/ incidents[j].code # CodeOf[s]
              \/ o.state # "HEALTHY" \/ ~Both(w, {"HEALTHY"})
          BY <2>0, <3>2, <3>3, <4>2 DEF Active
        <4> QED BY <2>1, <3>1, <4>1, <4>3
      <3> QED BY <2>0, <3>1, <3>3 DEF ActiveHasCause, IsActive
    <2>6. CASE UNCHANGED vars
      BY <2>6 DEF vars, ActiveHasCause, IsActive, Both
    <2> QED BY <2>2, <2>3, <2>4, <2>5, <2>6, StepCases
  <1> QED BY <1>1, <1>2, TypeCorrect, OneActive, PTL DEF Spec

-----------------------------------------------------------------------------
(* A signal alone under its code whose two newest observations fail has an *)
(* active incident, whatever the signals of other codes report.            *)
THEOREM FailingSignalHasIncident == Spec => []FailingHasIncident
  <1>1. Init => FailingHasIncident
    BY DEF Init, FailingHasIncident, Both, Nothing, FailureStates
  <1>2. TypeOK /\ FailingHasIncident /\ [Next]_vars => FailingHasIncident'
    <2> SUFFICES ASSUME TypeOK, FailingHasIncident, [Next]_vars
                 PROVE  FailingHasIncident'
      OBVIOUS
    <2>0. /\ DOMAIN incidents = 1 .. Len(incidents) /\ Len(incidents) \in Nat
          /\ \A i \in 1 .. Len(incidents) : incidents[i] \in Incidents
      BY Indices
    (* Another signal than the observed one keeps its window.               *)
    <2>1. ASSUME NEW s \in Signals, NEW o \in Observations,
                 NEW w \in Stored(recent[s], o), Store(s, o, w)
          PROVE  /\ recent'[s] = w
                 /\ \A t \in Signals : t # s => recent'[t] = recent[t]
      BY <2>1 DEF Store, TypeOK
    (* The codes that keep an active incident across each branch.           *)
    <2>2. ASSUME NEW s \in Signals, NEW o \in Observations,
                 NEW w \in Stored(recent[s], o), Recur(s, o, w)
          PROVE  FailingHasIncident'
      <3>1. PICK i \in Active(CodeOf[s]) :
              /\ i \in 1 .. Len(incidents)
              /\ incidents'[i] = Recurred(incidents[i], s, o)
              /\ \A j \in 1 .. Len(incidents) : j # i => incidents'[j] = incidents[j]
        BY <2>2, RecurEffect
      <3>2. /\ incidents'[i].code = incidents[i].code
            /\ incidents'[i].lifecycle = incidents[i].lifecycle
        BY <2>0, <2>2, <3>1, RecurredIncident DEF Recur
      <3>3. DOMAIN incidents' = DOMAIN incidents
        BY <2>2 DEF Recur
      <3>4. \A code : Active(code) \subseteq Active(code)'
        BY <2>0, <3>1, <3>2, <3>3 DEF Active, IsActive
      <3>5. Active(CodeOf[s])' # {}
        BY <3>1, <3>4
      <3> QED BY <2>1, <2>2, <3>4, <3>5 DEF FailingHasIncident, Recur, Both
    <2>3. ASSUME NEW s \in Signals, NEW o \in Observations,
                 NEW w \in Stored(recent[s], o), Open(s, o, w)
          PROVE  FailingHasIncident'
      <3> DEFINE n == Len(incidents)
      <3>1. /\ incidents'[n + 1].code = CodeOf[s]
            /\ incidents'[n + 1].lifecycle = "OPEN"
            /\ \A j \in 1 .. n : incidents'[j] = incidents[j]
        BY <2>3, OpenEffect
      <3>2. DOMAIN incidents' = 1 .. n + 1
        BY <2>0, <2>3 DEF Open, OpenDue, TypeOK
      <3>3. \A code : Active(code) \subseteq Active(code)'
        BY <2>0, <3>1, <3>2 DEF Active, IsActive
      <3>4. n + 1 \in Active(CodeOf[s])'
        BY <2>0, <3>1, <3>2 DEF Active, IsActive
      <3> QED BY <2>1, <2>3, <3>3, <3>4 DEF FailingHasIncident, Open, OpenDue, Both
    <2>4. ASSUME NEW s \in Signals, NEW o \in Observations,
                 NEW w \in Stored(recent[s], o), Resolve(s, o, w)
          PROVE  FailingHasIncident'
      <3>1. PICK i \in Active(CodeOf[s]) :
              /\ i \in 1 .. Len(incidents)
              /\ incidents'[i] = Closed(incidents[i], s, o)
              /\ \A j \in 1 .. Len(incidents) : j # i => incidents'[j] = incidents[j]
        BY <2>4, ResolveEffect
      <3>2. DOMAIN incidents' = DOMAIN incidents
        BY <2>4 DEF Resolve
      <3>3. \A code : code # CodeOf[s] => Active(code) \subseteq Active(code)'
        BY <2>0, <3>1, <3>2 DEF Active, IsActive
      <3>4. ~Both(recent'[s], FailureStates)
        BY <2>1, <2>4 DEF Resolve, Both, FailureStates
      <3>5. \A t \in Signals : t # s /\ Alone(t) => CodeOf[t] # CodeOf[s]
        BY DEF Alone
      <3> QED BY <2>1, <2>4, <3>3, <3>4, <3>5 DEF FailingHasIncident, Resolve, Both
    <2>5. ASSUME NEW s \in Signals, NEW o \in Observations,
                 NEW w \in Stored(recent[s], o), Quiet(s, o, w)
          PROVE  FailingHasIncident'
      <3>1. /\ Store(s, o, w)
            /\ \A code : Active(code)' = Active(code)
        BY <2>5 DEF Quiet, Active, IsActive
      <3>2. recent[s] \in Windows
        BY DEF TypeOK
      <3>3. ASSUME Alone(s), CodeOf[s] # NoCode, Both(w, FailureStates)
            PROVE  Active(CodeOf[s]) # {}
        <4>1. CASE Both(recent[s], FailureStates)
          BY <3>3, <4>1 DEF FailingHasIncident
        <4>2. CASE ~Both(recent[s], FailureStates)
          <5>1. o.state \in FailureStates
            BY <3>2, <3>3, <4>2, StoredEnters
          <5> QED BY <2>5, <3>3, <5>1 DEF Quiet, OpenDue, Evaluated, FailureStates
        <4> QED BY <4>1, <4>2
      <3> QED BY <2>1, <3>1, <3>3 DEF FailingHasIncident, Both
    <2>6. CASE UNCHANGED vars
      BY <2>6 DEF vars, FailingHasIncident, Active, IsActive, Both
    <2> QED BY <2>2, <2>3, <2>4, <2>5, <2>6, StepCases
  <1> QED BY <1>1, <1>2, TypeCorrect, PTL DEF Spec

-----------------------------------------------------------------------------
(* What every step keeps of an incident. *)
Kept ==
  \A i \in DOMAIN incidents :
    /\ i \in DOMAIN incidents'
    /\ ~IsActive(i) => incidents'[i] = incidents[i]
    /\ SeverityRank(incidents'[i].severity) >= SeverityRank(incidents[i].severity)
    /\ incidents'[i].count >= incidents[i].count
    /\ incidents'[i].code = incidents[i].code
    /\ incidents'[i].first = incidents[i].first

(* Every branch of evaluate keeps that. *)
LEMMA StepKeeps ==
  ASSUME TypeOK, Next
  PROVE  Kept
  <1>0. /\ DOMAIN incidents = 1 .. Len(incidents) /\ Len(incidents) \in Nat
        /\ \A i \in 1 .. Len(incidents) : incidents[i] \in Incidents
    BY Indices
  <1>1. \A x : SeverityRank(x) \in Nat
    BY DEF SeverityRank
  <1>2. ASSUME NEW s \in Signals, NEW o \in Observations,
               NEW w \in Stored(recent[s], o), Recur(s, o, w)
        PROVE  Kept
    <2>1. PICK i \in Active(CodeOf[s]) :
            /\ i \in 1 .. Len(incidents)
            /\ incidents'[i] = Recurred(incidents[i], s, o)
            /\ \A j \in 1 .. Len(incidents) : j # i => incidents'[j] = incidents[j]
      BY <1>2, RecurEffect
    <2>2. /\ IsActive(i)
          /\ incidents'[i].code = incidents[i].code
          /\ incidents'[i].first = incidents[i].first
          /\ incidents'[i].count >= incidents[i].count
          /\ incidents'[i].severity =
               IF Worse(o, incidents[i].severity) THEN o.state ELSE incidents[i].severity
      BY <1>0, <1>2, <2>1, RecurredIncident DEF Recur, Active
    <2>3. SeverityRank(incidents'[i].severity) >= SeverityRank(incidents[i].severity)
      BY <1>1, <2>2 DEF Worse
    <2>4. DOMAIN incidents' = DOMAIN incidents
      BY <1>2 DEF Recur
    <2>5. ASSUME NEW j \in 1 .. Len(incidents), j # i
          PROVE  incidents'[j] = incidents[j] /\ incidents[j].count \in Nat
      BY <1>0, <2>1, <2>5 DEF Incidents
    <2> QED BY <1>0, <1>1, <2>1, <2>2, <2>3, <2>4, <2>5 DEF Kept
  <1>3. ASSUME NEW s \in Signals, NEW o \in Observations,
               NEW w \in Stored(recent[s], o), Open(s, o, w)
        PROVE  Kept
    <2>1. \A j \in 1 .. Len(incidents) :
            incidents'[j] = incidents[j] /\ incidents[j].count \in Nat
      BY <1>0, <1>3, OpenEffect DEF Incidents
    <2>2. DOMAIN incidents' = 1 .. Len(incidents) + 1
      BY <1>0, <1>3 DEF Open, OpenDue, TypeOK
    <2> QED BY <1>0, <1>1, <2>1, <2>2 DEF Kept
  <1>4. ASSUME NEW s \in Signals, NEW o \in Observations,
               NEW w \in Stored(recent[s], o), Resolve(s, o, w)
        PROVE  Kept
    <2>1. PICK i \in Active(CodeOf[s]) :
            /\ i \in 1 .. Len(incidents)
            /\ incidents'[i] = Closed(incidents[i], s, o)
            /\ \A j \in 1 .. Len(incidents) : j # i => incidents'[j] = incidents[j]
      BY <1>4, ResolveEffect
    <2>2. /\ IsActive(i)
          /\ incidents'[i].code = incidents[i].code
          /\ incidents'[i].first = incidents[i].first
          /\ incidents'[i].count = incidents[i].count
          /\ incidents'[i].severity = incidents[i].severity
      BY <1>0, <2>1, ClosedIncident DEF Active
    <2>3. DOMAIN incidents' = DOMAIN incidents
      BY <1>4 DEF Resolve
    <2>4. \A j \in 1 .. Len(incidents) : incidents[j].count \in Nat
      BY <1>0 DEF Incidents
    <2> QED BY <1>0, <1>1, <2>1, <2>2, <2>3, <2>4 DEF Kept
  <1>5. ASSUME NEW s \in Signals, NEW o \in Observations,
               NEW w \in Stored(recent[s], o), Quiet(s, o, w)
        PROVE  Kept
    <2>1. \A j \in 1 .. Len(incidents) : incidents[j].count \in Nat
      BY <1>0 DEF Incidents
    <2> QED BY <1>0, <1>1, <1>5, <2>1 DEF Quiet, Kept
  <1> QED BY <1>2, <1>3, <1>4, <1>5, StepCases

(* No step rewrites a resolved incident, lowers a severity or a count, or  *)
(* changes what an incident is about.                                      *)
THEOREM IncidentHistory == Spec => HistoryKept
  <1>1. TypeOK /\ [Next]_vars => [Kept]_vars
    BY StepKeeps
  <1>2. [][Kept]_vars <=> HistoryKept
    BY DEF HistoryKept, Kept
  <1> QED BY <1>1, <1>2, TypeCorrect, PTL DEF Spec

-----------------------------------------------------------------------------
(* The outbox.  Seen from it a step is one of four things: it tells        *)
(* nothing, an escalation, a resolution or an opening.                     *)
SameStatus(i) ==
  /\ incidents'[i].severity = incidents[i].severity
  /\ incidents'[i].lifecycle = incidents[i].lifecycle

OthersSame(i) ==
  /\ Len(incidents') = Len(incidents)
  /\ \A j \in 1 .. Len(incidents) : j # i => SameStatus(j)

TellsNothing ==
  /\ Len(incidents') = Len(incidents)
  /\ \A j \in 1 .. Len(incidents) : SameStatus(j)
  /\ UNCHANGED <<outbox, requests>>

TellsEscalation(i) ==
  /\ OthersSame(i)
  /\ incidents[i].lifecycle # "RESOLVED" /\ incidents'[i].lifecycle # "RESOLVED"
  /\ incidents'[i].severity \in FailureStates
  /\ SeverityRank(incidents'[i].severity) > SeverityRank(incidents[i].severity)
  /\ Notify(i, "ESCALATED", incidents[i].severity, incidents'[i].severity)

TellsResolution(i) ==
  /\ OthersSame(i)
  /\ incidents[i].lifecycle # "RESOLVED" /\ incidents'[i].lifecycle = "RESOLVED"
  /\ incidents'[i].severity = incidents[i].severity
  /\ Notify(i, "RESOLVED", "NONE", incidents[i].severity)

TellsOpening(i) ==
  /\ i = Len(incidents) + 1 /\ Len(incidents') = i
  /\ \A j \in 1 .. Len(incidents) : SameStatus(j)
  /\ incidents'[i].lifecycle # "RESOLVED"
  /\ incidents'[i].severity \in FailureStates
  /\ Notify(i, "OPENED", "NONE", incidents'[i].severity)

(* A step tells nothing, or one opening, escalation or resolution. *)
LEMMA WhatStepsTell ==
  ASSUME TypeOK, [Next]_vars
  PROVE  \/ TellsNothing
         \/ \E i \in 1 .. Len(incidents) : TellsEscalation(i) \/ TellsResolution(i)
         \/ TellsOpening(Len(incidents) + 1)
  <1>0. \A i \in 1 .. Len(incidents) : incidents[i] \in Incidents
    BY Indices
  <1>1. ASSUME NEW s \in Signals, NEW o \in Observations,
               NEW w \in Stored(recent[s], o), Recur(s, o, w)
        PROVE  TellsNothing \/ \E i \in 1 .. Len(incidents) : TellsEscalation(i)
    <2>1. PICK i \in Active(CodeOf[s]) :
            /\ i \in 1 .. Len(incidents)
            /\ incidents'[i] = Recurred(incidents[i], s, o)
            /\ \A j \in 1 .. Len(incidents) : j # i => incidents'[j] = incidents[j]
            /\ IF Worse(o, incidents[i].severity)
               THEN Notify(i, "ESCALATED", incidents[i].severity, o.state)
               ELSE UNCHANGED <<outbox, requests>>
      BY <1>1, RecurEffect
    <2>2. /\ incidents[i].lifecycle # "RESOLVED"
          /\ incidents'[i].lifecycle = incidents[i].lifecycle
          /\ incidents'[i].severity =
               IF Worse(o, incidents[i].severity) THEN o.state ELSE incidents[i].severity
          /\ o.state \in FailureStates
      BY <1>0, <1>1, <2>1, RecurredIncident DEF Recur, Active, IsActive
    <2>3. Len(incidents') = Len(incidents)
      BY <1>1, RecurEffect
    <2>4. OthersSame(i)
      BY <2>1, <2>3 DEF OthersSame, SameStatus
    <2>5. CASE Worse(o, incidents[i].severity)
      <3>1. incidents'[i].severity = o.state
        BY <2>2, <2>5
      <3>2. SeverityRank(incidents'[i].severity) > SeverityRank(incidents[i].severity)
        BY <2>5, <3>1 DEF Worse
      <3>3. Notify(i, "ESCALATED", incidents[i].severity, incidents'[i].severity)
        BY <2>1, <2>5, <3>1
      <3> QED BY <2>1, <2>2, <2>4, <3>1, <3>2, <3>3 DEF TellsEscalation
    <2>6. CASE ~Worse(o, incidents[i].severity)
      BY <2>1, <2>2, <2>3, <2>4, <2>6 DEF TellsNothing, OthersSame, SameStatus
    <2> QED BY <2>5, <2>6
  <1>2. ASSUME NEW s \in Signals, NEW o \in Observations,
               NEW w \in Stored(recent[s], o), Open(s, o, w)
        PROVE  TellsOpening(Len(incidents) + 1)
    <2> DEFINE n == Len(incidents) + 1
    <2>1. /\ Len(incidents') = n
          /\ incidents'[n].lifecycle # "RESOLVED"
          /\ incidents'[n].severity = o.state
          /\ \A j \in 1 .. Len(incidents) : incidents'[j] = incidents[j]
      BY <1>2, OpenEffect
    <2>2. o.state \in FailureStates /\ Notify(n, "OPENED", "NONE", o.state)
      BY <1>2 DEF Open, OpenDue
    <2>3. Notify(n, "OPENED", "NONE", incidents'[n].severity)
      BY <2>1, <2>2
    <2> QED BY <2>1, <2>2, <2>3 DEF TellsOpening, SameStatus
  <1>3. ASSUME NEW s \in Signals, NEW o \in Observations,
               NEW w \in Stored(recent[s], o), Resolve(s, o, w)
        PROVE  \E i \in 1 .. Len(incidents) : TellsResolution(i)
    <2>1. PICK i \in Active(CodeOf[s]) :
            /\ i \in 1 .. Len(incidents)
            /\ incidents'[i] = Closed(incidents[i], s, o)
            /\ \A j \in 1 .. Len(incidents) : j # i => incidents'[j] = incidents[j]
            /\ Notify(i, "RESOLVED", "NONE", incidents[i].severity)
      BY <1>3, ResolveEffect
    <2>2. /\ incidents[i].lifecycle # "RESOLVED"
          /\ incidents'[i].lifecycle = "RESOLVED"
          /\ incidents'[i].severity = incidents[i].severity
      BY <1>0, <2>1, ClosedIncident DEF Active, IsActive
    <2>3. Len(incidents') = Len(incidents)
      BY <1>3, ResolveEffect
    <2> QED BY <2>1, <2>2, <2>3 DEF TellsResolution, OthersSame, SameStatus
  <1>4. ASSUME NEW s \in Signals, NEW o \in Observations,
               NEW w \in Stored(recent[s], o), Quiet(s, o, w)
        PROVE  TellsNothing
    BY <1>4 DEF Quiet, TellsNothing, SameStatus
  <1>5. CASE UNCHANGED vars
    BY <1>5 DEF vars, TellsNothing, SameStatus
  <1> QED BY <1>1, <1>2, <1>3, <1>4, <1>5, StepCases

(* _notify appends one event and changes no earlier one. *)
LEMMA NotifyEffect ==
  ASSUME TypeOK, NEW i, NEW type, NEW from, NEW severity, Notify(i, type, from, severity)
  PROVE  LET n == Len(outbox) + 1
         IN  /\ Len(outbox') = n /\ Len(outbox) \in Nat
             /\ DOMAIN outbox = 1 .. Len(outbox) /\ DOMAIN outbox' = 1 .. n
             /\ outbox'[n].incident = i /\ outbox'[n].type = type
             /\ outbox'[n].from = from /\ outbox'[n].to = severity
             /\ \A k \in 1 .. Len(outbox) : outbox'[k] = outbox[k]
  <1>1. outbox' = Append(outbox, Event(i, type, from, severity)) /\ outbox \in Seq(Events)
    BY DEF Notify, TypeOK
  <1> QED BY <1>1 DEF Event

(* What is needed beside OutboxTellsLifecycle to make it inductive: of two *)
(* events of an incident the later one is no opening, the earlier one no   *)
(* resolution, and severities do not fall.                                 *)
OutboxOrdered ==
  \A k, l \in DOMAIN outbox :
    k < l /\ outbox[k].incident = outbox[l].incident
      => /\ outbox[k].type # "RESOLVED"
         /\ outbox[l].type # "OPENED"
         /\ SeverityRank(outbox[k].to) <= SeverityRank(outbox[l].to)
         /\ outbox[l].type = "ESCALATED"
              => SeverityRank(outbox[k].to) < SeverityRank(outbox[l].to)

OutboxInv == OutboxTellsLifecycle /\ OutboxOrdered

(* The event a branch of evaluate appends fits the events before it. *)
LEMMA NewEventFits ==
  ASSUME TypeOK, OutboxInv, NEW i, NEW type, NEW from, NEW severity,
         Notify(i, type, from, severity),
         \/ type = "OPENED" /\ i \notin DOMAIN incidents
         \/ /\ type = "ESCALATED" /\ i \in DOMAIN incidents /\ IsActive(i)
            /\ from = incidents[i].severity
            /\ SeverityRank(severity) > SeverityRank(from)
         \/ /\ type = "RESOLVED" /\ i \in DOMAIN incidents /\ IsActive(i)
            /\ severity = incidents[i].severity
  PROVE  OutboxOrdered' /\ EventsFollow'
  <1>0. PICK n : n = Len(outbox) + 1
    OBVIOUS
  <1>1. /\ n = Len(outbox) + 1 /\ Len(outbox) \in Nat
        /\ DOMAIN outbox = 1 .. Len(outbox) /\ DOMAIN outbox' = 1 .. n
        /\ outbox'[n].incident = i /\ outbox'[n].type = type
        /\ outbox'[n].from = from /\ outbox'[n].to = severity
        /\ \A k \in 1 .. Len(outbox) : outbox'[k] = outbox[k]
    BY <1>0, NotifyEffect
  <1>2. \A x : SeverityRank(x) \in Nat
    BY DEF SeverityRank
  <1>3. ASSUME i \in DOMAIN incidents
        PROVE  \E k \in 1 .. Len(outbox) :
                 /\ outbox[k].incident = i
                 /\ \A l \in 1 .. Len(outbox) : outbox[l].incident = i => l <= k
                 /\ outbox[k].to = incidents[i].severity
                 /\ outbox[k].type = "RESOLVED" <=> ~IsActive(i)
    BY <1>1, <1>3 DEF OutboxInv, OutboxTellsLifecycle, LastEventTellsStatus
  <1>4. ASSUME i \notin DOMAIN incidents
        PROVE  \A l \in 1 .. Len(outbox) : outbox[l].incident # i
    BY <1>1, <1>4 DEF OutboxInv, OutboxTellsLifecycle, EventsOfIncidents
  <1>5. OutboxOrdered'
    <2> SUFFICES ASSUME NEW k \in 1 .. n, NEW l \in 1 .. n, k < l,
                        outbox'[k].incident = outbox'[l].incident
                 PROVE  /\ outbox'[k].type # "RESOLVED"
                        /\ outbox'[l].type # "OPENED"
                        /\ SeverityRank(outbox'[k].to) <= SeverityRank(outbox'[l].to)
                        /\ outbox'[l].type = "ESCALATED"
                             => SeverityRank(outbox'[k].to) < SeverityRank(outbox'[l].to)
      BY <1>1 DEF OutboxOrdered
    <2>1. k \in 1 .. Len(outbox) /\ outbox'[k] = outbox[k]
      BY <1>1
    <2>2. CASE l # n
      <3>1. l \in 1 .. Len(outbox) /\ outbox'[l] = outbox[l]
        BY <1>1, <2>2
      <3> QED BY <1>1, <2>1, <3>1 DEF OutboxInv, OutboxOrdered
    <2>3. CASE l = n
      <3>1. i \in DOMAIN incidents /\ outbox[k].incident = i
        BY <1>1, <1>4, <2>1, <2>3
      <3>2. PICK m \in 1 .. Len(outbox) :
              /\ outbox[m].incident = i
              /\ \A x \in 1 .. Len(outbox) : outbox[x].incident = i => x <= m
              /\ outbox[m].to = incidents[i].severity
              /\ outbox[m].type = "RESOLVED" <=> ~IsActive(i)
        BY <1>3, <3>1
      <3>3. /\ IsActive(i) /\ type # "OPENED"
            /\ SeverityRank(incidents[i].severity) <= SeverityRank(severity)
            /\ type = "ESCALATED"
                 => SeverityRank(incidents[i].severity) < SeverityRank(severity)
        BY <1>2, <3>1
      <3>4. /\ outbox[k].type # "RESOLVED"
            /\ SeverityRank(outbox[k].to) <= SeverityRank(outbox[m].to)
        <4>1. CASE k = m
          BY <1>2, <3>2, <3>3, <4>1
        <4>2. CASE k # m
          <5>1. k < m
            BY <2>1, <3>1, <3>2, <4>2
          <5> QED BY <1>1, <2>1, <3>1, <3>2, <5>1 DEF OutboxInv, OutboxOrdered
        <4> QED BY <4>1, <4>2
      <3> QED BY <1>1, <1>2, <2>1, <2>3, <3>2, <3>3, <3>4
    <2> QED BY <2>2, <2>3
  <1>6. EventsFollow'
    <2>1. ASSUME NEW k \in 1 .. Len(outbox), NEW l \in 1 .. Len(outbox), JustBefore(l, k)
          PROVE  JustBefore(l, k)'
      BY <1>1, <2>1 DEF JustBefore
    <2>2. ASSUME NEW k \in 1 .. Len(outbox)
          PROVE  \/ /\ outbox'[k].type = "OPENED"
                    /\ \A l \in 1 .. n : l < k => outbox'[l].incident # outbox'[k].incident
                 \/ /\ outbox'[k].type # "OPENED"
                    /\ \E l \in 1 .. n :
                         /\ JustBefore(l, k)'
                         /\ outbox'[l].type # "RESOLVED"
                         /\ \/ /\ outbox'[k].type = "RESOLVED"
                               /\ outbox'[k].to = outbox'[l].to
                            \/ /\ outbox'[k].type = "ESCALATED"
                               /\ outbox'[k].from = outbox'[l].to
                               /\ SeverityRank(outbox'[k].to) > SeverityRank(outbox'[k].from)
      <3>1. CASE outbox[k].type = "OPENED"
        BY <1>1, <3>1 DEF OutboxInv, OutboxTellsLifecycle, EventsFollow
      <3>2. CASE outbox[k].type # "OPENED"
        <4>1. PICK l \in 1 .. Len(outbox) :
                /\ JustBefore(l, k)
                /\ outbox[l].type # "RESOLVED"
                /\ \/ outbox[k].type = "RESOLVED" /\ outbox[k].to = outbox[l].to
                   \/ /\ outbox[k].type = "ESCALATED"
                      /\ outbox[k].from = outbox[l].to
                      /\ SeverityRank(outbox[k].to) > SeverityRank(outbox[k].from)
          BY <1>1, <3>2 DEF OutboxInv, OutboxTellsLifecycle, EventsFollow
        <4>2. JustBefore(l, k)' /\ l \in 1 .. n
          BY <1>1, <2>1, <4>1
        <4> QED BY <1>1, <3>2, <4>1, <4>2
      <3> QED BY <3>1, <3>2
    <2>3. CASE type = "OPENED"
      <3>1. \A l \in 1 .. n : l < n => outbox'[l].incident # outbox'[n].incident
        BY <1>1, <1>4, <2>3
      <3> QED BY <1>1, <2>2, <2>3, <3>1 DEF EventsFollow
    <2>4. CASE type # "OPENED"
      <3>1. i \in DOMAIN incidents /\ IsActive(i)
        BY <2>4
      <3>2. PICK m \in 1 .. Len(outbox) :
              /\ outbox[m].incident = i
              /\ \A x \in 1 .. Len(outbox) : outbox[x].incident = i => x <= m
              /\ outbox[m].to = incidents[i].severity
              /\ outbox[m].type = "RESOLVED" <=> ~IsActive(i)
        BY <1>3, <3>1
      <3>3. JustBefore(m, n)'
        BY <1>1, <3>2 DEF JustBefore
      <3>4. /\ m \in 1 .. n /\ outbox'[m] = outbox[m]
            /\ outbox'[m].type # "RESOLVED"
            /\ \/ outbox'[n].type = "RESOLVED" /\ outbox'[n].to = outbox'[m].to
               \/ /\ outbox'[n].type = "ESCALATED"
                  /\ outbox'[n].from = outbox'[m].to
                  /\ SeverityRank(outbox'[n].to) > SeverityRank(outbox'[n].from)
        BY <1>1, <2>4, <3>1, <3>2
      <3> QED BY <1>1, <2>2, <2>4, <3>3, <3>4 DEF EventsFollow
    <2> QED BY <2>3, <2>4
  <1> QED BY <1>5, <1>6

(* After a notification for i the last event of i is the new one, and the  *)
(* other incidents keep theirs.                                            *)
LEMMA LastEventAfterNotify ==
  ASSUME TypeOK, OutboxInv, NEW i \in DOMAIN incidents', NEW type, NEW from, NEW severity,
         Notify(i, type, from, severity),
         severity = incidents'[i].severity,
         type = "RESOLVED" <=> incidents'[i].lifecycle = "RESOLVED",
         \A j \in DOMAIN incidents' : j # i => j \in DOMAIN incidents /\ SameStatus(j),
         \A j \in DOMAIN incidents : j \in DOMAIN incidents'
  PROVE  EventsOfIncidents' /\ LastEventTellsStatus'
  <1>0. PICK n : n = Len(outbox) + 1
    OBVIOUS
  <1>1. /\ n = Len(outbox) + 1 /\ Len(outbox) \in Nat
        /\ DOMAIN outbox = 1 .. Len(outbox) /\ DOMAIN outbox' = 1 .. n
        /\ outbox'[n].incident = i /\ outbox'[n].type = type
        /\ outbox'[n].to = severity
        /\ \A k \in 1 .. Len(outbox) : outbox'[k] = outbox[k]
    BY <1>0, NotifyEffect
  <1>2. EventsOfIncidents'
    <2> SUFFICES ASSUME NEW k \in 1 .. n PROVE outbox'[k].incident \in DOMAIN incidents'
      BY <1>1 DEF EventsOfIncidents
    <2>1. CASE k = n
      BY <1>1, <2>1
    <2>2. CASE k # n
      BY <1>1, <2>2 DEF OutboxInv, OutboxTellsLifecycle, EventsOfIncidents
    <2> QED BY <2>1, <2>2
  <1>3. LastEventTellsStatus'
    <2> SUFFICES ASSUME NEW j \in DOMAIN incidents'
                 PROVE  \E k \in 1 .. n :
                          /\ outbox'[k].incident = j
                          /\ \A l \in 1 .. n : outbox'[l].incident = j => l <= k
                          /\ outbox'[k].to = incidents'[j].severity
                          /\ outbox'[k].type = "RESOLVED"
                               <=> ~(incidents'[j].lifecycle # "RESOLVED")
      BY <1>1 DEF LastEventTellsStatus, IsActive
    <2>1. CASE j = i
      <3>1. n \in 1 .. n /\ \A l \in 1 .. n : l <= n
        BY <1>1
      <3> QED BY <1>1, <2>1, <3>1
    <2>2. CASE j # i
      <3>1. j \in DOMAIN incidents /\ SameStatus(j)
        BY <2>2
      <3>2. PICK k \in 1 .. Len(outbox) :
              /\ outbox[k].incident = j
              /\ \A l \in 1 .. Len(outbox) : outbox[l].incident = j => l <= k
              /\ outbox[k].to = incidents[j].severity
              /\ outbox[k].type = "RESOLVED" <=> ~(incidents[j].lifecycle # "RESOLVED")
        BY <1>1, <3>1 DEF OutboxInv, OutboxTellsLifecycle, LastEventTellsStatus, IsActive
      <3>3. k \in 1 .. n /\ outbox'[k] = outbox[k]
        BY <1>1
      <3>4. \A l \in 1 .. n : outbox'[l].incident = j => l <= k
        BY <1>1, <2>2, <3>2
      <3> QED BY <3>1, <3>2, <3>3, <3>4 DEF SameStatus
    <2> QED BY <2>1, <2>2
  <1> QED BY <1>2, <1>3

(* The outbox tells every incident's life, truthfully and in order.        *)
LEMMA OutboxInvariant == Spec => []OutboxInv
  <1>1. Init => OutboxInv
    BY DEF Init, OutboxInv, OutboxTellsLifecycle, EventsOfIncidents,
           LastEventTellsStatus, EventsFollow, OutboxOrdered
  <1>2. TypeOK /\ TypeOK' /\ OutboxInv /\ [Next]_vars => OutboxInv'
    <2> SUFFICES ASSUME TypeOK, TypeOK', OutboxInv, [Next]_vars PROVE OutboxInv'
      OBVIOUS
    <2>0. /\ DOMAIN incidents = 1 .. Len(incidents) /\ Len(incidents) \in Nat
          /\ DOMAIN incidents' = 1 .. Len(incidents')
      BY DEF TypeOK
    <2>1. CASE TellsNothing
      <3>1. /\ DOMAIN incidents' = DOMAIN incidents /\ outbox' = outbox
            /\ \A j \in DOMAIN incidents :
                 /\ incidents'[j].severity = incidents[j].severity
                 /\ incidents'[j].lifecycle = incidents[j].lifecycle
        BY <2>0, <2>1 DEF TellsNothing, SameStatus
      <3>2. EventsOfIncidents' /\ OutboxOrdered' /\ EventsFollow'
        BY <3>1 DEF OutboxInv, OutboxTellsLifecycle, EventsOfIncidents, OutboxOrdered,
                    EventsFollow, JustBefore
      <3>3. LastEventTellsStatus'
        BY <3>1 DEF OutboxInv, OutboxTellsLifecycle, LastEventTellsStatus, IsActive
      <3> QED BY <3>2, <3>3 DEF OutboxInv, OutboxTellsLifecycle
    <2>2. ASSUME NEW i \in 1 .. Len(incidents), TellsEscalation(i)
          PROVE  OutboxInv'
      <3>1. PICK from, severity :
              from = incidents[i].severity /\ severity = incidents'[i].severity
        OBVIOUS
      <3>2. Notify(i, "ESCALATED", from, severity)
        BY <2>2, <3>1 DEF TellsEscalation
      <3>3. OutboxOrdered' /\ EventsFollow'
        <4>1. /\ i \in DOMAIN incidents /\ IsActive(i)
              /\ SeverityRank(severity) > SeverityRank(from)
          BY <2>0, <2>2, <3>1 DEF TellsEscalation, IsActive
        <4> QED BY <3>1, <3>2, <4>1, NewEventFits
      <3>4. EventsOfIncidents' /\ LastEventTellsStatus'
        <4>1. /\ i \in DOMAIN incidents'
              /\ incidents'[i].lifecycle # "RESOLVED"
              /\ \A j \in DOMAIN incidents' : j # i => j \in DOMAIN incidents /\ SameStatus(j)
              /\ \A j \in DOMAIN incidents : j \in DOMAIN incidents'
          BY <2>0, <2>2 DEF TellsEscalation, OthersSame
        <4> QED BY <3>1, <3>2, <4>1, LastEventAfterNotify
      <3> QED BY <3>3, <3>4 DEF OutboxInv, OutboxTellsLifecycle
    <2>3. ASSUME NEW i \in 1 .. Len(incidents), TellsResolution(i)
          PROVE  OutboxInv'
      <3>1. PICK severity : severity = incidents[i].severity
        OBVIOUS
      <3>2. Notify(i, "RESOLVED", "NONE", severity)
        BY <2>3, <3>1 DEF TellsResolution
      <3>3. OutboxOrdered' /\ EventsFollow'
        <4>1. i \in DOMAIN incidents /\ IsActive(i)
          BY <2>0, <2>3 DEF TellsResolution, IsActive
        <4> QED BY <3>1, <3>2, <4>1, NewEventFits
      <3>4. EventsOfIncidents' /\ LastEventTellsStatus'
        <4>1. /\ i \in DOMAIN incidents'
              /\ incidents'[i].lifecycle = "RESOLVED"
              /\ severity = incidents'[i].severity
              /\ \A j \in DOMAIN incidents' : j # i => j \in DOMAIN incidents /\ SameStatus(j)
              /\ \A j \in DOMAIN incidents : j \in DOMAIN incidents'
          BY <2>0, <2>3, <3>1 DEF TellsResolution, OthersSame
        <4> QED BY <3>2, <4>1, LastEventAfterNotify
      <3> QED BY <3>3, <3>4 DEF OutboxInv, OutboxTellsLifecycle
    <2>4. CASE TellsOpening(Len(incidents) + 1)
      <3>1. PICK i, severity : i = Len(incidents) + 1 /\ severity = incidents'[i].severity
        OBVIOUS
      <3>2. Notify(i, "OPENED", "NONE", severity)
        BY <2>4, <3>1 DEF TellsOpening
      <3>3. OutboxOrdered' /\ EventsFollow'
        <4>1. i \notin DOMAIN incidents
          BY <2>0, <3>1
        <4> QED BY <3>2, <4>1, NewEventFits
      <3>4. EventsOfIncidents' /\ LastEventTellsStatus'
        <4>1. /\ i \in DOMAIN incidents'
              /\ incidents'[i].lifecycle # "RESOLVED"
              /\ \A j \in DOMAIN incidents' : j # i => j \in DOMAIN incidents /\ SameStatus(j)
              /\ \A j \in DOMAIN incidents : j \in DOMAIN incidents'
          BY <2>0, <2>4, <3>1 DEF TellsOpening
        <4> QED BY <3>1, <3>2, <4>1, LastEventAfterNotify
      <3> QED BY <3>3, <3>4 DEF OutboxInv, OutboxTellsLifecycle
    <2> QED BY <2>1, <2>2, <2>3, <2>4, WhatStepsTell
  <1> QED BY <1>1, <1>2, TypeCorrect, PTL DEF Spec

(* The outbox tells the life of every incident, truthfully and in order,   *)
(* for any number of signals, codes and observations.                      *)
THEOREM OutboxIsTruthful == Spec => []OutboxTellsLifecycle
  <1>1. OutboxInv => OutboxTellsLifecycle
    BY DEF OutboxInv
  <1> QED BY <1>1, OutboxInvariant, PTL

-----------------------------------------------------------------------------
(* The analysis requests.                                                  *)
LEMMA NotifyRequests ==
  ASSUME TypeOK, NEW i, NEW type, NEW from, NEW severity, Notify(i, type, from, severity)
  PROVE  /\ Len(requests) \in Nat /\ DOMAIN requests = 1 .. Len(requests)
         /\ type \in {"OPENED", "ESCALATED"} =>
              /\ DOMAIN requests' = 1 .. Len(requests) + 1
              /\ requests'[Len(requests) + 1] = Request(i, type, severity)
              /\ \A k \in 1 .. Len(requests) : requests'[k] = requests[k]
         /\ type \notin {"OPENED", "ESCALATED"} => requests' = requests
  <1>1. requests \in Seq(Requests)
    BY DEF TypeOK
  <1>2. CASE type \in {"OPENED", "ESCALATED"}
    <2>1. requests' = Append(requests, Request(i, type, severity))
      BY <1>2 DEF Notify
    <2> QED BY <1>1, <1>2, <2>1
  <1>3. CASE type \notin {"OPENED", "ESCALATED"}
    BY <1>1, <1>3 DEF Notify
  <1> QED BY <1>2, <1>3

(* _notify keeps queue and outbox in agreement. *)
LEMMA NotifyMirrors ==
  ASSUME TypeOK, RequestsMirrorOutbox, NEW i, NEW type \in {"OPENED", "ESCALATED", "RESOLVED"},
         NEW from, NEW severity, Notify(i, type, from, severity)
  PROVE  RequestsMirrorOutbox'
  <1>0. PICK n, m : n = Len(outbox) + 1 /\ m = Len(requests) + 1
    OBVIOUS
  <1>1. /\ n = Len(outbox) + 1 /\ Len(outbox) \in Nat
        /\ DOMAIN outbox = 1 .. Len(outbox) /\ DOMAIN outbox' = 1 .. n
        /\ outbox'[n].incident = i /\ outbox'[n].type = type /\ outbox'[n].to = severity
        /\ \A k \in 1 .. Len(outbox) : outbox'[k] = outbox[k]
    BY <1>0, NotifyEffect
  <1>2. CASE type = "RESOLVED"
    <2>1. requests' = requests
      BY <1>2, NotifyRequests
    <2>2. ASSUME NEW k \in DOMAIN requests
          PROVE  \E l \in 1 .. n : Asks(requests[k], outbox'[l])
      <3>1. PICK l \in 1 .. Len(outbox) : Asks(requests[k], outbox[l])
        BY <1>1 DEF RequestsMirrorOutbox
      <3>2. l \in 1 .. n /\ outbox'[l] = outbox[l]
        BY <1>1
      <3> QED BY <3>1, <3>2
    <2>3. ASSUME NEW l \in 1 .. n, outbox'[l].type # "RESOLVED"
          PROVE  \E k \in DOMAIN requests : Asks(requests[k], outbox'[l])
      <3>1. l \in 1 .. Len(outbox) /\ outbox'[l] = outbox[l]
        BY <1>1, <1>2, <2>3
      <3> QED BY <1>1, <2>3, <3>1 DEF RequestsMirrorOutbox
    <2> QED BY <1>1, <2>1, <2>2, <2>3 DEF RequestsMirrorOutbox
  <1>3. CASE type # "RESOLVED"
    <2>1. /\ m = Len(requests) + 1 /\ Len(requests) \in Nat
          /\ DOMAIN requests = 1 .. Len(requests) /\ DOMAIN requests' = 1 .. m
          /\ requests'[m] = Request(i, type, severity)
          /\ \A k \in 1 .. Len(requests) : requests'[k] = requests[k]
      BY <1>0, <1>3, NotifyRequests
    <2>2. Asks(requests'[m], outbox'[n]) /\ n \in 1 .. n /\ m \in 1 .. m
      BY <1>1, <1>3, <2>1 DEF Asks
    <2>3. ASSUME NEW k \in 1 .. m
          PROVE  \E l \in 1 .. n : Asks(requests'[k], outbox'[l])
      <3>1. CASE k = m
        BY <2>2, <3>1
      <3>2. CASE k # m
        <4>1. k \in 1 .. Len(requests) /\ requests'[k] = requests[k]
          BY <2>1, <3>2
        <4>2. PICK l \in 1 .. Len(outbox) : Asks(requests[k], outbox[l])
          BY <1>1, <2>1, <4>1 DEF RequestsMirrorOutbox
        <4>3. l \in 1 .. n /\ outbox'[l] = outbox[l]
          BY <1>1
        <4> QED BY <4>1, <4>2, <4>3
      <3> QED BY <3>1, <3>2
    <2>4. ASSUME NEW l \in 1 .. n, outbox'[l].type # "RESOLVED"
          PROVE  \E k \in 1 .. m : Asks(requests'[k], outbox'[l])
      <3>1. CASE l = n
        BY <2>2, <3>1
      <3>2. CASE l # n
        <4>1. l \in 1 .. Len(outbox) /\ outbox'[l] = outbox[l]
          BY <1>1, <3>2
        <4>2. PICK k \in 1 .. Len(requests) : Asks(requests[k], outbox[l])
          BY <1>1, <2>1, <2>4, <4>1 DEF RequestsMirrorOutbox
        <4>3. k \in 1 .. m /\ requests'[k] = requests[k]
          BY <2>1
        <4> QED BY <4>1, <4>2, <4>3
      <3> QED BY <3>1, <3>2
    <2> QED BY <1>1, <2>1, <2>3, <2>4 DEF RequestsMirrorOutbox
  <1> QED BY <1>2, <1>3

(* Every opening and escalation that is notified is also queued for        *)
(* analysis, and nothing else is.                                          *)
THEOREM RequestsMirror == Spec => []RequestsMirrorOutbox
  <1>1. Init => RequestsMirrorOutbox
    BY DEF Init, RequestsMirrorOutbox
  <1>2. TypeOK /\ RequestsMirrorOutbox /\ [Next]_vars => RequestsMirrorOutbox'
    <2> SUFFICES ASSUME TypeOK, RequestsMirrorOutbox, [Next]_vars
                 PROVE  RequestsMirrorOutbox'
      OBVIOUS
    <2>1. CASE TellsNothing
      BY <2>1 DEF TellsNothing, RequestsMirrorOutbox
    <2>2. ASSUME NEW i \in 1 .. Len(incidents), TellsEscalation(i) \/ TellsResolution(i)
          PROVE  RequestsMirrorOutbox'
      <3>1. \/ Notify(i, "ESCALATED", incidents[i].severity, incidents'[i].severity)
            \/ Notify(i, "RESOLVED", "NONE", incidents[i].severity)
        BY <2>2 DEF TellsEscalation, TellsResolution
      <3> QED BY <3>1, NotifyMirrors
    <2>3. CASE TellsOpening(Len(incidents) + 1)
      <3>1. PICK i, severity : Notify(i, "OPENED", "NONE", severity)
        BY <2>3 DEF TellsOpening
      <3> QED BY <3>1, NotifyMirrors
    <2> QED BY <2>1, <2>2, <2>3, WhatStepsTell
  <1> QED BY <1>1, <1>2, TypeCorrect, PTL DEF Spec

(* The requests of an incident rise in severity and never exceed its own:  *)
(* no request can be queued twice.                                         *)
RequestsOrdered ==
  /\ \A k \in DOMAIN requests :
       /\ requests[k].incident \in DOMAIN incidents
       /\ SeverityRank(requests[k].severity)
            <= SeverityRank(incidents[requests[k].incident].severity)
  /\ \A k, l \in DOMAIN requests :
       k < l /\ requests[k].incident = requests[l].incident
         => SeverityRank(requests[k].severity) < SeverityRank(requests[l].severity)

(* Severities compare as natural numbers. *)
LEMMA RanksAreNumbers ==
  ASSUME TypeOK
  PROVE  /\ \A i \in 1 .. Len(incidents) : SeverityRank(incidents[i].severity) \in Nat
         /\ \A k \in 1 .. Len(requests) : SeverityRank(requests[k].severity) \in Nat
  <1>1. \A i \in 1 .. Len(incidents) : incidents[i].severity \in FailureStates
    BY Indices DEF Incidents
  <1>2. \A k \in 1 .. Len(requests) : requests[k].severity \in FailureStates
    <2>1. \A k \in 1 .. Len(requests) : requests[k] \in Requests
      BY DEF TypeOK
    <2> QED BY <2>1 DEF Requests
  <1> QED BY <1>1, <1>2 DEF SeverityRank, FailureStates

(* A request that exceeds all earlier ones of its incident keeps the order. *)
LEMMA NewRequestOrdered ==
  ASSUME TypeOK, TypeOK', RequestsOrdered, NEW i \in DOMAIN incidents',
         NEW type \in {"OPENED", "ESCALATED"}, NEW from, NEW severity,
         Notify(i, type, from, severity),
         severity = incidents'[i].severity,
         i \in DOMAIN incidents => SeverityRank(severity) > SeverityRank(incidents[i].severity),
         \A j \in DOMAIN incidents : j \in DOMAIN incidents' /\ (j # i => SameStatus(j))
  PROVE  RequestsOrdered'
  <1>0. PICK m : m = Len(requests) + 1
    OBVIOUS
  <1>1. /\ m = Len(requests) + 1 /\ Len(requests) \in Nat
        /\ DOMAIN requests = 1 .. Len(requests) /\ DOMAIN requests' = 1 .. m
        /\ requests'[m].incident = i /\ requests'[m].severity = severity
        /\ \A k \in 1 .. Len(requests) : requests'[k] = requests[k]
    <2>1. /\ Len(requests) \in Nat /\ DOMAIN requests = 1 .. Len(requests)
          /\ DOMAIN requests' = 1 .. Len(requests) + 1
          /\ requests'[Len(requests) + 1] = Request(i, type, severity)
          /\ \A k \in 1 .. Len(requests) : requests'[k] = requests[k]
      BY NotifyRequests
    <2> QED BY <1>0, <2>1 DEF Request
  <1>2. /\ DOMAIN incidents = 1 .. Len(incidents) /\ DOMAIN incidents' = 1 .. Len(incidents')
        /\ \A j \in 1 .. Len(incidents) : SeverityRank(incidents[j].severity) \in Nat
        /\ \A j \in 1 .. Len(incidents') : SeverityRank(incidents'[j].severity) \in Nat
        /\ \A k \in 1 .. Len(requests) : SeverityRank(requests[k].severity) \in Nat
    <2>1. DOMAIN incidents = 1 .. Len(incidents) /\ DOMAIN incidents' = 1 .. Len(incidents')
      BY DEF TypeOK
    <2>2. \A j \in 1 .. Len(incidents') : incidents'[j].severity \in FailureStates
      <3>1. incidents' \in Seq(Incidents)
        BY DEF TypeOK
      <3>2. \A j \in 1 .. Len(incidents') : incidents'[j] \in Incidents
        BY <3>1
      <3> QED BY <3>2 DEF Incidents
    <2> QED BY <2>1, <2>2, RanksAreNumbers DEF SeverityRank, FailureStates
  <1>3. ASSUME NEW k \in 1 .. Len(requests), requests[k].incident = i
        PROVE  SeverityRank(requests[k].severity) < SeverityRank(severity)
    BY <1>1, <1>2, <1>3 DEF RequestsOrdered
  <1>4. ASSUME NEW k \in 1 .. m
        PROVE  /\ requests'[k].incident \in DOMAIN incidents'
               /\ SeverityRank(requests'[k].severity)
                    <= SeverityRank(incidents'[requests'[k].incident].severity)
    <2>1. CASE k = m
      BY <1>1, <1>2, <2>1
    <2>2. CASE k # m
      <3>1. /\ k \in 1 .. Len(requests) /\ requests'[k] = requests[k]
            /\ requests[k].incident \in DOMAIN incidents
            /\ SeverityRank(requests[k].severity)
                 <= SeverityRank(incidents[requests[k].incident].severity)
        BY <1>1, <2>2 DEF RequestsOrdered
      <3>2. CASE requests[k].incident = i
        <4>1. SeverityRank(requests[k].severity) < SeverityRank(severity)
          BY <1>3, <3>1, <3>2
        <4> QED BY <1>2, <3>1, <3>2, <4>1
      <3>3. CASE requests[k].incident # i
        BY <3>1, <3>3 DEF SameStatus
      <3> QED BY <3>2, <3>3
    <2> QED BY <2>1, <2>2
  <1>5. ASSUME NEW k \in 1 .. m, NEW l \in 1 .. m,
               k < l, requests'[k].incident = requests'[l].incident
        PROVE  SeverityRank(requests'[k].severity) < SeverityRank(requests'[l].severity)
    <2>1. k \in 1 .. Len(requests) /\ requests'[k] = requests[k]
      BY <1>1, <1>5
    <2>2. CASE l = m
      BY <1>1, <1>3, <1>5, <2>1, <2>2
    <2>3. CASE l # m
      <3>1. l \in 1 .. Len(requests) /\ requests'[l] = requests[l]
        BY <1>1, <2>3
      <3> QED BY <1>1, <1>5, <2>1, <3>1 DEF RequestsOrdered
    <2> QED BY <2>2, <2>3
  <1> QED BY <1>1, <1>4, <1>5 DEF RequestsOrdered

(* The requests of an incident come in the order of its life. *)
LEMMA RequestsInOrder == Spec => []RequestsOrdered
  <1>1. Init => RequestsOrdered
    BY DEF Init, RequestsOrdered
  <1>2. TypeOK /\ TypeOK' /\ RequestsOrdered /\ [Next]_vars => RequestsOrdered'
    <2> SUFFICES ASSUME TypeOK, TypeOK', RequestsOrdered, [Next]_vars
                 PROVE  RequestsOrdered'
      OBVIOUS
    <2>0. /\ DOMAIN incidents = 1 .. Len(incidents) /\ Len(incidents) \in Nat
          /\ DOMAIN incidents' = 1 .. Len(incidents')
      BY DEF TypeOK
    <2>1. CASE TellsNothing
      <3>1. /\ DOMAIN incidents' = DOMAIN incidents /\ requests' = requests
            /\ \A j \in DOMAIN incidents : incidents'[j].severity = incidents[j].severity
        BY <2>0, <2>1 DEF TellsNothing, SameStatus
      <3> QED BY <3>1 DEF RequestsOrdered
    <2>2. ASSUME NEW i \in 1 .. Len(incidents), TellsEscalation(i)
          PROVE  RequestsOrdered'
      <3>1. PICK from, severity :
              from = incidents[i].severity /\ severity = incidents'[i].severity
        OBVIOUS
      <3>2. /\ Notify(i, "ESCALATED", from, severity)
            /\ i \in DOMAIN incidents'
            /\ SeverityRank(severity) > SeverityRank(incidents[i].severity)
            /\ \A j \in DOMAIN incidents : j \in DOMAIN incidents' /\ (j # i => SameStatus(j))
        BY <2>0, <2>2, <3>1 DEF TellsEscalation, OthersSame
      <3> QED BY <3>1, <3>2, NewRequestOrdered
    <2>3. ASSUME NEW i \in 1 .. Len(incidents), TellsResolution(i)
          PROVE  RequestsOrdered'
      <3>1. PICK severity : severity = incidents[i].severity
        OBVIOUS
      <3>2. Notify(i, "RESOLVED", "NONE", severity)
        BY <2>3, <3>1 DEF TellsResolution
      <3>3. requests' = requests
        BY <3>2, NotifyRequests
      <3>4. /\ DOMAIN incidents' = DOMAIN incidents
            /\ \A j \in DOMAIN incidents : incidents'[j].severity = incidents[j].severity
        BY <2>0, <2>3 DEF TellsResolution, OthersSame, SameStatus
      <3> QED BY <3>3, <3>4 DEF RequestsOrdered
    <2>4. CASE TellsOpening(Len(incidents) + 1)
      <3>1. PICK i, severity : i = Len(incidents) + 1 /\ severity = incidents'[i].severity
        OBVIOUS
      <3>2. /\ Notify(i, "OPENED", "NONE", severity)
            /\ i \in DOMAIN incidents' /\ i \notin DOMAIN incidents
            /\ \A j \in DOMAIN incidents : j \in DOMAIN incidents' /\ (j # i => SameStatus(j))
        BY <2>0, <2>4, <3>1 DEF TellsOpening
      <3> QED BY <3>1, <3>2, NewRequestOrdered
    <2> QED BY <2>1, <2>2, <2>3, <2>4, WhatStepsTell
  <1> QED BY <1>1, <1>2, TypeCorrect, PTL DEF Spec

(* No deduplication key is ever used twice: of two events of an incident   *)
(* the later is no opening, the earlier no resolution, and a later         *)
(* escalation is to a higher severity; the requests rise in severity.      *)
THEOREM KeysNeverCollide == Spec => []KeysUnique
  <1>1. TypeOK /\ OutboxOrdered => \A k, l \in DOMAIN outbox : Key(outbox[k]) = Key(outbox[l]) => k = l
    <2> SUFFICES ASSUME TypeOK, OutboxOrdered
                 PROVE  \A k, l \in DOMAIN outbox : Key(outbox[k]) = Key(outbox[l]) => k = l
      OBVIOUS
    <2>1. ASSUME NEW k \in DOMAIN outbox, NEW l \in DOMAIN outbox, k < l,
                 Key(outbox[k]) = Key(outbox[l])
          PROVE  FALSE
      <3>1. /\ outbox[k].incident = outbox[l].incident
            /\ outbox[k].type = outbox[l].type
            /\ outbox[k].type = "ESCALATED" => outbox[k].to = outbox[l].to
        BY <2>1 DEF Key
      <3>2. outbox[k] \in Events /\ outbox[l] \in Events
        BY DEF TypeOK
      <3>3. outbox[l].type = "ESCALATED"
        BY <2>1, <3>1, <3>2 DEF OutboxOrdered, Events
      <3>4. SeverityRank(outbox[k].to) \in Nat
        BY <3>2 DEF Events, SeverityRank, FailureStates
      <3> QED BY <2>1, <3>1, <3>3, <3>4 DEF OutboxOrdered
    <2>2. DOMAIN outbox \subseteq Nat
      BY DEF TypeOK
    <2> QED BY <2>1, <2>2
  <1>2. TypeOK /\ RequestsOrdered => \A k, l \in DOMAIN requests : requests[k] = requests[l] => k = l
    <2> SUFFICES ASSUME TypeOK, RequestsOrdered
                 PROVE  \A k, l \in DOMAIN requests : requests[k] = requests[l] => k = l
      OBVIOUS
    <2>1. DOMAIN requests = 1 .. Len(requests) /\ Len(requests) \in Nat
      BY DEF TypeOK
    <2>2. ASSUME NEW k \in DOMAIN requests, NEW l \in DOMAIN requests, k < l,
                 requests[k] = requests[l]
          PROVE  FALSE
      BY <2>1, <2>2, RanksAreNumbers DEF RequestsOrdered
    <2> QED BY <2>1, <2>2
  <1>3. OutboxInv => OutboxOrdered
    BY DEF OutboxInv
  <1> QED BY <1>1, <1>2, <1>3, OutboxInvariant, RequestsInOrder, TypeCorrect, PTL DEF KeysUnique

-----------------------------------------------------------------------------
(* An evaluation leaves the incidents of other codes alone. *)
LEMMA OtherIncidentsStay ==
  ASSUME TypeOK, NEW s \in Signals, NEW o \in Observations,
         NEW w \in Stored(recent[s], o), Evaluate(s, o, w),
         NEW code, code # CodeOf[s], NEW i \in Active(code)
  PROVE  i \in (Active(code))' /\ incidents'[i] = incidents[i]
  <1>1. i \in 1 .. Len(incidents) /\ incidents[i].code = code /\ IsActive(i)
    BY Indices DEF Active
  <1>2. i \in DOMAIN incidents' /\ incidents'[i] = incidents[i]
    <2>1. CASE Recur(s, o, w)
      <3>1. PICK j \in Active(CodeOf[s]) :
              /\ incidents' = [incidents EXCEPT ![j] = Recurred(@, s, o)]
        BY <2>1 DEF Recur
      <3>2. j # i
        BY <1>1 DEF Active
      <3> QED BY <1>1, <3>1, <3>2 DEF TypeOK
    <2>2. CASE Resolve(s, o, w)
      <3>1. PICK j \in Active(CodeOf[s]) :
              /\ incidents' = [incidents EXCEPT ![j] = Closed(@, s, o)]
        BY <2>2 DEF Resolve
      <3>2. j # i
        BY <1>1 DEF Active
      <3> QED BY <1>1, <3>1, <3>2 DEF TypeOK
    <2>3. CASE Open(s, o, w)
      BY <1>1, <2>3 DEF Open, TypeOK
    <2>4. CASE Quiet(s, o, w)
      BY <1>1, <2>4, Indices DEF Quiet
    <2> QED BY <2>1, <2>2, <2>3, <2>4 DEF Evaluate
  <1> QED BY <1>1, <1>2 DEF Active, IsActive

(* Whatever is not healthy keeps the code's incident active, and opens one *)
(* only when there is none.                                                *)
LEMMA UnhealthyEffect ==
  ASSUME TypeOK, NEW s \in Signals, NEW o \in Observations,
         NEW w \in Stored(recent[s], o), Evaluate(s, o, w), o.state # "HEALTHY"
  PROVE  /\ Active(CodeOf[s]) # {} => Active(CodeOf[s])' # {}
         /\ OpensIncident => Active(CodeOf[s]) = {} /\ Active(CodeOf[s])' # {}
  <1> DEFINE c == CodeOf[s]
  <1>1. CASE Recur(s, o, w)
    <2>1. PICK i \in Active(c) :
            /\ Len(incidents') = Len(incidents) /\ i \in 1 .. Len(incidents)
            /\ incidents'[i] = Recurred(incidents[i], s, o)
      BY <1>1, RecurEffect
    <2>2. /\ incidents[i] \in Incidents /\ o.state \in FailureStates
          /\ incidents[i].code = c /\ incidents[i].lifecycle # "RESOLVED"
      BY <1>1, <2>1, Indices DEF Active, IsActive, Recur
    <2>3. incidents'[i].code = c /\ incidents'[i].lifecycle # "RESOLVED"
      BY <2>1, <2>2, RecurredIncident
    <2>4. DOMAIN incidents' = DOMAIN incidents
      BY <1>1 DEF Recur
    <2>5. i \in Active(c)'
      BY <2>1, <2>3, <2>4, Indices DEF Active, IsActive
    <2> QED BY <2>1, <2>5, Indices DEF OpensIncident
  <1>2. CASE Open(s, o, w)
    <2>1. /\ Len(incidents') = Len(incidents) + 1
          /\ incidents'[Len(incidents) + 1].code = c
          /\ incidents'[Len(incidents) + 1].lifecycle = "OPEN"
      BY <1>2, OpenEffect
    <2>2. incidents' = Append(incidents, Opened(s, o, w)) /\ Active(c) = {}
      BY <1>2 DEF Open, OpenDue
    <2>3. Len(incidents) + 1 \in DOMAIN incidents'
      BY <2>2 DEF TypeOK
    <2>4. Len(incidents) + 1 \in Active(c)'
      BY <2>1, <2>3 DEF Active, IsActive
    <2> QED BY <2>2, <2>4
  <1>3. ~Resolve(s, o, w)
    BY EngineAssumption DEF Resolve, Evaluated, Observations, HealthStates, FailureStates
  <1>4. CASE Quiet(s, o, w)
    <2>1. incidents' = incidents /\ Len(incidents) \in Nat
      BY <1>4, Indices DEF Quiet
    <2> QED BY <2>1 DEF OpensIncident, Active, IsActive
  <1> QED BY <1>1, <1>2, <1>3, <1>4 DEF Evaluate

(* The incident a signal opened while failing is active as long as it      *)
(* fails, when the signal is alone under its code.                         *)
OpenedStays ==
  /\ openings \in [Signals -> Nat]
  /\ \A s \in Signals :
       Alone(s) => /\ openings[s] <= 1
                   /\ openings[s] = 1 => Active(CodeOf[s]) # {}

(* One evaluation keeps that, for its own signal and for all others.       *)
LEMMA OpenedStep ==
  ASSUME TypeOK, OpenedStays, [NextStability]_<<vars, openings>>
  PROVE  OpenedStays'
  <1>1. CASE UNCHANGED <<vars, openings>>
    BY <1>1 DEF vars, OpenedStays, Active, IsActive
  <1>2. ASSUME NEW t \in Signals, NEW o \in Observations, NEW w \in Stored(recent[t], o),
               Evaluate(t, o, w),
               openings' = [openings EXCEPT ![t] =
                              IF o.state = "HEALTHY" THEN 0
                              ELSE IF OpensIncident THEN @ + 1 ELSE @]
        PROVE  OpenedStays'
    <2>1. openings' \in [Signals -> Nat]
      <3>1. openings[t] \in Nat
        BY DEF OpenedStays
      <3>2. openings' = [openings EXCEPT ![t] = 0] \/ openings' = openings
              \/ openings' = [openings EXCEPT ![t] = openings[t] + 1]
        BY <1>2 DEF OpenedStays
      <3> QED BY <3>1, <3>2 DEF OpenedStays
    <2>2. ASSUME NEW s \in Signals, Alone(s)
          PROVE  openings'[s] <= 1 /\ (openings'[s] = 1 => Active(CodeOf[s])' # {})
      <3>1. openings[s] \in Nat /\ openings[s] <= 1
        BY <2>2 DEF OpenedStays
      <3>2. openings[s] = 1 => Active(CodeOf[s]) # {}
        BY <2>2 DEF OpenedStays
      <3>3. CASE s # t
        <4>1. CodeOf[t] # CodeOf[s]
          BY <2>2, <3>3 DEF Alone
        <4>2. openings'[s] = openings[s]
          BY <1>2, <3>3 DEF OpenedStays
        <4>3. \A i \in Active(CodeOf[s]) : i \in Active(CodeOf[s])'
          BY <1>2, <4>1, OtherIncidentsStay
        <4> QED BY <3>1, <3>2, <4>2, <4>3
      <3>4. CASE s = t /\ o.state = "HEALTHY"
        <4>1. openings'[s] = 0
          BY <1>2, <3>4 DEF OpenedStays
        <4> QED BY <4>1
      <3>5. CASE s = t /\ o.state # "HEALTHY"
        <4>1. openings'[s] = IF OpensIncident THEN openings[s] + 1 ELSE openings[s]
          BY <1>2, <3>5 DEF OpenedStays
        <4>2. /\ Active(CodeOf[s]) # {} => Active(CodeOf[s])' # {}
              /\ OpensIncident => Active(CodeOf[s]) = {} /\ Active(CodeOf[s])' # {}
          BY <1>2, <3>5, UnhealthyEffect
        <4>3. CASE OpensIncident
          BY <3>1, <3>2, <4>1, <4>2, <4>3
        <4>4. CASE ~OpensIncident
          BY <3>1, <3>2, <4>1, <4>2, <4>4
        <4> QED BY <4>3, <4>4
      <3> QED BY <3>3, <3>4, <3>5
    <2>3. \A s \in Signals : Alone(s)' = Alone(s)
      BY DEF Alone
    <2> QED BY <2>1, <2>2, <2>3 DEF OpenedStays
  <1> QED BY <1>1, <1>2 DEF NextStability

(* A signal that is alone under its code does not open an incident at      *)
(* every poll: while it keeps failing, unknown observations in between or  *)
(* not and in whatever order they are stored, it has opened at most one.   *)
THEOREM OneIncidentForAFault == SpecStability => []OneIncidentPerFault
  <1>1. InitStability => Init /\ OpenedStays
    BY DEF InitStability, OpenedStays
  <1>2. [NextStability]_<<vars, openings>> => [Next]_vars
    BY DEF NextStability, Next
  <1>3. SpecStability => Spec
    BY <1>1, <1>2, PTL DEF SpecStability, Spec
  <1>4. TypeOK /\ OpenedStays /\ [NextStability]_<<vars, openings>> => OpenedStays'
    BY OpenedStep
  <1>5. OpenedStays => OneIncidentPerFault
    BY DEF OpenedStays, OneIncidentPerFault
  <1> QED BY <1>1, <1>3, <1>4, <1>5, TypeCorrect, PTL DEF SpecStability
-----------------------------------------------------------------------------
(* The abstract specification: what a step does to the incidents that live. *)

(* An active incident is the only one of its code. *)
LEMMA OnlyOneLives ==
  ASSUME TypeOK, AtMostOneActive, NEW i \in DOMAIN incidents, IsActive(i)
  PROVE  /\ incidents[i].code \in Codes
         /\ LivingOf(incidents[i].code) =
              {[incident |-> i, severity |-> incidents[i].severity]}
  <1>1. Active(incidents[i].code) = {i}
    BY DEF Active, AtMostOneActive
  <1>2. incidents[i].code \in Codes
    BY Indices DEF Incidents
  <1> QED BY <1>1, <1>2 DEF LivingOf

(* So it is after a step. *)
LEMMA OnlyOneLivesAfter ==
  ASSUME TypeOK', AtMostOneActive', NEW i \in DOMAIN incidents', IsActive(i)',
         NEW code, code = incidents'[i].code
  PROVE  /\ code \in Codes
         /\ LivingOf(code)' = {[incident |-> i, severity |-> incidents'[i].severity]}
  <1>1. Active(code)' = {i}
    BY DEF Active, AtMostOneActive
  <1>2. code \in Codes
    <2>1. incidents' \in Seq(Incidents)
      BY DEF TypeOK
    <2>2. incidents'[i] \in Incidents
      BY <2>1
    <2> QED BY <2>2 DEF Incidents
  <1> QED BY <1>1, <1>2 DEF LivingOf

(* A code whose incidents keep their status has the same one living. *)
LEMMA LivingStays ==
  ASSUME NEW code,
         \A j \in DOMAIN incidents :
           j \in DOMAIN incidents' /\ incidents'[j].code = incidents[j].code,
         \A j \in DOMAIN incidents' :
           incidents'[j].code = code => j \in DOMAIN incidents /\ SameStatus(j)
  PROVE  LivingOf(code)' = LivingOf(code)
  <1>1. Active(code)' = Active(code)
    BY DEF Active, IsActive, SameStatus
  <1>2. \A j \in Active(code) : incidents'[j].severity = incidents[j].severity
    BY DEF Active, SameStatus
  <1> QED BY <1>1, <1>2 DEF LivingOf

(* A step on the incident of one code leaves the other codes alone. *)
LEMMA LivingChanges ==
  ASSUME NEW code \in Codes, NEW S, LivingOf(code)' = S,
         \A other \in Codes : other # code => LivingOf(other)' = LivingOf(other)
  PROVE  [c \in Codes |-> LivingOf(c)]' = [[c \in Codes |-> LivingOf(c)] EXCEPT ![code] = S]
  OBVIOUS

(* Severities are ordered as the abstract specification orders them. *)
LEMMA GraverIsWorse ==
  ASSUME NEW a \in FailureStates, NEW b \in FailureStates, SeverityRank(a) > SeverityRank(b)
  PROVE  Lifecycle!Graver(a, b) /\ a \in Lifecycle!Severities
  BY DEF Lifecycle!Graver, Lifecycle!Severities, FailureStates, SeverityRank

(* What is told of an escalation is an escalation of the one that lives. *)
LEMMA EscalationLives ==
  ASSUME TypeOK, TypeOK', AtMostOneActive, AtMostOneActive', Kept,
         NEW i \in 1 .. Len(incidents), TellsEscalation(i)
  PROVE  Lifecycle!Next
  <1>0. PICK code, from, severity :
          /\ code = incidents[i].code
          /\ from = incidents[i].severity /\ severity = incidents'[i].severity
    OBVIOUS
  <1>1. /\ DOMAIN incidents = 1 .. Len(incidents) /\ DOMAIN incidents' = DOMAIN incidents
        /\ Len(incidents') = Len(incidents)
        /\ \A j \in DOMAIN incidents : incidents'[j].code = incidents[j].code
        /\ \A j \in DOMAIN incidents : j # i => SameStatus(j)
    BY DEF TellsEscalation, OthersSame, TypeOK, Kept
  <1>2. code \in Codes /\ LivingOf(code) = {[incident |-> i, severity |-> from]}
    BY <1>0, <1>1, OnlyOneLives DEF TellsEscalation, IsActive
  <1>3. LivingOf(code)' = {[incident |-> i, severity |-> severity]}
    <2>1. i \in DOMAIN incidents' /\ IsActive(i)' /\ code = incidents'[i].code
      BY <1>0, <1>1 DEF TellsEscalation, IsActive
    <2> QED BY <1>0, <2>1, OnlyOneLivesAfter
  <1>4. \A other \in Codes : other # code => LivingOf(other)' = LivingOf(other)
    BY <1>0, <1>1, LivingStays
  <1>5. [c \in Codes |-> LivingOf(c)]' =
          [[c \in Codes |-> LivingOf(c)] EXCEPT
             ![code] = {[incident |-> i, severity |-> severity]}]
    BY <1>2, <1>3, <1>4, LivingChanges
  <1>6. Lifecycle!Graver(severity, from) /\ severity \in Lifecycle!Severities
    <2>1. incidents[i].severity \in FailureStates
      BY Indices DEF Incidents
    <2> QED BY <1>0, <2>1, GraverIsWorse DEF TellsEscalation
  <1>7. Lifecycle!Tell(i, "ESCALATED", from, severity) /\ Lifecycle!Ask(i, "ESCALATED", severity)
    BY <1>0 DEF TellsEscalation, Notify, Event, Request, Lifecycle!Tell, Lifecycle!Ask
  <1>8. Lifecycle!Escalate(code)
    <2>1. PICK life : life = [incident |-> i, severity |-> from]
      OBVIOUS
    <2>2. /\ life.incident = i /\ life.severity = from
          /\ [life EXCEPT !.severity = severity] = [incident |-> i, severity |-> severity]
      BY <2>1
    <2>3. life \in [c \in Codes |-> LivingOf(c)][code]
      BY <1>2, <2>1
    <2>4. /\ Lifecycle!Graver(severity, life.severity)
          /\ Lifecycle!Tell(life.incident, "ESCALATED", life.severity, severity)
          /\ Lifecycle!Ask(life.incident, "ESCALATED", severity)
          /\ [c \in Codes |-> LivingOf(c)]' =
               [[c \in Codes |-> LivingOf(c)] EXCEPT
                  ![code] = {[life EXCEPT !.severity = severity]}]
      BY <1>5, <1>6, <1>7, <2>2
    <2> QED BY <1>1, <1>6, <2>3, <2>4, Zenon DEF Lifecycle!Escalate
  <1> QED BY <1>2, <1>8 DEF Lifecycle!Next

(* What is told of a resolution is the resolution of the one that lives. *)
LEMMA ResolutionLives ==
  ASSUME TypeOK, TypeOK', AtMostOneActive, AtMostOneActive', Kept,
         NEW i \in 1 .. Len(incidents), TellsResolution(i)
  PROVE  Lifecycle!Next
  <1>0. PICK code, life :
          /\ code = incidents[i].code
          /\ life = [incident |-> i, severity |-> incidents[i].severity]
    OBVIOUS
  <1>1. /\ DOMAIN incidents = 1 .. Len(incidents) /\ DOMAIN incidents' = DOMAIN incidents
        /\ Len(incidents') = Len(incidents)
        /\ \A j \in DOMAIN incidents : incidents'[j].code = incidents[j].code
        /\ \A j \in DOMAIN incidents : j # i => SameStatus(j)
    BY DEF TellsResolution, OthersSame, TypeOK, Kept
  <1>2. /\ code \in Codes /\ LivingOf(code) = {life} /\ Active(code) = {i}
    <2>1. i \in DOMAIN incidents /\ IsActive(i)
      BY <1>1 DEF TellsResolution, IsActive
    <2> QED BY <1>0, <2>1, OnlyOneLives DEF Active, AtMostOneActive
  <1>3. LivingOf(code)' = {}
    <2>1. \A j \in DOMAIN incidents' : incidents'[j].code = code => ~IsActive(j)'
      BY <1>0, <1>1, <1>2 DEF Active, IsActive, SameStatus, TellsResolution
    <2>2. Active(code)' = {}
      BY <2>1 DEF Active
    <2> QED BY <2>2 DEF LivingOf
  <1>4. \A other \in Codes : other # code => LivingOf(other)' = LivingOf(other)
    BY <1>0, <1>1, LivingStays
  <1>5. [c \in Codes |-> LivingOf(c)]' = [[c \in Codes |-> LivingOf(c)] EXCEPT ![code] = {}]
    BY <1>2, <1>3, <1>4, LivingChanges
  <1>6. /\ Lifecycle!Tell(i, "RESOLVED", "NONE", life.severity) /\ requests' = requests
    BY <1>0 DEF TellsResolution, Notify, Event, Lifecycle!Tell
  <1>7. Lifecycle!Resolve(code)
    BY <1>0, <1>1, <1>2, <1>5, <1>6 DEF Lifecycle!Resolve
  <1> QED BY <1>2, <1>7 DEF Lifecycle!Next

(* What is told of an opening is that of a code for which none lived. *)
LEMMA OpeningLives ==
  ASSUME TypeOK, TypeOK', AtMostOneActive', Kept, TellsOpening(Len(incidents) + 1)
  PROVE  Lifecycle!Next
  <1>1. PICK n, code, severity :
          n = Len(incidents) + 1 /\ code = incidents'[n].code /\ severity = incidents'[n].severity
    OBVIOUS
  <1>2. /\ DOMAIN incidents = 1 .. Len(incidents) /\ Len(incidents) \in Nat
        /\ n = Len(incidents) + 1
        /\ DOMAIN incidents' = 1 .. n /\ Len(incidents') = n
        /\ \A j \in DOMAIN incidents : incidents'[j].code = incidents[j].code
        /\ \A j \in DOMAIN incidents : SameStatus(j)
        /\ incidents'[n].lifecycle # "RESOLVED" /\ severity \in FailureStates
    <2>1. /\ DOMAIN incidents = 1 .. Len(incidents) /\ Len(incidents) \in Nat
          /\ DOMAIN incidents' = 1 .. Len(incidents')
      BY DEF TypeOK
    <2> QED BY <1>1, <2>1 DEF TellsOpening, Kept
  <1>3. n \in DOMAIN incidents' /\ IsActive(n)'
    BY <1>2 DEF IsActive
  <1>4. /\ code \in Codes /\ LivingOf(code)' = {[incident |-> n, severity |-> severity]}
    BY <1>1, <1>3, OnlyOneLivesAfter
  <1>5. LivingOf(code) = {}
    <2>1. \A j \in DOMAIN incidents : incidents[j].code = code => ~IsActive(j)
      BY <1>1, <1>2, <1>3 DEF AtMostOneActive, IsActive, SameStatus
    <2>2. Active(code) = {}
      BY <2>1 DEF Active
    <2> QED BY <2>2 DEF LivingOf
  <1>6. \A other \in Codes : other # code => LivingOf(other)' = LivingOf(other)
    <2>1. \A j \in DOMAIN incidents' : incidents'[j].code # code => j \in DOMAIN incidents
      BY <1>1, <1>2
    <2>2. DOMAIN incidents \subseteq DOMAIN incidents'
      BY <1>2
    <2> QED BY <1>2, <2>1, <2>2, LivingStays
  <1>7. [c \in Codes |-> LivingOf(c)]' =
          [[c \in Codes |-> LivingOf(c)] EXCEPT
             ![code] = {[incident |-> n, severity |-> severity]}]
    BY <1>4, <1>6, LivingChanges
  <1>8. Lifecycle!Tell(n, "OPENED", "NONE", severity) /\ Lifecycle!Ask(n, "OPENED", severity)
    BY <1>1 DEF TellsOpening, Notify, Event, Request, Lifecycle!Tell, Lifecycle!Ask
  <1>9. Lifecycle!Open(code, severity)
    BY <1>1, <1>2, <1>4, <1>5, <1>7, <1>8 DEF Lifecycle!Open
  <1> QED BY <1>2, <1>4, <1>9 DEF Lifecycle!Next, Lifecycle!Severities, FailureStates

(* A step that tells nothing leaves the living as they are. *)
LEMMA SilenceLives ==
  ASSUME TypeOK, TypeOK', Kept, TellsNothing
  PROVE  UNCHANGED Lifecycle!vars
  <1>1. /\ Len(incidents') = Len(incidents) /\ DOMAIN incidents' = DOMAIN incidents
        /\ \A j \in DOMAIN incidents : incidents'[j].code = incidents[j].code /\ SameStatus(j)
    BY DEF TellsNothing, TypeOK, Kept
  <1>2. \A code \in Codes : LivingOf(code)' = LivingOf(code)
    BY <1>1, LivingStays
  <1>3. [c \in Codes |-> LivingOf(c)]' = [c \in Codes |-> LivingOf(c)]
    BY <1>2
  <1> QED BY <1>1, <1>3 DEF TellsNothing, Lifecycle!vars

(* The policy of incidents implements IncidentLifecycle: for every code at  *)
(* most one incident lives, every opening, escalation and resolution is     *)
(* told once and in its turn, and the first two ask for one analysis.       *)
THEOREM LifecycleImplemented == Spec => ImplementsLifecycle
  <1>1. Init => Lifecycle!Init
    <2> SUFFICES ASSUME Init PROVE Lifecycle!Init
      OBVIOUS
    <2>1. incidents = <<>> /\ outbox = <<>> /\ requests = <<>>
      BY DEF Init
    <2>2. \A code : LivingOf(code) = {}
      BY <2>1 DEF LivingOf, Active
    <2> QED BY <2>1, <2>2 DEF Lifecycle!Init
  <1>2. TypeOK /\ TypeOK' /\ AtMostOneActive /\ AtMostOneActive' /\ [Next]_vars
          => [Lifecycle!Next]_(Lifecycle!vars)
    <2> SUFFICES ASSUME TypeOK, TypeOK', AtMostOneActive, AtMostOneActive', [Next]_vars
                 PROVE  Lifecycle!Next \/ UNCHANGED Lifecycle!vars
      OBVIOUS
    <2>1. CASE UNCHANGED vars
      <3>1. \A code : LivingOf(code)' = LivingOf(code)
        BY <2>1 DEF vars, LivingOf, Active, IsActive
      <3> QED BY <2>1, <3>1 DEF vars, Lifecycle!vars
    <2>2. CASE Next
      <3>1. Kept
        BY <2>2, StepKeeps
      <3> QED BY <3>1, WhatStepsTell, EscalationLives, ResolutionLives, OpeningLives,
                 SilenceLives
    <2> QED BY <2>1, <2>2
  <1> QED BY <1>1, <1>2, TypeCorrect, OneActive, PTL DEF Spec, ImplementsLifecycle, Lifecycle!Spec
=============================================================================
