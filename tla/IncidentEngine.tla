--------------------------- MODULE IncidentEngine ---------------------------
(***************************************************************************)
(* The incident policy of the backend: what one stored observation does to *)
(* the incidents, to the notification outbox and to the queue of analysis  *)
(* requests (monitoring.evaluate, monitoring._notify, monitoring._recent). *)
(* Snapshot ingestion and self-monitoring both call evaluate inside their  *)
(* transaction, once per observation and one after the other, so here one  *)
(* observation is one step.  All signals belong to one target of one       *)
(* environment: a fingerprint is then an incident code.                    *)
(***************************************************************************)
EXTENDS Integers, Sequences

CONSTANTS
  Signals,          \* the signals observed on the target
  Codes,            \* the incident codes
  NoCode,           \* what incident_code returns for a signal that has none
  CodeOf,           \* incident_code: the code a signal reports under
  InputStates,      \* the health states classify may give an observation
  Times,            \* the observation times
  NotResolved,      \* resolved_at of an incident that was never resolved
  MaxObservations   \* bound: how many observations are evaluated

HealthStates == {"HEALTHY", "DEGRADED", "WARNING", "CRITICAL", "UNKNOWN"}
FailureStates == {"DEGRADED", "WARNING", "CRITICAL"}

ASSUME EngineAssumption ==
  /\ Times \subseteq Nat
  /\ InputStates \subseteq HealthStates
  /\ NoCode \notin Codes
  /\ CodeOf \in [Signals -> Codes \cup {NoCode}]
  /\ NotResolved \notin Nat
  /\ MaxObservations \in Nat

VARIABLES
  recent,      \* per signal, its two newest observations, newest first
  incidents,   \* every incident ever opened, in order of creation
  outbox,      \* the notification events, in order of creation
  requests,    \* the analysis requests, in order of creation
  observed     \* how many observations were evaluated (for the bound)

vars == <<recent, incidents, outbox, requests, observed>>

-----------------------------------------------------------------------------
(* An absent observation is older than every real one. *)
Nothing == [at |-> -1, state |-> "NONE"]

Observations == [at : Times, state : InputStates]
Windows == (Observations \cup {Nothing}) \X (Observations \cup {Nothing})

(* The windows that can result when o is stored.  The query orders by      *)
(* observed_at and then by a random id, so an equal time falls either way. *)
Stored(w, o) ==
  {v \in {<<o, w[1]>>} : o.at >= w[1].at}
    \cup {v \in {<<w[1], o>>} : w[1].at >= o.at /\ o.at >= w[2].at}
    \cup {v \in {w} : w[2].at >= o.at}

(* A fault for the runs to find: one observation is enough. *)
BothNewestOnly(w, S) == w[1].state \in S

Both(w, S) == w[1].state \in S /\ w[2].state \in S

(* The position of a failure state in the severity order; 0 for the rest. *)
SeverityRank(state) ==
  CASE state = "DEGRADED" -> 1
    [] state = "WARNING"  -> 2
    [] state = "CRITICAL" -> 3
    [] OTHER              -> 0

IsActive(i) == incidents[i].lifecycle # "RESOLVED"

(* The incidents of a code that are not resolved. *)
Active(code) == {i \in DOMAIN incidents : incidents[i].code = code /\ IsActive(i)}

Earlier(a, b) == IF a <= b THEN a ELSE b

Event(i, type, from, to) == [incident |-> i, type |-> type, from |-> from, to |-> to]
Request(i, trigger, severity) ==
  [incident |-> i, trigger |-> trigger, severity |-> severity]

(* An opening or an escalation is also queued for analysis; a resolution   *)
(* is only notified.                                                       *)
Notify(i, type, from, severity) ==
  /\ outbox' = Append(outbox, Event(i, type, from, severity))
  /\ requests' = IF type \in {"OPENED", "ESCALATED"}
                 THEN Append(requests, Request(i, type, severity))
                 ELSE requests

-----------------------------------------------------------------------------
Init ==
  /\ recent = [s \in Signals |-> <<Nothing, Nothing>>]
  /\ incidents = <<>>
  /\ outbox = <<>>
  /\ requests = <<>>
  /\ observed = 0

(* What every branch of evaluate shares: the observation is in the window  *)
(* by the time the policy reads it.                                        *)
Store(s, o, w) ==
  /\ observed < MaxObservations
  /\ observed' = observed + 1
  /\ w \in Stored(recent[s], o)
  /\ recent' = [recent EXCEPT ![s] = w]

Evaluated(s, o) == CodeOf[s] # NoCode /\ o.state # "UNKNOWN"

(* A fault for the runs to find: an equal severity escalates. *)
WorseOrEqual(o, severity) == SeverityRank(o.state) >= SeverityRank(severity)

Worse(o, severity) == SeverityRank(o.state) > SeverityRank(severity)

(* The incident a second failure in a row opens, the window holding both.  *)
Opened(s, o, w) ==
  [code      |-> CodeOf[s],
   severity  |-> o.state,
   lifecycle |-> "OPEN",
   first     |-> Earlier(w[1].at, w[2].at),
   last      |-> o.at,
   resolved  |-> NotResolved,
   count     |-> 2,
   latest    |-> s]

(* Two faults for the runs to find: the severity stays what it was at the  *)
(* opening, or it follows the newest observation down as well.             *)
RecurredSeverityKept(incident, s, o) ==
  [incident EXCEPT !.last = o.at, !.count = @ + 1, !.latest = s]

RecurredSeverityFollows(incident, s, o) ==
  [incident EXCEPT !.last = o.at, !.severity = o.state, !.count = @ + 1, !.latest = s]

(* An active incident after one more failing observation. *)
Recurred(incident, s, o) ==
  [incident EXCEPT
     !.last     = o.at,
     !.severity = IF Worse(o, @) THEN o.state ELSE @,
     !.count    = @ + 1,
     !.latest   = s]

(* An active incident after its second healthy observation in a row. *)
Closed(incident, s, o) ==
  [incident EXCEPT !.lifecycle = "RESOLVED", !.resolved = o.at, !.latest = s]

(* A failing observation of a code that has an active incident.            *)
Recur(s, o, w) ==
  /\ Store(s, o, w)
  /\ Evaluated(s, o)
  /\ o.state \in FailureStates
  /\ \E i \in Active(CodeOf[s]) :
       /\ incidents' = [incidents EXCEPT ![i] = Recurred(@, s, o)]
       /\ IF Worse(o, incidents[i].severity)
          THEN Notify(i, "ESCALATED", incidents[i].severity, o.state)
          ELSE UNCHANGED <<outbox, requests>>

(* Three faults for the runs to find: the active incident is not looked    *)
(* up; the given observation is judged alone; the two failures must be of  *)
(* the same kind.                                                          *)
OpenDueWithoutLookup(s, o, w) == o.state \in FailureStates /\ Both(w, FailureStates)
OpenDueAtOnce(s, o, w) == o.state \in FailureStates /\ Active(CodeOf[s]) = {}
OpenDueOnSameState(s, o, w) ==
  o.state \in FailureStates /\ Active(CodeOf[s]) = {} /\ Both(w, {o.state})

(* The second failure in a row of a code without an active incident. *)
OpenDue(s, o, w) ==
  /\ o.state \in FailureStates
  /\ Active(CodeOf[s]) = {}
  /\ Both(w, FailureStates)

(* A failing observation without an active incident: the second failure in *)
(* a row opens one.                                                        *)
Open(s, o, w) ==
  /\ Store(s, o, w)
  /\ Evaluated(s, o)
  /\ OpenDue(s, o, w)
  /\ incidents' = Append(incidents, Opened(s, o, w))
  /\ Notify(Len(incidents) + 1, "OPENED", "NONE", o.state)

(* A fault for the runs to find: anything but a failure resolves, silence  *)
(* included.                                                               *)
ResolveOnSilence(s, o, w) ==
  /\ Store(s, o, w)
  /\ CodeOf[s] # NoCode
  /\ o.state \notin FailureStates
  /\ \E i \in Active(CodeOf[s]) :
       /\ incidents' = [incidents EXCEPT ![i] = Closed(@, s, o)]
       /\ Notify(i, "RESOLVED", "NONE", incidents[i].severity)

(* The second healthy observation in a row resolves the active incident.   *)
Resolve(s, o, w) ==
  /\ Store(s, o, w)
  /\ Evaluated(s, o)
  /\ o.state \notin FailureStates
  /\ Both(w, {"HEALTHY"})
  /\ \E i \in Active(CodeOf[s]) :
       /\ incidents' = [incidents EXCEPT ![i] = Closed(@, s, o)]
       /\ Notify(i, "RESOLVED", "NONE", incidents[i].severity)

(* The observation is stored and the policy leaves everything as it is:    *)
(* unknown or not an incident signal, a first failure, a first recovery,   *)
(* or a recovery with nothing open.                                        *)
Quiet(s, o, w) ==
  /\ Store(s, o, w)
  /\ \/ ~Evaluated(s, o)
     \/ o.state \in FailureStates /\ Active(CodeOf[s]) = {} /\ ~OpenDue(s, o, w)
     \/ o.state \notin FailureStates /\ (Active(CodeOf[s]) = {} \/ ~Both(w, {"HEALTHY"}))
  /\ UNCHANGED <<incidents, outbox, requests>>

Evaluate(s, o, w) ==
  \/ Recur(s, o, w)
  \/ Open(s, o, w)
  \/ Resolve(s, o, w)
  \/ Quiet(s, o, w)

Next ==
  \E s \in Signals, o \in Observations :
    \E w \in Stored(recent[s], o) : Evaluate(s, o, w)

Spec == Init /\ [][Next]_vars
-----------------------------------------------------------------------------
(* The type invariant: what the tables hold. *)
Incidents ==
  [code : Codes, severity : FailureStates, lifecycle : {"OPEN", "RESOLVED"},
   first : Times, last : Times, resolved : Times \cup {NotResolved},
   count : Nat, latest : Signals]

Events ==
  [incident : Nat, type : {"OPENED", "ESCALATED", "RESOLVED"},
   from : FailureStates \cup {"NONE"}, to : FailureStates]

Requests == [incident : Nat, trigger : {"OPENED", "ESCALATED"}, severity : FailureStates]

TypeOK ==
  /\ recent \in [Signals -> Windows]
  /\ incidents \in Seq(Incidents)
  /\ outbox \in Seq(Events)
  /\ requests \in Seq(Requests)
  /\ observed \in Nat

(* At most one incident of a fingerprint is not resolved, so the partial   *)
(* unique index uq_active_incident_fingerprint never refuses an insert     *)
(* when evaluations run one after the other.                               *)
AtMostOneActive ==
  \A i, j \in DOMAIN incidents :
    IsActive(i) /\ IsActive(j) /\ incidents[i].code = incidents[j].code => i = j

(* An active incident always has a cause: some signal of its code whose    *)
(* two newest observations are not both healthy, whatever order the        *)
(* observations were stored in.  No incident is left open after everything *)
(* that could have opened it has recovered.                                *)
ActiveHasCause ==
  \A i \in DOMAIN incidents :
    IsActive(i) =>
      \E s \in Signals : CodeOf[s] = incidents[i].code /\ ~Both(recent[s], {"HEALTHY"})

(* The deduplication key of an event: one per incident and type, and one   *)
(* per severity for escalations.                                           *)
Key(e) == <<e.incident, e.type, IF e.type = "ESCALATED" THEN e.to ELSE "once">>

(* The unique deduplication keys never refuse an event or a request, which *)
(* would roll the whole snapshot back.                                     *)
KeysUnique ==
  /\ \A k, l \in DOMAIN outbox : Key(outbox[k]) = Key(outbox[l]) => k = l
  /\ \A k, l \in DOMAIN requests : requests[k] = requests[l] => k = l

(* Every event is about an incident. *)
EventsOfIncidents == \A k \in DOMAIN outbox : outbox[k].incident \in DOMAIN incidents

(* The last event of an incident tells its severity and whether it is      *)
(* resolved.                                                               *)
LastEventTellsStatus ==
  \A i \in DOMAIN incidents :
    \E k \in DOMAIN outbox :
      /\ outbox[k].incident = i
      /\ \A l \in DOMAIN outbox : outbox[l].incident = i => l <= k
      /\ outbox[k].to = incidents[i].severity
      /\ outbox[k].type = "RESOLVED" <=> ~IsActive(i)

(* Event l comes just before event k among those of its incident. *)
JustBefore(l, k) ==
  /\ l < k
  /\ outbox[l].incident = outbox[k].incident
  /\ \A m \in DOMAIN outbox : l < m /\ m < k => outbox[m].incident # outbox[k].incident

(* An opening is the first event of its incident.  An escalation rises     *)
(* from the severity told just before, a resolution repeats it, and both   *)
(* follow an opening or an escalation.                                     *)
EventsFollow ==
  \A k \in DOMAIN outbox :
    \/ /\ outbox[k].type = "OPENED"
       /\ \A l \in DOMAIN outbox : l < k => outbox[l].incident # outbox[k].incident
    \/ /\ outbox[k].type # "OPENED"
       /\ \E l \in DOMAIN outbox :
            /\ JustBefore(l, k)
            /\ outbox[l].type # "RESOLVED"
            /\ \/ outbox[k].type = "RESOLVED" /\ outbox[k].to = outbox[l].to
               \/ /\ outbox[k].type = "ESCALATED"
                  /\ outbox[k].from = outbox[l].to
                  /\ SeverityRank(outbox[k].to) > SeverityRank(outbox[k].from)

(* The outbox tells the life of every incident, so a reader of the mails   *)
(* alone knows what happened: opening first, rising escalations, at most   *)
(* one resolution and nothing after it, and the last word is the truth.    *)
OutboxTellsLifecycle ==
  /\ EventsOfIncidents
  /\ LastEventTellsStatus
  /\ EventsFollow

(* Every opening and every escalation is queued for analysis, with the     *)
(* severity it was notified with, and nothing else is.                     *)
Asks(request, event) ==
  /\ event.type # "RESOLVED"
  /\ request = Request(event.incident, event.type, event.to)

RequestsMirrorOutbox ==
  /\ \A k \in DOMAIN requests : \E l \in DOMAIN outbox : Asks(requests[k], outbox[l])
  /\ \A l \in DOMAIN outbox :
       outbox[l].type # "RESOLVED" => \E k \in DOMAIN requests : Asks(requests[k], outbox[l])

(* History is kept: a resolved incident never changes again, and while one *)
(* is active its severity never drops, its count never falls and what it   *)
(* was opened for stays.                                                   *)
HistoryKept ==
  [][\A i \in DOMAIN incidents :
       /\ i \in DOMAIN incidents'
       /\ ~IsActive(i) => incidents'[i] = incidents[i]
       /\ SeverityRank(incidents'[i].severity) >= SeverityRank(incidents[i].severity)
       /\ incidents'[i].count >= incidents[i].count
       /\ incidents'[i].code = incidents[i].code
       /\ incidents'[i].first = incidents[i].first]_vars

(* A signal that shares its code with no other. *)
Alone(s) == \A t \in Signals : CodeOf[t] = CodeOf[s] => t = s

(* The two-failure policy as a state: a signal whose two newest            *)
(* observations both fail has an active incident of its code, when it is   *)
(* alone under it.  Another signal of the code could have resolved it.     *)
FailingHasIncident ==
  \A s \in Signals :
    Alone(s) /\ CodeOf[s] # NoCode /\ Both(recent[s], FailureStates)
      => Active(CodeOf[s]) # {}

(* The incident of a code that lives, as IncidentLifecycle sees it. *)
LivingOf(code) ==
  {[incident |-> i, severity |-> incidents[i].severity] : i \in Active(code)}

Lifecycle == INSTANCE IncidentLifecycle WITH
  opened <- Len(incidents),
  living <- [code \in Codes |-> LivingOf(code)],
  told <- outbox,
  asked <- requests

(* The policy implements IncidentLifecycle: whatever is observed, and in   *)
(* whatever order, an incident lives as it promises, and the outbox and    *)
(* the queue of analyses follow it step by step.                           *)
ImplementsLifecycle == Lifecycle!Spec
=============================================================================
