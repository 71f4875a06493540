------------------------- MODULE IncidentStability -------------------------
(***************************************************************************)
(* What docs/INCIDENT-MODEL.md promises of the incident policy beyond one  *)
(* evaluation: that a fault keeps its incident.  A history variable counts *)
(* the incidents each signal has opened since it was last healthy.         *)
(***************************************************************************)
EXTENDS IncidentEngine

VARIABLE openings        \* per signal, incidents it opened while failing

OpensIncident == Len(incidents') > Len(incidents)

InitStability == Init /\ openings = [s \in Signals |-> 0]

(* Nothing more is observed at the bound, so that is asked first. *)
NextStability ==
  /\ observed < MaxObservations
  /\ \E s \in Signals, o \in Observations :
       \E w \in Stored(recent[s], o) :
         /\ Evaluate(s, o, w)
         /\ openings' =
              [openings EXCEPT ![s] =
                 IF o.state = "HEALTHY" THEN 0 ELSE IF OpensIncident THEN @ + 1 ELSE @]

SpecStability == InitStability /\ [][NextStability]_<<vars, openings>>

(* "Dezelfde storing mag niet iedere poll een nieuw incident maken": a     *)
(* signal that keeps failing does not open a second incident, when it is   *)
(* alone under its code.  Otherwise two healthy observations of another    *)
(* signal of the code resolve the incident, and its next failure opens a   *)
(* new one.                                                                *)
OneIncidentPerFault == \A s \in Signals : Alone(s) => openings[s] <= 1
=============================================================================
