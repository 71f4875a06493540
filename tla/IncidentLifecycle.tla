------------------------- MODULE IncidentLifecycle -------------------------
(***************************************************************************)
(* What the backend promises of incidents.  For every code at most one     *)
(* lives; it is opened, gets worse and is resolved; each of these is told  *)
(* once, when it happens, and nothing else is; an opening or an escalation *)
(* asks for an analysis.                                                   *)
(***************************************************************************)
EXTENDS Naturals, Sequences

CONSTANT Codes

VARIABLES
  opened,   \* how many incidents were opened: they are numbered from one
  living,   \* per code, the incident that is not resolved, if there is one
  told,     \* what was notified, in that order
  asked     \* the analyses asked for, in that order

vars == <<opened, living, told, asked>>

Severities == {"DEGRADED", "WARNING", "CRITICAL"}
Graver(a, b) == \/ b = "DEGRADED" /\ a \in {"WARNING", "CRITICAL"}
                \/ b = "WARNING" /\ a = "CRITICAL"

Tell(i, type, from, to) ==
  told' = Append(told, [incident |-> i, type |-> type, from |-> from, to |-> to])
Ask(i, trigger, severity) ==
  asked' = Append(asked, [incident |-> i, trigger |-> trigger, severity |-> severity])

Init ==
  /\ opened = 0
  /\ living = [code \in Codes |-> {}]
  /\ told = <<>> /\ asked = <<>>

Open(code, severity) ==
  /\ opened' = opened + 1
  /\ living[code] = {}
  /\ living' = [living EXCEPT ![code] = {[incident |-> opened', severity |-> severity]}]
  /\ Tell(opened', "OPENED", "NONE", severity)
  /\ Ask(opened', "OPENED", severity)

Escalate(code) ==
  /\ UNCHANGED opened
  /\ \E life \in living[code], severity \in Severities :
       /\ Graver(severity, life.severity)
       /\ Tell(life.incident, "ESCALATED", life.severity, severity)
       /\ Ask(life.incident, "ESCALATED", severity)
       /\ living' = [living EXCEPT ![code] = {[life EXCEPT !.severity = severity]}]

Resolve(code) ==
  /\ UNCHANGED <<opened, asked>>
  /\ \E life \in living[code] :
       /\ Tell(life.incident, "RESOLVED", "NONE", life.severity)
       /\ living' = [living EXCEPT ![code] = {}]

Next ==
  \E code \in Codes :
    \/ \E severity \in Severities : Open(code, severity)
    \/ Escalate(code)
    \/ Resolve(code)

Spec == Init /\ [][Next]_vars
=============================================================================
