----------------------------- MODULE HealthView -----------------------------
(***************************************************************************)
(* backend/app/health_semantics.py: how the rows an operator is shown are  *)
(* summed up in one state per service, per component and overall.          *)
(***************************************************************************)
EXTENDS Naturals

STATE_ORDER == [HEALTHY |-> 0, DEGRADED |-> 1, WARNING |-> 2, UNKNOWN |-> 3,
                CRITICAL |-> 4]
States == DOMAIN STATE_ORDER

AtLeast(state, other) == STATE_ORDER[state] >= STATE_ORDER[other]

worst_state(states) ==
  IF states = {} THEN "UNKNOWN"
  ELSE CHOOSE s \in states : \A t \in states : AtLeast(s, t)

(* A row: component, service ("" for none), running (it is service.running), *)
(* state as it was stored, optional (an UNKNOWN that is not counted), stale.  *)
(* A fault for the runs to find: the age of a row is not looked at. *)
StateAsStored(row) == row.state

_effective_state(row) == IF row.stale THEN "UNKNOWN" ELSE row.state

Counted(rows) == {_effective_state(row) : row \in {r \in rows : ~r.optional}}

(* Without its row of service.running a service is not known to run. *)
service_state(rows) ==
  LET running == {row \in rows : row.running}
  IN  worst_state((IF running = {} THEN {"UNKNOWN"}
                   ELSE {_effective_state(row) : row \in running})
                  \cup Counted(rows \ running))

component_state(rows, name) ==
  LET mine     == {row \in rows : row.component = name}
      services == {row.service : row \in mine} \ {""}
  IN  worst_state(Counted({row \in mine : row.service = ""})
                  \cup {service_state({row \in mine : row.service = key}) : key \in services})

(* A fault for the runs to find: a component without a row is left out. *)
OverallOfPresent(rows, components) ==
  worst_state({component_state(rows, name) :
                 name \in components \cap {row.component : row \in rows}})

(* A component without a row that counts is UNKNOWN. *)
aggregate_health(rows, components) ==
  worst_state({component_state(rows, name) : name \in components})

==============================================================================
