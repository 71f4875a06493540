---------------------------- MODULE OperatorView ----------------------------
(***************************************************************************)
(* main.snapshot, what an operator sees of an environment: of its newest   *)
(* ViewLimit rows, whatever source they are of, the newest of every        *)
(* signal, UNKNOWN when it is too old.  The sources measure every minute   *)
(* and at each start, so any number of times in a minute, and deliver what *)
(* they measured in order, at once or later.                               *)
(***************************************************************************)
EXTENDS HealthView, FiniteSets, SequencesExt

CONSTANTS
  Layout,        \* per source the rows of a snapshot, in the order measured;
                 \* signal stands for the target as well
  OVERALL_COMPONENTS,
  ViewLimit,     \* how many of the newest rows are read
  FreshLimit,    \* minutes a row counts
  MaxMinutes,    \* bound: the last minute
  MaxSnapshots   \* bound: how many snapshots there are

Sources == DOMAIN Layout
Values == States \cup {"none"}
Signals == [signal : STRING, component : STRING, service : STRING, running : BOOLEAN,
            values : SUBSET Values]

ASSUME ViewAssumption ==
  /\ IsFiniteSet(Sources)
  /\ \A source \in Sources : Layout[source] \in Seq(Signals)
  /\ ViewLimit \in Nat \ {0}
  /\ FreshLimit \in Nat /\ MaxMinutes \in Nat /\ MaxSnapshots \in Nat

VARIABLES
  now,           \* minutes passed
  log            \* the snapshots in the order they were measured

vars == <<now, log>>

Init == now = 0 /\ log = <<>>

(* run_once, which main calls at once and then every minute. *)
Measure(source) ==
  /\ Len(log) < MaxSnapshots
  /\ \E values \in [DOMAIN Layout[source] -> Values] :
       /\ \A i \in DOMAIN values : values[i] \in Layout[source][i].values
       /\ log' = Append(log, [source |-> source, at |-> now, values |-> values,
                              arrived |-> FALSE])
  /\ UNCHANGED now

(* The oldest snapshot of the buffer is sent first. *)
Waiting(source) == {i \in DOMAIN log : log[i].source = source /\ ~log[i].arrived}
FirstOf(source) == {i \in Waiting(source) : \A j \in Waiting(source) : i <= j}

Deliver(source) ==
  /\ \E i \in FirstOf(source) : log' = [log EXCEPT ![i].arrived = TRUE]
  /\ UNCHANGED now

(* A snapshot that is refused for good. *)
Refuse(source) ==
  /\ \E i \in FirstOf(source) : log' = RemoveAt(log, i)
  /\ UNCHANGED now

Tick ==
  /\ now < MaxMinutes
  /\ now' = now + 1
  /\ UNCHANGED log

Next == Tick \/ \E source \in Sources : Measure(source) \/ Deliver(source) \/ Refuse(source)

Spec == Init /\ [][Next]_vars

------------------------------------------------------------------------------
(* <<i, j>> is the j-th row of the i-th snapshot. *)

Stored == UNION {{i} \X DOMAIN log[i].values : i \in {k \in DOMAIN log : log[k].arrived}}

SignalOf(p) == Layout[log[p[1]].source][p[2]]
Value(p) == log[p[1]].values[p[2]]

Newer(p, q) == p[1] > q[1] \/ (p[1] = q[1] /\ p[2] > q[2])
SameSignal(p, q) == SignalOf(p).signal = SignalOf(q).signal

Stale(p) == now - log[p[1]].at > FreshLimit

(* _optional_unknown looks at the state as it was stored. *)
Row(p) ==
  [signal |-> SignalOf(p).signal, component |-> SignalOf(p).component,
   service |-> SignalOf(p).service, running |-> SignalOf(p).running,
   state |-> IF Value(p) = "none" THEN "UNKNOWN" ELSE Value(p),
   optional |-> Value(p) = "none", stale |-> Stale(p)]

Limited(rows) == {p \in rows : Cardinality({q \in rows : Newer(q, p)}) < ViewLimit}

(* A fault for the runs to find: a later row replaces an earlier one. *)
LatestOverwritten(rows) == {p \in rows : ~\E q \in rows : Newer(p, q) /\ SameSignal(p, q)}
Latest(rows) == {p \in rows : ~\E q \in rows : Newer(q, p) /\ SameSignal(p, q)}

Shown == {Row(p) : p \in Latest(Limited(Stored))}
overall_state == aggregate_health(Shown, OVERALL_COMPONENTS)

------------------------------------------------------------------------------

(* "UNKNOWN wordt nooit stil als HEALTHY behandeld": the environment is     *)
(* shown HEALTHY only when of every component something was measured        *)
(* HEALTHY in the last FreshLimit minutes and arrived, however late, out of *)
(* turn or not at all the snapshots of the sources arrive, and however few  *)
(* of the rows are read.                                                    *)
HealthyIsEarned ==
  overall_state = "HEALTHY" =>
    \A name \in OVERALL_COMPONENTS :
      \E p \in Stored : /\ SignalOf(p).component = name
                        /\ Value(p) = "HEALTHY" /\ ~Stale(p)

(* What the newest observation of a signal says counts for FreshLimit       *)
(* minutes: the environment is shown as at least as bad, however late and   *)
(* out of turn the snapshots of the sources arrive, unless ViewLimit newer  *)
(* rows have pushed that observation out of what is read.                   *)
Newest(p) == ~\E q \in Stored : SameSignal(q, p) /\ Newer(q, p)
Relevant(p) ==
  ~Stale(p) /\ Value(p) # "none" /\ SignalOf(p).component \in OVERALL_COMPONENTS
PushedOut(p) == Cardinality({q \in Stored : Newer(q, p)}) >= ViewLimit
HiddenOnlyByLimit ==
  LET overall == overall_state
  IN  \A p \in Stored : Relevant(p) /\ Newest(p) => AtLeast(overall, Value(p)) \/ PushedOut(p)

(* docs/OBSERVABILITY-CONTRACT.md: "Overall health is de zwaarste actieve  *)
(* toestand", and a state stays visible until it is too old, so that       *)
(* nothing should be pushed out.  The limit of the code breaks this.       *)
NothingBadHidden ==
  LET overall == overall_state
  IN  \A p \in Stored : Relevant(p) /\ Newest(p) => AtLeast(overall, Value(p))

==============================================================================
