------------------------- MODULE OperatorViewProofs -------------------------
(***************************************************************************)
(* Proofs about OperatorView, for any sources and signals, and snapshots   *)
(* that arrive late, out of turn or never.                                 *)
(***************************************************************************)
EXTENDS OperatorView, FiniteSetTheorems, TLAPS

USE ViewAssumption

(* A source measures what its layout says. *)
SnapshotsOf(source) ==
  [source : {source}, at : Nat, values : [DOMAIN Layout[source] -> Values], arrived : BOOLEAN]
Snapshots == UNION {SnapshotsOf(source) : source \in Sources}

TypeOK == now \in Nat /\ log \in Seq(Snapshots)

-----------------------------------------------------------------------------
(* How states are summed up *)

(* The states in the order of their weight. *)
LEMMA FiveStates ==
  /\ States = {"HEALTHY", "DEGRADED", "WARNING", "UNKNOWN", "CRITICAL"}
  /\ STATE_ORDER["HEALTHY"] = 0 /\ STATE_ORDER["DEGRADED"] = 1
  /\ STATE_ORDER["WARNING"] = 2 /\ STATE_ORDER["UNKNOWN"] = 3
  /\ STATE_ORDER["CRITICAL"] = 4
  BY DEF States, STATE_ORDER

(* A nonempty set of states has a worst one, which worst_state picks. *)
LEMMA WorstIsWorst ==
  ASSUME NEW S \in SUBSET States, S # {}
  PROVE  worst_state(S) \in S /\ \A t \in S : AtLeast(worst_state(S), t)
<1>1. \E s \in S : \A t \in S : AtLeast(s, t)
  <2>1. CASE "CRITICAL" \in S
    BY FiveStates, <2>1 DEF AtLeast
  <2>2. CASE "CRITICAL" \notin S /\ "UNKNOWN" \in S
    <3>1. \A t \in S : STATE_ORDER["UNKNOWN"] >= STATE_ORDER[t]
      BY FiveStates, <2>2
    <3> QED
      BY <2>2, <3>1 DEF AtLeast
  <2>3. CASE "CRITICAL" \notin S /\ "UNKNOWN" \notin S /\ "WARNING" \in S
    <3>1. \A t \in S : STATE_ORDER["WARNING"] >= STATE_ORDER[t]
      BY FiveStates, <2>3
    <3> QED
      BY <2>3, <3>1 DEF AtLeast
  <2>4. CASE S \subseteq {"HEALTHY", "DEGRADED"} /\ "DEGRADED" \in S
    <3>1. \A t \in S : STATE_ORDER["DEGRADED"] >= STATE_ORDER[t]
      BY FiveStates, <2>4
    <3> QED
      BY <2>4, <3>1 DEF AtLeast
  <2>5. CASE S = {"HEALTHY"}
    BY FiveStates, <2>5 DEF AtLeast
  <2> QED
    BY FiveStates, <2>1, <2>2, <2>3, <2>4, <2>5
<1> QED
  BY <1>1 DEF worst_state

(* A sum of states is a state. *)
LEMMA WorstIsState ==
  ASSUME NEW S \in SUBSET States
  PROVE  worst_state(S) \in States
<1>1. CASE S = {}
  BY <1>1, FiveStates DEF worst_state
<1>2. CASE S # {}
  BY <1>2, WorstIsWorst
<1> QED
  BY <1>1, <1>2

(* What is summed up as HEALTHY is not empty and HEALTHY throughout. *)
LEMMA HealthyThroughout ==
  ASSUME NEW S \in SUBSET States, worst_state(S) = "HEALTHY"
  PROVE  S = {"HEALTHY"}
<1>1. S # {}
  BY DEF worst_state
<1>2. ASSUME NEW t \in S PROVE t = "HEALTHY"
  <2>1. AtLeast("HEALTHY", t) /\ t \in States
    BY <1>1, <1>2, WorstIsWorst
  <2> QED
    BY <2>1, FiveStates DEF AtLeast
<1> QED
  BY <1>1, <1>2

(* What outweighs the worse outweighs the better. *)
LEMMA AtLeastTransitive ==
  ASSUME NEW x \in States, NEW y \in States, NEW z \in States,
         AtLeast(x, y), AtLeast(y, z)
  PROVE  AtLeast(x, z)
<1>1. STATE_ORDER[x] \in Int /\ STATE_ORDER[y] \in Int /\ STATE_ORDER[z] \in Int
  BY FiveStates
<1> QED
  BY <1>1 DEF AtLeast

(* The rows aggregate_health works on. *)
Rows == [signal : STRING, component : STRING, service : STRING, running : BOOLEAN,
         state : States, optional : BOOLEAN, stale : BOOLEAN]

(* A row counts as what it says, unless it is too old. *)
LEMMA EffectiveIsState ==
  ASSUME NEW row \in Rows
  PROVE  /\ _effective_state(row) \in States
         /\ _effective_state(row) = "HEALTHY" => ~row.stale /\ row.state = "HEALTHY"
         /\ ~row.stale => _effective_state(row) = row.state
<1>1. row.state \in States /\ row.stale \in BOOLEAN
  BY DEF Rows
<1> QED
  BY <1>1, FiveStates DEF _effective_state

(* The rows that are counted count as states. *)
LEMMA CountedAreStates ==
  ASSUME NEW rows \in SUBSET Rows
  PROVE  Counted(rows) \in SUBSET States
  BY EffectiveIsState DEF Counted

(* The states service_state sums up. *)
ServiceStates(rows) ==
  LET running == {row \in rows : row.running}
  IN  (IF running = {} THEN {"UNKNOWN"} ELSE {_effective_state(row) : row \in running})
        \cup Counted(rows \ running)

(* A service has the worst of those, and there is one. *)
LEMMA ServiceState ==
  ASSUME NEW rows \in SUBSET Rows
  PROVE  /\ ServiceStates(rows) \in SUBSET States
         /\ ServiceStates(rows) # {}
         /\ service_state(rows) = worst_state(ServiceStates(rows))
         /\ service_state(rows) \in States
<1>1. ServiceStates(rows) \in SUBSET States
  BY EffectiveIsState, CountedAreStates, FiveStates DEF ServiceStates
<1>2. ServiceStates(rows) # {}
  BY DEF ServiceStates
<1>3. service_state(rows) = worst_state(ServiceStates(rows))
  BY DEF service_state, ServiceStates
<1> QED
  BY <1>1, <1>2, <1>3, WorstIsState

(* A service is HEALTHY only when one of its rows is, and none hides. *)
LEMMA ServiceIsEarned ==
  ASSUME NEW rows \in SUBSET Rows, service_state(rows) = "HEALTHY"
  PROVE  \E row \in rows : ~row.stale /\ row.state = "HEALTHY"
<1>1. ServiceStates(rows) = {"HEALTHY"}
  BY ServiceState, HealthyThroughout
<1>2. {row \in rows : row.running} # {}
  <2>1. {row \in rows : row.running} = {} => "UNKNOWN" \in ServiceStates(rows)
    BY DEF ServiceStates
  <2> QED
    BY <1>1, <2>1
<1>3. PICK row \in rows : row.running
  BY <1>2
<1>4. _effective_state(row) \in ServiceStates(rows)
  BY <1>3 DEF ServiceStates
<1> QED
  BY <1>1, <1>4, EffectiveIsState

(* A row that counts shows in the state of its service. *)
LEMMA ServiceShows ==
  ASSUME NEW rows \in SUBSET Rows, NEW row \in rows, ~row.stale, ~row.optional
  PROVE  AtLeast(service_state(rows), row.state)
<1>1. _effective_state(row) = row.state
  BY EffectiveIsState
<1>2. row.state \in ServiceStates(rows)
  BY <1>1 DEF ServiceStates, Counted
<1> QED
  BY <1>2, ServiceState, WorstIsWorst

(* The states component_state sums up. *)
ComponentStates(rows, name) ==
  LET mine     == {row \in rows : row.component = name}
      services == {row.service : row \in mine} \ {""}
  IN  Counted({row \in mine : row.service = ""})
        \cup {service_state({row \in mine : row.service = key}) : key \in services}

(* A component has the worst of those. *)
LEMMA ComponentState ==
  ASSUME NEW rows \in SUBSET Rows, NEW name
  PROVE  /\ ComponentStates(rows, name) \in SUBSET States
         /\ component_state(rows, name) = worst_state(ComponentStates(rows, name))
         /\ component_state(rows, name) \in States
<1>1. ComponentStates(rows, name) \in SUBSET States
  <2>1. \A key : {row \in {r \in rows : r.component = name} : row.service = key} \in SUBSET Rows
    OBVIOUS
  <2> QED
    BY <2>1, CountedAreStates, ServiceState DEF ComponentStates
<1>2. component_state(rows, name) = worst_state(ComponentStates(rows, name))
  BY DEF component_state, ComponentStates
<1> QED
  BY <1>1, <1>2, WorstIsState

(* A component is HEALTHY only when one of its rows is. *)
LEMMA ComponentIsEarned ==
  ASSUME NEW rows \in SUBSET Rows, NEW name, component_state(rows, name) = "HEALTHY"
  PROVE  \E row \in rows : row.component = name /\ ~row.stale /\ row.state = "HEALTHY"
<1> DEFINE mine == {row \in rows : row.component = name}
<1>1. ComponentStates(rows, name) = {"HEALTHY"}
  BY ComponentState, HealthyThroughout
<1>2. CASE "HEALTHY" \in Counted({row \in mine : row.service = ""})
  <2>1. PICK row \in mine : _effective_state(row) = "HEALTHY"
    BY <1>2 DEF Counted
  <2> QED
    BY <2>1, EffectiveIsState
<1>3. ASSUME NEW key, service_state({row \in mine : row.service = key}) = "HEALTHY"
      PROVE  \E row \in mine : ~row.stale /\ row.state = "HEALTHY"
  <2>1. {row \in mine : row.service = key} \in SUBSET Rows
    OBVIOUS
  <2> QED
    BY <1>3, <2>1, ServiceIsEarned
<1> QED
  BY <1>1, <1>2, <1>3 DEF ComponentStates

(* A row that counts shows in the state of its component. *)
LEMMA ComponentShows ==
  ASSUME NEW rows \in SUBSET Rows, NEW row \in rows, ~row.stale, ~row.optional
  PROVE  AtLeast(component_state(rows, row.component), row.state)
<1> DEFINE mine == {r \in rows : r.component = row.component}
           S == ComponentStates(rows, row.component)
<1>1. /\ S \in SUBSET States
      /\ component_state(rows, row.component) = worst_state(S)
  BY ComponentState
<1>2. CASE row.service = ""
  <2>1. row.state \in S
    <3>1. row \in {r \in {r \in mine : r.service = ""} : ~r.optional}
      BY <1>2
    <3>2. row.state \in Counted({r \in mine : r.service = ""})
      BY <3>1, EffectiveIsState DEF Counted
    <3> QED
      BY <3>2 DEF ComponentStates
  <2> QED
    BY <1>1, <2>1, WorstIsWorst
<1>3. CASE row.service # ""
  <2>1. PICK served : served = {r \in mine : r.service = row.service}
    OBVIOUS
  <2>2. served \in SUBSET Rows /\ row \in served
    BY <2>1
  <2>3. service_state(served) \in S
    BY <1>3, <2>1, <2>2 DEF ComponentStates
  <2>4. AtLeast(worst_state(S), service_state(served))
    BY <1>1, <2>3, WorstIsWorst
  <2>5. AtLeast(service_state(served), row.state)
    BY <2>2, ServiceShows
  <2>6. row.state \in States
    BY DEF Rows
  <2> QED
    BY <1>1, <2>3, <2>4, <2>5, <2>6, AtLeastTransitive, WorstIsState
<1> QED
  BY <1>2, <1>3

(* The environment is HEALTHY only when every component earned it. *)
LEMMA AggregateIsEarned ==
  ASSUME NEW rows \in SUBSET Rows, NEW components,
         aggregate_health(rows, components) = "HEALTHY"
  PROVE  \A name \in components :
           \E row \in rows : row.component = name /\ ~row.stale /\ row.state = "HEALTHY"
<1>1. {component_state(rows, name) : name \in components} \in SUBSET States
  BY ComponentState
<1>2. \A name \in components : component_state(rows, name) = "HEALTHY"
  BY <1>1, HealthyThroughout DEF aggregate_health
<1> QED
  BY <1>2, ComponentIsEarned

(* A row that counts shows in the state of the environment. *)
LEMMA AggregateShows ==
  ASSUME NEW rows \in SUBSET Rows, NEW components, NEW row \in rows,
         ~row.stale, ~row.optional, row.component \in components
  PROVE  AtLeast(aggregate_health(rows, components), row.state)
<1> DEFINE S == {component_state(rows, name) : name \in components}
<1>1. S \in SUBSET States /\ component_state(rows, row.component) \in S
  BY ComponentState
<1>2. AtLeast(worst_state(S), component_state(rows, row.component))
  BY <1>1, WorstIsWorst
<1>3. AtLeast(component_state(rows, row.component), row.state)
  BY ComponentShows
<1>4. row.state \in States
  BY DEF Rows
<1> QED
  BY <1>1, <1>2, <1>3, <1>4, AtLeastTransitive, WorstIsState DEF aggregate_health

-----------------------------------------------------------------------------
(* The log *)

(* What a snapshot and its rows consist of. *)
LEMMA SnapshotFields ==
  ASSUME NEW s \in Snapshots
  PROVE  /\ s.source \in Sources /\ s.at \in Nat /\ s.arrived \in BOOLEAN
         /\ s.values \in [DOMAIN Layout[s.source] -> Values]
  BY DEF Snapshots, SnapshotsOf

(* A snapshot that arrives is a snapshot still. *)
LEMMA SnapshotArrives ==
  ASSUME NEW s \in Snapshots
  PROVE  [s EXCEPT !.arrived = TRUE] \in Snapshots
<1>1. PICK source \in Sources : s \in SnapshotsOf(source)
  BY DEF Snapshots
<1>2. [s EXCEPT !.arrived = TRUE] \in SnapshotsOf(source)
  BY <1>1 DEF SnapshotsOf
<1> QED
  BY <1>1, <1>2 DEF Snapshots

(* What is left of a sequence is a sequence. *)
LEMMA RemoveAtType ==
  ASSUME NEW S, NEW s \in Seq(S), NEW i \in DOMAIN s
  PROVE  RemoveAt(s, i) \in Seq(S)
<1>1. SubSeq(s, 1, i - 1) \in Seq(S) /\ SubSeq(s, i + 1, Len(s)) \in Seq(S)
  OBVIOUS
<1> QED
  BY <1>1 DEF RemoveAt

(* The first snapshot waits in the log. *)
LEMMA FirstWaits ==
  ASSUME NEW source, NEW i \in FirstOf(source)
  PROVE  i \in DOMAIN log
  BY DEF FirstOf, Waiting

(* What is measured fits the layout. *)
LEMMA MeasureKeeps ==
  ASSUME TypeOK, NEW source \in Sources, Measure(source)
  PROVE  TypeOK'
<1>1. PICK values \in [DOMAIN Layout[source] -> Values] :
        log' = Append(log, [source |-> source, at |-> now, values |-> values,
                            arrived |-> FALSE])
  BY DEF Measure
<1>2. now \in Nat /\ now' = now /\ log \in Seq(Snapshots)
  BY DEF TypeOK, Measure
<1>3. [source |-> source, at |-> now, values |-> values, arrived |-> FALSE] \in Snapshots
  BY <1>2 DEF Snapshots, SnapshotsOf
<1> QED
  BY <1>1, <1>2, <1>3 DEF TypeOK

(* What arrives was in the log before. *)
LEMMA DeliverKeeps ==
  ASSUME TypeOK, NEW source \in Sources, Deliver(source)
  PROVE  TypeOK'
<1>1. PICK k \in DOMAIN log : log' = [log EXCEPT ![k].arrived = TRUE]
  BY FirstWaits DEF Deliver
<1>2. now' = now /\ log \in Seq(Snapshots)
  BY DEF TypeOK, Deliver
<1>3. [log[k] EXCEPT !.arrived = TRUE] \in Snapshots
  BY <1>2, SnapshotArrives
<1>4. log' \in Seq(Snapshots)
  BY <1>1, <1>2, <1>3
<1> QED
  BY <1>2, <1>4 DEF TypeOK

(* A snapshot that is refused leaves the others. *)
LEMMA RefuseKeeps ==
  ASSUME TypeOK, NEW source \in Sources, Refuse(source)
  PROVE  TypeOK'
<1>1. PICK k \in DOMAIN log : log' = RemoveAt(log, k)
  BY FirstWaits DEF Refuse
<1>2. now' = now /\ log \in Seq(Snapshots)
  BY DEF TypeOK, Refuse
<1> QED
  BY <1>1, <1>2, RemoveAtType DEF TypeOK

(* Every snapshot in the log is what the layout of its source says. *)
LEMMA LogTyped == Spec => []TypeOK
<1>1. Init => TypeOK
  BY DEF Init, TypeOK
<1>2. TypeOK /\ [Next]_vars => TypeOK'
  <2> SUFFICES ASSUME TypeOK, [Next]_vars PROVE TypeOK'
    OBVIOUS
  <2>1. CASE Tick
    BY <2>1 DEF Tick, TypeOK
  <2>2. CASE \E source \in Sources : Measure(source) \/ Deliver(source) \/ Refuse(source)
    BY <2>2, MeasureKeeps, DeliverKeeps, RefuseKeeps
  <2>3. CASE UNCHANGED vars
    BY <2>3 DEF vars, TypeOK
  <2> QED
    BY <2>1, <2>2, <2>3 DEF Next
<1> QED
  BY <1>1, <1>2, PTL DEF Spec

-----------------------------------------------------------------------------
(* What is shown *)

(* A row is one of a snapshot that arrived, at its place of the layout. *)
LEMMA StoredFields ==
  ASSUME TypeOK, NEW p \in Stored
  PROVE  /\ p = <<p[1], p[2]>> /\ p[1] \in DOMAIN log /\ p[1] \in Nat /\ p[2] \in Nat
         /\ log[p[1]] \in Snapshots
         /\ p[2] \in DOMAIN Layout[log[p[1]].source]
         /\ SignalOf(p) \in Signals /\ Value(p) \in Values
         /\ Stale(p) \in BOOLEAN
<1>1. log \in Seq(Snapshots)
  BY DEF TypeOK
<1>2. PICK i \in DOMAIN log : p \in {i} \X DOMAIN log[i].values
  BY DEF Stored
<1>3. p = <<p[1], p[2]>> /\ p[1] = i /\ p[2] \in DOMAIN log[i].values
  BY <1>2
<1>4. i \in Nat /\ log[i] \in Snapshots
  BY <1>1
<1>5. /\ log[i].source \in Sources
      /\ log[i].values \in [DOMAIN Layout[log[i].source] -> Values]
  BY <1>4, SnapshotFields
<1>6. Layout[log[i].source] \in Seq(Signals)
  BY <1>5
<1>7. p[2] \in DOMAIN Layout[log[i].source]
  BY <1>3, <1>5
<1>8. p[2] \in Nat /\ Layout[log[i].source][p[2]] \in Signals
  BY <1>6, <1>7
<1>9. log[i].values[p[2]] \in Values
  BY <1>5, <1>7
<1> QED
  BY <1>2, <1>3, <1>4, <1>7, <1>8, <1>9 DEF SignalOf, Value, Stale

(* What is shown of a row. *)
LEMMA RowIsRow ==
  ASSUME TypeOK, NEW p \in Stored
  PROVE  /\ Row(p) \in Rows
         /\ Row(p).component = SignalOf(p).component
         /\ Row(p).stale = Stale(p)
         /\ Row(p).optional = (Value(p) = "none")
         /\ Row(p).state = IF Value(p) = "none" THEN "UNKNOWN" ELSE Value(p)
<1>1. SignalOf(p) \in Signals /\ Value(p) \in Values /\ Stale(p) \in BOOLEAN
  BY StoredFields
<1> QED
  BY <1>1, FiveStates DEF Row, Rows, Signals, Values

(* Only stored rows are shown. *)
LEMMA ShownFromStored ==
  ASSUME TypeOK
  PROVE  Shown \in SUBSET Rows /\ \A row \in Shown : \E p \in Stored : row = Row(p)
  BY RowIsRow DEF Shown, Latest, Limited

(* An operator is shown HEALTHY only when every component was measured    *)
(* HEALTHY and not too long ago: for any number of sources and signals,   *)
(* whatever is read of the rows and whatever order the snapshots come in. *)
THEOREM HealthyEarned == Spec => []HealthyIsEarned
<1>1. TypeOK => HealthyIsEarned
  <2> SUFFICES ASSUME TypeOK, overall_state = "HEALTHY", NEW name \in OVERALL_COMPONENTS
               PROVE  \E p \in Stored : /\ SignalOf(p).component = name
                                        /\ Value(p) = "HEALTHY" /\ ~Stale(p)
    BY DEF HealthyIsEarned
  <2>1. Shown \in SUBSET Rows
    BY ShownFromStored
  <2>2. PICK row \in Shown : row.component = name /\ ~row.stale /\ row.state = "HEALTHY"
    BY <2>1, AggregateIsEarned DEF overall_state
  <2>3. PICK p \in Stored : row = Row(p)
    BY ShownFromStored
  <2>4. Value(p) = "HEALTHY"
    BY <2>2, <2>3, RowIsRow
  <2> QED
    BY <2>2, <2>3, <2>4, RowIsRow
<1> QED
  BY <1>1, LogTyped, PTL

-----------------------------------------------------------------------------
(* What is read *)

(* The rows of the database are finitely many. *)
LEMMA StoredFinite ==
  ASSUME TypeOK
  PROVE  IsFiniteSet(Stored)
<1> DEFINE arrived == {k \in DOMAIN log : log[k].arrived}
           rows == [i \in arrived |-> {i} \X DOMAIN log[i].values]
           parts == {rows[i] : i \in arrived}
<1>1. log \in Seq(Snapshots)
  BY DEF TypeOK
<1>2. IsFiniteSet(arrived)
  <2>1. DOMAIN log = 1 .. Len(log) /\ Len(log) \in Nat
    BY <1>1
  <2>2. IsFiniteSet(DOMAIN log)
    BY <2>1, FS_Interval
  <2> QED
    BY <2>2, FS_Subset
<1>3. ASSUME NEW i \in arrived PROVE IsFiniteSet({i} \X DOMAIN log[i].values)
  <2>1. log[i] \in Snapshots
    BY <1>1
  <2>2. /\ log[i].source \in Sources
        /\ DOMAIN log[i].values = DOMAIN Layout[log[i].source]
    BY <2>1, SnapshotFields
  <2>3. Layout[log[i].source] \in Seq(Signals)
    BY <2>2
  <2>4. /\ DOMAIN Layout[log[i].source] = 1 .. Len(Layout[log[i].source])
        /\ Len(Layout[log[i].source]) \in Nat
    BY <2>3
  <2>5. IsFiniteSet(DOMAIN log[i].values)
    BY <2>2, <2>4, FS_Interval
  <2> QED
    BY <2>5, FS_Singleton, FS_Product
<1>4. rows \in Surjection(arrived, parts)
  BY DEF Surjection
<1>5. IsFiniteSet(parts)
  BY <1>2, <1>4, FS_Surjection
<1>6. \A part \in parts : IsFiniteSet(part)
  BY <1>3
<1>7. Stored = UNION parts
  BY DEF Stored
<1> QED
  BY <1>5, <1>6, <1>7, FS_UNION

(* A row is read unless as many newer ones as the limit are there. *)
LEMMA ReadOrPushedOut ==
  ASSUME TypeOK, NEW p \in Stored
  PROVE  p \in Limited(Stored) \/ PushedOut(p)
<1> DEFINE newer == {q \in Stored : Newer(q, p)}
<1>1. IsFiniteSet(newer)
  BY StoredFinite, FS_Subset
<1>2. Cardinality(newer) \in Nat
  BY <1>1, FS_CardinalityType
<1>3. PICK n : n = Cardinality(newer)
  OBVIOUS
<1>4. n < ViewLimit \/ n >= ViewLimit
  BY <1>2, <1>3
<1> QED
  BY <1>3, <1>4 DEF Limited, PushedOut

(* What the newest observation of a signal says shows in the state of the   *)
(* environment while it counts, or the limit of the query is what hides it: *)
(* for any number of sources, signals and restarts, whatever order the      *)
(* snapshots come in, and whatever the limit is.                            *)
THEOREM OnlyTheLimitHides == Spec => []HiddenOnlyByLimit
<1>1. TypeOK => HiddenOnlyByLimit
  <2> SUFFICES ASSUME TypeOK, NEW p \in Stored, Relevant(p), Newest(p), ~PushedOut(p)
               PROVE  AtLeast(overall_state, Value(p))
    BY DEF HiddenOnlyByLimit
  <2>1. p \in Limited(Stored)
    BY ReadOrPushedOut
  <2>2. p \in Latest(Limited(Stored))
    BY <2>1 DEF Latest, Limited, Newest, SameSignal
  <2>3. Row(p) \in Shown /\ Shown \in SUBSET Rows
    BY <2>2, ShownFromStored DEF Shown
  <2>4. /\ ~Row(p).stale /\ ~Row(p).optional /\ Row(p).state = Value(p)
        /\ Row(p).component \in OVERALL_COMPONENTS
    BY RowIsRow DEF Relevant
  <2> QED
    BY <2>3, <2>4, AggregateShows DEF overall_state
<1> QED
  BY <1>1, LogTyped, PTL

=============================================================================
