------------------------ MODULE AnalysisBudgetProofs ------------------------
(***************************************************************************)
(* Proofs about AnalysisBudget with one worker, as it is deployed, for any *)
(* number of requests and attempts, any budget and cost, and any number of *)
(* calls that break off and of restarts.                                   *)
(***************************************************************************)
EXTENDS AnalysisBudget, FiniteSetTheorems, WellFoundedInduction, TLAPS

USE BudgetAssumption

(* docker-compose.deploy.yml starts one analysis worker. *)
OneWorker == \E w : Workers = {w}

At(w, r, steps) == r \in batch[w] /\ r = Current(w) /\ step[w] \in steps

(* What the worker holds is pending; a call is made with a reservation. *)
Holding(w) ==
  /\ step[w] # "next" => batch[w] # {}
  /\ \A r \in batch[w] : status[r] = "PENDING"
  /\ step[w] \in {"call", "settle"} => usage[Current(w)] = "RESERVED"

(* A test is marked before its one call, and a marked one is not claimed. *)
TestsHeld(w) ==
  /\ \A r \in batch[w] \cap Tests : r \in marked => r = Current(w) /\ step[w] # "next"
  /\ step[w] # "next" /\ Current(w) \in Tests => Current(w) \in marked
  /\ \A r \in Tests :
       calls[r] # 0 => /\ calls[r] = 1 /\ r \in marked
                       /\ r \in batch[w] => step[w] \in {"settle", "settled"}

(* A call is counted in the worker's copy, then in the table; only a dead  *)
(* worker leaves one uncounted, or a request pending with all its attempts *)
(* used.                                                                   *)
CallsCounted(w) ==
  \A r \in Requests \ Tests :
    /\ r \in batch[w] =>
         seen[w][r] = attempts[r] + (IF At(w, r, {"settle"}) THEN 1 ELSE 0)
    /\ calls[r] <= attempts[r] + restarts + (IF At(w, r, {"settle"}) THEN 1 ELSE 0)
    /\ calls[r] <= MaxAttempts + restarts
    /\ status[r] \in {"ABSENT", "PENDING"} /\ ~At(w, r, {"settle", "settled"})
         => calls[r] < MaxAttempts + restarts

(* What the provider charged is spent, about to be, or lost with a call. *)
ChargesKnown(w) ==
  charged <= spent + MaxCost * (broken + restarts)
               + (IF step[w] = "settle" THEN Charge(ended[w]) ELSE 0)

(* A reservation is the one of the call that is made, or of a restart. *)
LeaksKnown(w) ==
  Cardinality(Reservations) <= restarts + (IF step[w] \in {"call", "settle"} THEN 1 ELSE 0)

Inv(w) ==
  /\ TypeOK /\ Holding(w) /\ TestsHeld(w) /\ CallsCounted(w)
  /\ LedgerBalanced /\ ChargesKnown(w) /\ LeaksKnown(w)

(* The worker takes the oldest first.  A nonempty set of numbers has a least *)
(* one, which Min picks.                                                     *)
LEMMA MinIsLeast ==
  ASSUME NEW S \in SUBSET Nat, S # {}
  PROVE  Min(S) \in S /\ \A y \in S : Min(S) <= y
<1>1. PICK R : R = OpToRel(<, Nat)
  OBVIOUS
<1>2. \A x, y \in Nat : <<x, y>> \in R <=> x < y
  BY <1>1 DEF OpToRel
<1>3. PICK x \in S : \A y \in S : <<y, x>> \notin R
  BY <1>1, NatLessThanWellFounded, WFMin
<1>4. ASSUME NEW y \in S PROVE x <= y
  <2>1. x \in Nat /\ y \in Nat /\ ~(y < x)
    BY <1>2, <1>3
  <2> QED
    BY <2>1
<1> QED
  BY <1>3, <1>4 DEF Min

(* The worker handles a request that it claimed. *)
LEMMA CurrentHeld ==
  ASSUME TypeOK, NEW w \in Workers, batch[w] # {}
  PROVE  Current(w) \in batch[w] /\ Current(w) \in Requests
<1>1. batch[w] \subseteq Requests /\ Requests \subseteq Nat
  BY DEF TypeOK, Requests
<1> QED
  BY <1>1, MinIsLeast DEF Current

(* What a call costs and what the ledger keeps of it. *)
LEMMA Costs ==
  ASSUME NEW end \in Ends \cup {NoCall}
  PROVE  /\ end.cost \in 0 .. MaxCost
         /\ Charge(end) \in 0 .. MaxCost
         /\ end.how # "broken" => end.cost <= Charge(end)
         /\ UsageAfter(end) \in {"none", "COMPLETED", "INVALID_RESULT", "UNKNOWN"}
  BY DEF Ends, NoCall, Charge, UsageAfter, Paid, Free

(* The reservations are finitely many. *)
LEMMA ReservationsFinite ==
  /\ IsFiniteSet(Reservations) /\ Cardinality(Reservations) \in Nat
<1>1. IsFiniteSet(Requests)
  BY FS_Interval DEF Requests
<1>2. Reservations \in SUBSET Requests
  BY DEF Reservations
<1> QED
  BY <1>1, <1>2, FS_Subset, FS_CardinalityType

(* reserve adds one to the open reservations. *)
LEMMA OneMoreReservation ==
  ASSUME TypeOK, NEW r \in Requests, usage[r] # "RESERVED",
         usage' = [usage EXCEPT ![r] = "RESERVED"]
  PROVE  Cardinality(Reservations)' = Cardinality(Reservations) + 1
<1>1. Reservations' = Reservations \cup {r} /\ r \notin Reservations
  BY DEF Reservations, TypeOK
<1> QED
  BY <1>1, ReservationsFinite, FS_AddElement

(* Settling takes one away. *)
LEMMA OneReservationLess ==
  ASSUME TypeOK, NEW r \in Requests, usage[r] = "RESERVED",
         NEW u, u # "RESERVED", usage' = [usage EXCEPT ![r] = u]
  PROVE  /\ Cardinality(Reservations)' = Cardinality(Reservations) - 1
         /\ Cardinality(Reservations) >= 1
<1>1. Reservations' = Reservations \ {r} /\ r \in Reservations
  BY DEF Reservations, TypeOK
<1>2. Cardinality(Reservations) # 0
  BY <1>1, ReservationsFinite, FS_EmptySet
<1> QED
  BY <1>1, <1>2, ReservationsFinite, FS_RemoveElement

(* At the start nothing is queued, held or charged. *)
LEMMA InitInv ==
  ASSUME NEW w, Workers = {w}, Init
  PROVE  Inv(w)
<1>1. TypeOK
  BY DEF Init, TypeOK, Requests, Ends, NoCall
<1>2. Reservations = {}
  BY DEF Init, Reservations
<1>3. Cardinality(Reservations) = 0
  BY <1>2, FS_EmptySet
<1>4. Holding(w) /\ TestsHeld(w)
  BY DEF Init, Holding, TestsHeld, Requests
<1>5. CallsCounted(w)
  BY DEF Init, CallsCounted, At
<1>6. LedgerBalanced /\ ChargesKnown(w) /\ LeaksKnown(w)
  BY <1>3 DEF Init, LedgerBalanced, ChargesKnown, LeaksKnown
<1> QED
  BY <1>1, <1>4, <1>5, <1>6 DEF Inv

(* A request is queued while the worker may hold others. *)
LEMMA QueueStep ==
  ASSUME NEW w, Workers = {w}, Inv(w), NEW r \in Requests, Queue(r)
  PROVE  Inv(w)'
<1> USE DEF ledger, worker, history
<1>1. /\ status[r] = "ABSENT" /\ status' = [status EXCEPT ![r] = "PENDING"]
      /\ UNCHANGED <<marked, attempts, analyses, usage, spent, reserved, setting, batch,
                     locked, step, seen, ended, calls, charged, broken, restarts>>
  BY DEF Queue
<1>2. \A q \in Requests : status'[q] = IF q = r THEN "PENDING" ELSE status[q]
  BY <1>1 DEF Inv, TypeOK
<1>3. TypeOK'
  BY <1>1 DEF Inv, TypeOK
<1>4. Holding(w)'
  BY <1>1, <1>2 DEF Inv, TypeOK, Holding, Current
<1>5. TestsHeld(w)'
  BY <1>1 DEF Inv, TestsHeld, Current
<1>6. CallsCounted(w)'
  BY <1>1, <1>2 DEF Inv, CallsCounted, At, Current
<1>7. LedgerBalanced' /\ ChargesKnown(w)' /\ LeaksKnown(w)'
  BY <1>1 DEF Inv, LedgerBalanced, ChargesKnown, LeaksKnown, Reservations
<1> QED
  BY <1>3, <1>4, <1>5, <1>6, <1>7 DEF Inv

(* Without a provider what is pending is settled, and nothing is held. *)
LEMMA SettleAllStep ==
  ASSUME NEW w, Workers = {w}, Inv(w), SettleAll(w)
  PROVE  Inv(w)'
<1> USE DEF ledger, worker, history
<1>1. /\ batch[w] = {} /\ marked' = marked \cup (Pending \cap Tests)
      /\ UNCHANGED <<attempts, analyses, usage, spent, reserved, setting, batch,
                     locked, step, seen, ended, calls, charged, broken, restarts>>
      /\ status' = [r \in Requests |->
           IF r \notin Pending THEN status[r]
           ELSE IF setting[w] = "off" THEN "DISABLED" ELSE "FAILED"]
  BY DEF SettleAll, Idle
<1>2. \A r \in Requests :
        status'[r] \in {"ABSENT", "PENDING"} => status'[r] = status[r]
  BY <1>1 DEF Pending
<1>3. TypeOK'
  BY <1>1 DEF Inv, TypeOK
<1>4. Holding(w)' /\ TestsHeld(w)'
  BY <1>1 DEF Inv, Holding, TestsHeld
<1>5. CallsCounted(w)'
  BY <1>1, <1>2 DEF Inv, CallsCounted, At
<1>6. LedgerBalanced' /\ ChargesKnown(w)' /\ LeaksKnown(w)'
  BY <1>1 DEF Inv, LedgerBalanced, ChargesKnown, LeaksKnown, Reservations
<1> QED
  BY <1>3, <1>4, <1>5, <1>6 DEF Inv

(* A worker claims what is pending and no test with a mark. *)
LEMMA ClaimStep ==
  ASSUME NEW w, Workers = {w}, Inv(w), Claim(w)
  PROVE  Inv(w)'
<1> USE DEF requestRows, ledger, history
<1>1. PICK S : S = Oldest(Claimable, Limit)
  OBVIOUS
<1>2. S \subseteq Requests /\ \A r \in S : status[r] = "PENDING" /\ r \notin marked
  BY <1>1 DEF Oldest, Claimable, Pending
<1>3. /\ batch[w] = {} /\ step[w] = "next"
      /\ batch' = [batch EXCEPT ![w] = S] /\ locked' = [locked EXCEPT ![w] = S]
      /\ seen' = [seen EXCEPT ![w] = attempts]
      /\ UNCHANGED <<status, marked, attempts, analyses, usage, spent, reserved, setting,
                     step, ended, calls, charged, broken, restarts>>
  BY <1>1 DEF Claim, Idle, Inv, Holding
<1>4. batch'[w] = S /\ seen'[w] = attempts /\ step'[w] = "next"
  BY <1>3 DEF Inv, TypeOK
<1>5. TypeOK'
  BY <1>2, <1>3 DEF Inv, TypeOK
<1>6. Holding(w)'
  BY <1>2, <1>3, <1>4 DEF Holding
<1>7. TestsHeld(w)'
  BY <1>2, <1>3, <1>4 DEF Inv, TestsHeld
<1>8. CallsCounted(w)'
  <2>1. \A r, steps : ~At(w, r, steps)
    BY <1>3 DEF At
  <2>2. \A r : ~At(w, r, {"settle"})' /\ ~At(w, r, {"settle", "settled"})'
    BY <1>4 DEF At
  <2>3. \A r \in Requests : attempts[r] \in Nat
    BY DEF Inv, TypeOK
  <2> QED
    BY <1>3, <1>4, <2>1, <2>2, <2>3 DEF Inv, CallsCounted
<1>9. LedgerBalanced' /\ ChargesKnown(w)' /\ LeaksKnown(w)'
  BY <1>3 DEF Inv, LedgerBalanced, ChargesKnown, LeaksKnown, Reservations
<1> QED
  BY <1>5, <1>6, <1>7, <1>8, <1>9 DEF Inv

(* A request is done with: settled, or left pending with attempts to spare. *)
LEMMA DoneStep ==
  ASSUME NEW w, Workers = {w}, Inv(w), NEW final, ~Idle(w), Done(w, final),
         final \in {"PENDING", "COMPLETED", "FAILED"},
         step[w] \in {"next", "marked", "settled"},
         final = "PENDING" => /\ step[w] = "settled" /\ Current(w) \notin Tests
                              /\ seen[w][Current(w)] < MaxAttempts,
         analyses' \in SUBSET Requests, UNCHANGED <<attempts, ledger, history>>
  PROVE  Inv(w)'
<1> USE DEF ledger, history, Commit
<1>1. PICK r : r = Current(w) /\ r \in batch[w] /\ r \in Requests
  BY CurrentHeld DEF Inv, Idle
<1>2. /\ status' = [status EXCEPT ![r] = final] /\ marked' = marked \cup ({r} \cap Tests)
      /\ batch' = [batch EXCEPT ![w] = @ \ {r}] /\ step' = [step EXCEPT ![w] = "next"]
      /\ ended' = [ended EXCEPT ![w] = NoCall] /\ locked' = [locked EXCEPT ![w] = {}]
      /\ UNCHANGED <<attempts, usage, spent, reserved, setting, seen, calls, charged,
                     broken, restarts>>
  BY <1>1 DEF Done
<1>3. /\ batch'[w] = batch[w] \ {r} /\ step'[w] = "next"
      /\ \A q \in Requests : status'[q] = IF q = r THEN final ELSE status[q]
  BY <1>2 DEF Inv, TypeOK
<1>4. TypeOK'
  BY <1>1, <1>2 DEF Inv, TypeOK
<1>5. Holding(w)'
  <2>1. batch[w] \subseteq Requests
    BY DEF Inv, TypeOK
  <2> QED
    BY <1>3, <2>1 DEF Inv, Holding
<1>6. TestsHeld(w)'
  BY <1>1, <1>2, <1>3 DEF Inv, TestsHeld
<1>7. CallsCounted(w)'
  <2>1. \A q : ~At(w, q, {"settle"})' /\ ~At(w, q, {"settle", "settled"})'
    BY <1>3 DEF At
  <2>2. \A q : ~At(w, q, {"settle"})
    BY DEF At
  <2>3. \A q : q # r => ~At(w, q, {"settle", "settled"})
    BY <1>1 DEF At
  <2>4. /\ attempts \in [Requests -> Nat] /\ calls \in [Requests -> Nat] /\ restarts \in Nat
    BY DEF Inv, TypeOK
  <2>5. final = "PENDING" => calls[r] < MaxAttempts + restarts
    <3>1. SUFFICES ASSUME final = "PENDING" PROVE calls[r] < MaxAttempts + restarts
      OBVIOUS
    <3>2. r \notin Tests /\ seen[w][r] < MaxAttempts
      BY <1>1, <3>1
    <3>3. seen[w][r] = attempts[r] + 0 /\ calls[r] <= attempts[r] + restarts + 0
      BY <1>1, <2>2, <3>2 DEF Inv, CallsCounted
    <3> QED
      BY <1>1, <2>4, <3>2, <3>3
  <2>6. ASSUME NEW q \in Requests \ Tests
        PROVE  /\ q \in batch'[w] => seen'[w][q] = attempts'[q] + 0
               /\ calls'[q] <= attempts'[q] + restarts' + 0
               /\ calls'[q] <= MaxAttempts + restarts'
               /\ status'[q] \in {"ABSENT", "PENDING"} => calls'[q] < MaxAttempts + restarts'
    <3>1. /\ q \in batch[w] => seen[w][q] = attempts[q] + 0
          /\ calls[q] <= attempts[q] + restarts + 0
          /\ calls[q] <= MaxAttempts + restarts
      BY <2>2 DEF Inv, CallsCounted
    <3>2. q # r /\ status[q] \in {"ABSENT", "PENDING"} => calls[q] < MaxAttempts + restarts
      BY <2>3 DEF Inv, CallsCounted
    <3> QED
      BY <1>2, <1>3, <2>5, <3>1, <3>2
  <2> QED
    BY <2>1, <2>6 DEF CallsCounted
<1>8. ChargesKnown(w)' /\ LeaksKnown(w)' /\ LedgerBalanced'
  BY <1>2, <1>3 DEF Inv, LedgerBalanced, ChargesKnown, LeaksKnown, Reservations
<1> QED
  BY <1>4, <1>5, <1>6, <1>7, <1>8 DEF Inv

(* A test carries its mark before anything is reserved or called for it. *)
LEMMA MarkStep ==
  ASSUME NEW w, Workers = {w}, Inv(w), Mark(w)
  PROVE  Inv(w)'
<1> USE DEF ledger, history, Commit
<1>1. PICK r : r = Current(w) /\ r \in batch[w] /\ r \in Requests
  BY CurrentHeld DEF Inv, Idle, Mark
<1>2. /\ step[w] = "next" /\ r \in Tests
      /\ attempts' = [attempts EXCEPT ![r] = seen[w][r] + 1]
      /\ marked' = marked \cup {r} /\ step' = [step EXCEPT ![w] = "marked"]
      /\ locked' = [locked EXCEPT ![w] = {}]
      /\ UNCHANGED <<status, analyses, usage, spent, reserved, setting, batch, seen,
                     ended, calls, charged, broken, restarts>>
  BY <1>1 DEF Mark
<1>3. step'[w] = "marked" /\ \A q \in Requests \ Tests : attempts'[q] = attempts[q]
  BY <1>2 DEF Inv, TypeOK
<1>4. seen[w][r] \in Nat
  BY <1>1 DEF Inv, TypeOK
<1>5. TypeOK'
  BY <1>1, <1>2, <1>4 DEF Inv, TypeOK
<1>6. Holding(w)'
  BY <1>1, <1>2, <1>3 DEF Inv, Holding
<1>7. TestsHeld(w)'
  BY <1>1, <1>2, <1>3 DEF Inv, TestsHeld, Current
<1>8. CallsCounted(w)'
  <2>1. \A q : ~At(w, q, {"settle"}) /\ ~At(w, q, {"settle", "settled"})
    BY <1>2 DEF At
  <2>2. \A q : ~At(w, q, {"settle"})' /\ ~At(w, q, {"settle", "settled"})'
    BY <1>3 DEF At
  <2> QED
    BY <1>2, <1>3, <2>1, <2>2 DEF Inv, CallsCounted
<1>9. ChargesKnown(w)' /\ LeaksKnown(w)' /\ LedgerBalanced'
  BY <1>2, <1>3 DEF Inv, LedgerBalanced, ChargesKnown, LeaksKnown, Reservations
<1> QED
  BY <1>5, <1>6, <1>7, <1>8, <1>9 DEF Inv

(* One more reservation is set aside: n times MaxCost becomes n + 1 times. *)
LEMMA Multiples ==
  ASSUME NEW n \in Nat
  PROVE  /\ MaxCost * n \in Nat
         /\ MaxCost * (n + 1) = MaxCost * n + MaxCost
         /\ n >= 1 => MaxCost * (n - 1) = MaxCost * n - MaxCost /\ MaxCost * n >= MaxCost
  OBVIOUS

(* A reservation is made within the budget, or the one of a call that was  *)
(* cut short is used again.                                                *)
LEMMA ReserveStep ==
  ASSUME NEW w, Workers = {w}, Inv(w), Reserve(w)
  PROVE  Inv(w)'
<1> USE DEF requestRows, history, Commit
<1>1. PICK r : r = Current(w) /\ r \in batch[w] /\ r \in Requests
  BY CurrentHeld DEF Inv, Idle, Reserve, AtReserve
<1>2. /\ step[w] = (IF r \in Tests THEN "marked" ELSE "next")
      /\ step' = [step EXCEPT ![w] = "call"]
      /\ UNCHANGED <<status, marked, attempts, analyses, spent, setting, batch, seen,
                     ended, calls, charged, broken, restarts>>
  BY <1>1 DEF Reserve, AtReserve
<1>3. step'[w] = "call"
  BY <1>2 DEF Inv, TypeOK
<1>4. \/ /\ usage[r] = "none" /\ Affordable /\ reserved' = reserved + MaxCost
         /\ usage' = [usage EXCEPT ![r] = "RESERVED"]
         /\ locked' = [locked EXCEPT ![w] = {}]
      \/ usage[r] = "RESERVED" /\ UNCHANGED <<reserved, usage, locked>>
  BY <1>1 DEF Reserve
<1>5. TypeOK'
  BY <1>1, <1>2, <1>4 DEF Inv, TypeOK
<1>6. Holding(w)'
  <2>1. usage'[r] = "RESERVED"
    BY <1>1, <1>4 DEF Inv, TypeOK
  <2> QED
    BY <1>1, <1>2, <1>3, <2>1 DEF Inv, Holding, Current
<1>7. TestsHeld(w)'
  BY <1>1, <1>2, <1>3 DEF Inv, TestsHeld, Current
<1>8. CallsCounted(w)'
  <2>1. \A q : ~At(w, q, {"settle"}) /\ ~At(w, q, {"settle", "settled"})
    BY <1>2 DEF At
  <2>2. \A q : ~At(w, q, {"settle"})' /\ ~At(w, q, {"settle", "settled"})'
    BY <1>3 DEF At
  <2> QED
    BY <1>2, <2>1, <2>2 DEF Inv, CallsCounted
<1>9. ChargesKnown(w)'
  BY <1>2, <1>3 DEF Inv, ChargesKnown
<1>10. LedgerBalanced' /\ LeaksKnown(w)'
  <2>1. /\ spent \in Nat /\ reserved \in Nat /\ restarts \in Nat
    BY DEF Inv, TypeOK
  <2>2. PICK n \in Nat : n = Cardinality(Reservations)
    BY ReservationsFinite
  <2>3. reserved = MaxCost * n /\ spent + reserved <= Budget /\ n <= restarts
    BY <1>2, <2>1, <2>2 DEF Inv, LedgerBalanced, LeaksKnown
  <2>4. CASE /\ usage[r] = "none" /\ Affordable /\ reserved' = reserved + MaxCost
             /\ usage' = [usage EXCEPT ![r] = "RESERVED"]
    <3>1. Cardinality(Reservations)' = n + 1
      BY <1>1, <2>2, <2>4, OneMoreReservation DEF Inv
    <3>2. reserved' = MaxCost * (n + 1)
      BY <2>3, <2>4, Multiples
    <3>3. spent' + reserved' <= Budget
      BY <1>2, <2>1, <2>4 DEF Affordable
    <3> QED
      BY <1>2, <1>3, <2>1, <2>3, <3>1, <3>2, <3>3 DEF LedgerBalanced, LeaksKnown
  <2>5. CASE UNCHANGED <<reserved, usage>>
    <3>1. Cardinality(Reservations)' = n
      BY <2>2, <2>5 DEF Reservations
    <3> QED
      BY <1>2, <1>3, <2>1, <2>3, <2>5, <3>1 DEF LedgerBalanced, LeaksKnown
  <2> QED
    BY <1>4, <2>4, <2>5
<1> QED
  BY <1>5, <1>6, <1>7, <1>8, <1>9, <1>10 DEF Inv

(* The provider is called once; a call that breaks off counts as broken. *)
LEMMA CallStep ==
  ASSUME NEW w, Workers = {w}, Inv(w), Call(w)
  PROVE  Inv(w)'
<1> USE DEF requestRows, ledger
<1>1. PICK r : r = Current(w) /\ r \in batch[w] /\ r \in Requests
  BY CurrentHeld DEF Inv, Idle, Call
<1>2. PICK end \in Ends :
        /\ ended' = [ended EXCEPT ![w] = end] /\ charged' = charged + end.cost
        /\ IF end.how = "broken" THEN broken' = broken + 1 ELSE broken' = broken
  BY DEF Call
<1>3. /\ step[w] = "call" /\ step' = [step EXCEPT ![w] = "settle"]
      /\ calls' = [calls EXCEPT ![r] = @ + 1]
      /\ seen' = IF r \in Tests THEN seen ELSE [seen EXCEPT ![w][r] = @ + 1]
      /\ UNCHANGED <<status, marked, attempts, analyses, usage, spent, reserved, setting,
                     batch, locked, restarts>>
  BY <1>1 DEF Call
<1>4. step'[w] = "settle" /\ ended'[w] = end
  BY <1>2, <1>3 DEF Inv, TypeOK
<1>5. \A q \in Requests : calls'[q] = IF q = r THEN calls[q] + 1 ELSE calls[q]
  BY <1>3 DEF Inv, TypeOK
<1>6. \A q \in Requests :
        seen'[w][q] = IF q = r /\ r \notin Tests THEN seen[w][q] + 1 ELSE seen[w][q]
  BY <1>1, <1>3 DEF Inv, TypeOK
<1>7. TypeOK'
  <2>1. seen' \in [Workers -> [Requests -> Nat]]
    BY <1>1, <1>3 DEF Inv, TypeOK
  <2>2. charged' \in Nat /\ broken' \in Nat
    BY <1>2, Costs DEF Inv, TypeOK
  <2>3. ended' \in [Workers -> Ends \cup {NoCall}]
    BY <1>2 DEF Inv, TypeOK
  <2>4. calls' \in [Requests -> Nat] /\ step' \in [Workers -> {"next", "marked", "call", "settle", "settled"}]
    BY <1>1, <1>3 DEF Inv, TypeOK
  <2> QED
    BY <1>3, <2>1, <2>2, <2>3, <2>4 DEF Inv, TypeOK
<1>8. Holding(w)'
  BY <1>3, <1>4 DEF Inv, Holding, Current
<1>9. TestsHeld(w)'
  <2>1. r \in Tests => calls[r] = 0 /\ r \in marked
    BY <1>1, <1>3 DEF Inv, TestsHeld
  <2> QED
    BY <1>1, <1>3, <1>4, <1>5, <2>1 DEF Inv, TestsHeld, Current
<1>10. CallsCounted(w)'
  <2>1. \A q : ~At(w, q, {"settle"}) /\ ~At(w, q, {"settle", "settled"})
    BY <1>3 DEF At
  <2>2. \A q : /\ At(w, q, {"settle"})' <=> q = r
              /\ At(w, q, {"settle", "settled"})' <=> q = r
    BY <1>1, <1>3, <1>4 DEF At, Current
  <2>3. /\ attempts \in [Requests -> Nat] /\ calls \in [Requests -> Nat] /\ restarts \in Nat
        /\ seen[w] \in [Requests -> Nat]
    BY DEF Inv, TypeOK
  <2>4. status[r] = "PENDING"
    BY <1>1 DEF Inv, Holding
  <2>5. ASSUME NEW q \in Requests \ Tests
        PROVE  /\ q \in batch[w] =>
                    seen'[w][q] = attempts[q] + (IF q = r THEN 1 ELSE 0)
               /\ calls'[q] <= attempts[q] + restarts + (IF q = r THEN 1 ELSE 0)
               /\ calls'[q] <= MaxAttempts + restarts
               /\ status[q] \in {"ABSENT", "PENDING"} /\ q # r
                    => calls'[q] < MaxAttempts + restarts
    <3>1. /\ q \in batch[w] => seen[w][q] = attempts[q] + 0
          /\ calls[q] <= attempts[q] + restarts + 0
          /\ calls[q] <= MaxAttempts + restarts
          /\ status[q] \in {"ABSENT", "PENDING"} => calls[q] < MaxAttempts + restarts
      BY <2>1 DEF Inv, CallsCounted
    <3>2. CASE q = r
      BY <1>1, <1>5, <1>6, <2>3, <2>4, <3>1, <3>2
    <3>3. CASE q # r
      BY <1>5, <1>6, <2>3, <3>1, <3>3
    <3> QED
      BY <3>2, <3>3
  <2>6. ASSUME NEW q \in Requests \ Tests
        PROVE  /\ (q \in batch[w] =>
                     seen[w][q] = attempts[q] + (IF At(w, q, {"settle"}) THEN 1 ELSE 0))'
               /\ (calls[q] <= attempts[q] + restarts + (IF At(w, q, {"settle"}) THEN 1 ELSE 0))'
               /\ (calls[q] <= MaxAttempts + restarts)'
               /\ (status[q] \in {"ABSENT", "PENDING"} /\ ~At(w, q, {"settle", "settled"})
                     => calls[q] < MaxAttempts + restarts)'
    <3>1. CASE q = r
      <4>1. At(w, q, {"settle"})' /\ At(w, q, {"settle", "settled"})'
        BY <2>2, <3>1
      <4> QED
        BY <1>3, <2>5, <3>1, <4>1
    <3>2. CASE q # r
      <4>1. ~At(w, q, {"settle"})' /\ ~At(w, q, {"settle", "settled"})'
        BY <1>1, <1>3, <3>2 DEF At, Current
      <4> QED
        BY <1>3, <2>5, <3>2, <4>1
    <3> QED
      BY <3>1, <3>2
  <2> QED
    BY <2>6 DEF CallsCounted
<1>11. ChargesKnown(w)'
  <2>1. /\ spent \in Nat /\ charged \in Nat /\ broken \in Nat /\ restarts \in Nat
    BY DEF Inv, TypeOK
  <2>2. PICK b \in Nat, c \in 0 .. MaxCost, k \in 0 .. MaxCost :
          b = broken + restarts /\ c = end.cost /\ k = Charge(end)
    BY <2>1, Costs
  <2>3. charged <= spent + MaxCost * b
    BY <1>3, <2>1, <2>2, Multiples DEF Inv, ChargesKnown
  <2>4. CASE end.how = "broken"
    <3>1. broken' + restarts = b + 1
      BY <1>2, <2>1, <2>2, <2>4
    <3>2. charged + c <= spent + MaxCost * (b + 1) + k
      BY <2>1, <2>2, <2>3, Multiples
    <3> QED
      BY <1>2, <1>3, <1>4, <2>2, <3>1, <3>2 DEF ChargesKnown
  <2>5. CASE end.how # "broken"
    <3>1. broken' + restarts = b /\ c <= k
      BY <1>2, <2>2, <2>5, Costs
    <3>2. charged + c <= spent + MaxCost * b + k
      BY <2>1, <2>2, <2>3, <3>1, Multiples
    <3> QED
      BY <1>2, <1>3, <1>4, <2>2, <3>1, <3>2 DEF ChargesKnown
  <2> QED
    BY <2>4, <2>5
<1>12. LedgerBalanced' /\ LeaksKnown(w)'
  BY <1>3, <1>4 DEF Inv, LedgerBalanced, LeaksKnown, Reservations
<1> QED
  BY <1>7, <1>8, <1>9, <1>10, <1>11, <1>12 DEF Inv

(* What was reserved is settled: charged, or given back with the row.  The *)
(* attempt is counted in the same commit.                                  *)
LEMMA SettleStep ==
  ASSUME NEW w, Workers = {w}, Inv(w), Settle(w)
  PROVE  Inv(w)'
<1> USE DEF history, Commit
<1>1. PICK r : r = Current(w) /\ r \in batch[w] /\ r \in Requests
  BY CurrentHeld DEF Inv, Idle, Settle
<1>2. PICK u : u = UsageAfter(ended[w])
  OBVIOUS
<1>3. PICK k : k = Charge(ended[w])
  OBVIOUS
<1>4. /\ u \in {"none", "COMPLETED", "INVALID_RESULT", "UNKNOWN"}
      /\ k \in 0 .. MaxCost
  BY <1>2, <1>3, Costs DEF Inv, TypeOK
<1>5. /\ step[w] = "settle" /\ step' = [step EXCEPT ![w] = "settled"]
      /\ reserved' = reserved - MaxCost /\ spent' = spent + k
      /\ usage' = [usage EXCEPT ![r] = u] /\ attempts' = CountedAttempts(w)
      /\ locked' = [locked EXCEPT ![w] = {}]
      /\ UNCHANGED <<status, marked, analyses, setting, batch, seen, ended,
                     calls, charged, broken, restarts>>
  BY <1>1, <1>2, <1>3 DEF Settle
<1>6. step'[w] = "settled"
  BY <1>5 DEF Inv, TypeOK
<1>7. usage[r] = "RESERVED"
  BY <1>1, <1>5 DEF Inv, Holding
<1>8. /\ attempts' \in [Requests -> Nat]
      /\ \A q \in Requests \ Tests :
           attempts'[q] = IF q = r THEN seen[w][q] ELSE attempts[q]
  BY <1>1, <1>5 DEF CountedAttempts, Inv, TypeOK
<1>9. LedgerBalanced' /\ LeaksKnown(w)' /\ reserved' \in Nat
  <2>1. /\ spent \in Nat /\ reserved \in Nat /\ restarts \in Nat
    BY DEF Inv, TypeOK
  <2>2. PICK n \in Nat : n = Cardinality(Reservations)
    BY ReservationsFinite
  <2>3. reserved = MaxCost * n /\ spent + reserved <= Budget /\ n <= restarts + 1
    BY <1>5, <2>1, <2>2 DEF Inv, LedgerBalanced, LeaksKnown
  <2>4. Cardinality(Reservations)' = n - 1 /\ n >= 1
    BY <1>1, <1>4, <1>5, <1>7, <2>2, OneReservationLess DEF Inv
  <2>5. reserved' = MaxCost * (n - 1) /\ reserved >= MaxCost
    BY <1>5, <2>3, <2>4, Multiples
  <2>6. spent' + reserved' <= Budget /\ reserved' \in Nat
    BY <1>4, <1>5, <2>1, <2>3, <2>5
  <2> QED
    BY <1>5, <1>6, <2>1, <2>3, <2>4, <2>5, <2>6 DEF LedgerBalanced, LeaksKnown
<1>10. TypeOK'
  <2>1. spent' \in Nat
    BY <1>4, <1>5 DEF Inv, TypeOK
  <2> QED
    BY <1>1, <1>4, <1>5, <1>8, <1>9, <2>1 DEF Inv, TypeOK
<1>11. Holding(w)'
  BY <1>1, <1>5, <1>6 DEF Inv, Holding
<1>12. TestsHeld(w)'
  BY <1>1, <1>5, <1>6 DEF Inv, TestsHeld, Current
<1>13. CallsCounted(w)'
  <2>1. \A q : At(w, q, {"settle"}) <=> q = r
    BY <1>1, <1>5 DEF At
  <2>2. \A q : At(w, q, {"settle", "settled"}) <=> q = r
    BY <1>1, <1>5 DEF At
  <2>3. \A q : ~At(w, q, {"settle"})'
    BY <1>6 DEF At
  <2>4. \A q : q # r => ~At(w, q, {"settle", "settled"})'
    BY <1>1, <1>5 DEF At, Current
  <2>5. At(w, r, {"settle", "settled"})'
    BY <1>1, <1>5, <1>6 DEF At, Current
  <2>6. /\ attempts \in [Requests -> Nat] /\ calls \in [Requests -> Nat]
        /\ restarts \in Nat /\ seen[w] \in [Requests -> Nat]
    BY DEF Inv, TypeOK
  <2>7. ASSUME NEW q \in Requests \ Tests
        PROVE  /\ q \in batch'[w] => seen'[w][q] = attempts'[q] + 0
               /\ calls'[q] <= attempts'[q] + restarts' + 0
               /\ calls'[q] <= MaxAttempts + restarts'
               /\ status'[q] \in {"ABSENT", "PENDING"} /\ q # r
                    => calls'[q] < MaxAttempts + restarts'
    <3>1. CASE q = r
      <4>1. /\ seen[w][q] = attempts[q] + 1
            /\ calls[q] <= attempts[q] + restarts + 1
            /\ calls[q] <= MaxAttempts + restarts
        BY <1>1, <2>1, <3>1 DEF Inv, CallsCounted
      <4> QED
        BY <1>5, <1>8, <2>6, <3>1, <4>1
    <3>2. CASE q # r
      <4>1. ~At(w, q, {"settle"}) /\ ~At(w, q, {"settle", "settled"})
        BY <1>1, <3>2 DEF At
      <4>2. /\ q \in batch[w] => seen[w][q] = attempts[q] + 0
            /\ calls[q] <= attempts[q] + restarts + 0
            /\ calls[q] <= MaxAttempts + restarts
            /\ status[q] \in {"ABSENT", "PENDING"} => calls[q] < MaxAttempts + restarts
        BY <4>1 DEF Inv, CallsCounted
      <4> QED
        BY <1>5, <1>8, <3>2, <4>2
    <3> QED
      BY <3>1, <3>2
  <2> QED
    BY <2>3, <2>5, <2>7 DEF CallsCounted
<1>14. ChargesKnown(w)'
  <2>1. PICK m : m = MaxCost * (broken + restarts)
    OBVIOUS
  <2>2. charged <= spent + m + k /\ m \in Int
    BY <1>3, <1>5, <2>1 DEF Inv, TypeOK, ChargesKnown
  <2>3. charged <= (spent + k) + m + 0
    BY <1>4, <2>2 DEF Inv, TypeOK
  <2> QED
    BY <1>5, <1>6, <2>1, <2>3 DEF ChargesKnown
<1> QED
  BY <1>9, <1>10, <1>11, <1>12, <1>13, <1>14 DEF Inv

(* After a call the request is settled, or may be tried again. *)
LEMMA FinishStep ==
  ASSUME NEW w, Workers = {w}, Inv(w), Finish(w)
  PROVE  Inv(w)'
<1>1. PICK r : r = Current(w) /\ r \in batch[w] /\ r \in Requests
  BY CurrentHeld DEF Inv, Idle, Finish
<1>2. PICK final : final = IF Usable(w) THEN "COMPLETED"
                           ELSE IF MayRetry(w) THEN status[Current(w)] ELSE "FAILED"
  OBVIOUS
<1>3. status[Current(w)] = "PENDING"
  BY <1>1 DEF Inv, Holding
<1>4. ~Idle(w) /\ step[w] = "settled" /\ Done(w, final) /\ UNCHANGED <<attempts, ledger, history>>
  BY <1>2 DEF Finish
<1>5. final \in {"PENDING", "COMPLETED", "FAILED"}
  BY <1>2, <1>3
<1>6. final = "PENDING" => Current(w) \notin Tests /\ seen[w][Current(w)] < MaxAttempts
  BY <1>2 DEF MayRetry
<1>7. analyses' \in SUBSET Requests
  BY <1>1 DEF Finish, Inv, TypeOK
<1> QED
  BY <1>4, <1>5, <1>6, <1>7, DoneStep

(* A request is refused, by its context or for its money. *)
LEMMA FailStep ==
  ASSUME NEW w, Workers = {w}, Inv(w), Reject(w) \/ Refuse(w)
  PROVE  Inv(w)'
<1>1. /\ ~Idle(w) /\ step[w] \in {"next", "marked"} /\ Done(w, "FAILED")
      /\ UNCHANGED <<attempts, analyses, ledger, history>>
  BY DEF Reject, Refuse, AtReserve
<1>2. analyses' \in SUBSET Requests
  BY <1>1 DEF Inv, TypeOK
<1> QED
  BY <1>1, <1>2, DoneStep

(* A worker that dies gives up what it held: its call is not counted, its  *)
(* charge is not booked and its reservation stays, each at most once.      *)
LEMMA RestartStep ==
  ASSUME NEW w, Workers = {w}, Inv(w), Restart(w)
  PROVE  Inv(w)'
<1> USE DEF requestRows, ledger
<1>1. /\ batch' = [batch EXCEPT ![w] = {}] /\ locked' = [locked EXCEPT ![w] = {}]
      /\ step' = [step EXCEPT ![w] = "next"] /\ ended' = [ended EXCEPT ![w] = NoCall]
      /\ UNCHANGED <<status, marked, attempts, analyses, usage, spent, reserved, seen,
                     calls, charged, broken>>
  BY DEF Restart
<1>2. /\ batch'[w] = {} /\ step'[w] = "next"
  BY <1>1 DEF Inv, TypeOK
<1>3. /\ restarts \in Nat
      /\ restarts' = restarts + 1 \/ (restarts' = restarts /\ batch[w] = {} /\ step[w] = "next")
  BY DEF Restart, Idle, Inv, TypeOK, Holding
<1>4. TypeOK'
  <2>1. setting' \in [Workers -> Settings]
    BY DEF Restart, Inv, TypeOK
  <2>2. restarts' \in Nat
    BY <1>3
  <2> QED
    BY <1>1, <2>1, <2>2 DEF Inv, TypeOK
<1>5. Holding(w)' /\ TestsHeld(w)'
  BY <1>1, <1>2 DEF Inv, Holding, TestsHeld
<1>6. CallsCounted(w)'
  <2>1. \A q : ~At(w, q, {"settle"})' /\ ~At(w, q, {"settle", "settled"})'
    BY <1>2 DEF At
  <2>2. attempts \in [Requests -> Nat] /\ calls \in [Requests -> Nat]
    BY DEF Inv, TypeOK
  <2>3. ASSUME NEW q \in Requests \ Tests
        PROVE  /\ calls[q] <= attempts[q] + restarts' + 0
               /\ calls[q] <= MaxAttempts + restarts'
               /\ status[q] \in {"ABSENT", "PENDING"} => calls[q] < MaxAttempts + restarts'
    <3>1. CASE restarts' = restarts + 1
      <4>1. /\ calls[q] <= attempts[q] + restarts + (IF At(w, q, {"settle"}) THEN 1 ELSE 0)
            /\ calls[q] <= MaxAttempts + restarts
        BY DEF Inv, CallsCounted
      <4>2. calls[q] <= attempts[q] + restarts + 1
        BY <1>3, <2>2, <4>1
      <4> QED
        BY <1>3, <2>2, <3>1, <4>1, <4>2
    <3>2. CASE restarts' = restarts /\ batch[w] = {} /\ step[w] = "next"
      <4>1. ~At(w, q, {"settle"}) /\ ~At(w, q, {"settle", "settled"})
        BY <3>2 DEF At
      <4>2. /\ calls[q] <= attempts[q] + restarts + 0
            /\ calls[q] <= MaxAttempts + restarts
            /\ status[q] \in {"ABSENT", "PENDING"} => calls[q] < MaxAttempts + restarts
        BY <4>1 DEF Inv, CallsCounted
      <4> QED
        BY <3>2, <4>2
    <3> QED
      BY <1>3, <3>1, <3>2
  <2> QED
    BY <1>1, <1>2, <2>1, <2>3 DEF CallsCounted
<1>7. ChargesKnown(w)'
  <2>1. /\ spent \in Nat /\ charged \in Nat /\ broken \in Nat
    BY DEF Inv, TypeOK
  <2>2. PICK b \in Nat, k \in 0 .. MaxCost : b = broken + restarts /\ k = Charge(ended[w])
    BY <1>3, <2>1, Costs DEF Inv, TypeOK
  <2>3. charged <= spent + MaxCost * b + (IF step[w] = "settle" THEN k ELSE 0)
    BY <2>2 DEF Inv, ChargesKnown
  <2>4. CASE restarts' = restarts + 1
    <3>1. broken + restarts' = b + 1
      BY <1>3, <2>1, <2>2, <2>4
    <3>2. charged <= spent + MaxCost * (b + 1) + 0
      BY <2>1, <2>2, <2>3, Multiples
    <3> QED
      BY <1>1, <1>2, <3>1, <3>2 DEF ChargesKnown
  <2>5. CASE restarts' = restarts /\ step[w] = "next"
    <3>1. broken' + restarts' = b
      BY <1>1, <2>2, <2>5
    <3> QED
      BY <1>1, <1>2, <2>3, <2>5, <3>1 DEF ChargesKnown
  <2> QED
    BY <1>3, <2>4, <2>5
<1>8. LedgerBalanced' /\ LeaksKnown(w)'
  <2>1. PICK n \in Nat : n = Cardinality(Reservations) /\ Cardinality(Reservations)' = n
    BY <1>1, ReservationsFinite DEF Reservations
  <2>2. n <= restarts'
    BY <1>3, <2>1 DEF Inv, LeaksKnown
  <2> QED
    BY <1>1, <1>2, <1>3, <2>1, <2>2 DEF Inv, LedgerBalanced, LeaksKnown
<1> QED
  BY <1>4, <1>5, <1>6, <1>7, <1>8 DEF Inv

(* Every step of the worker and of the queue keeps the invariant. *)
LEMMA StepInv ==
  ASSUME NEW w, Workers = {w}, Inv(w), [Next]_vars
  PROVE  Inv(w)'
<1>1. CASE UNCHANGED vars
  <2>1. /\ UNCHANGED <<status, marked, attempts, analyses, usage, spent, reserved, setting,
                       batch, locked, step, seen, ended, calls, charged, broken, restarts>>
    BY <1>1 DEF vars, requestRows, ledger, worker, history
  <2>2. TypeOK' /\ Holding(w)' /\ TestsHeld(w)'
    BY <2>1 DEF Inv, TypeOK, Holding, TestsHeld, Current
  <2>3. CallsCounted(w)'
    BY <2>1 DEF Inv, CallsCounted, At, Current
  <2>4. LedgerBalanced' /\ ChargesKnown(w)' /\ LeaksKnown(w)'
    BY <2>1 DEF Inv, LedgerBalanced, ChargesKnown, LeaksKnown, Reservations
  <2> QED
    BY <2>2, <2>3, <2>4 DEF Inv
<1>2. ASSUME NEW r \in Requests, Queue(r) PROVE Inv(w)'
  BY <1>2, QueueStep
<1>3. CASE SettleAll(w)
  BY <1>3, SettleAllStep
<1>4. CASE Claim(w)
  BY <1>4, ClaimStep
<1>5. CASE Reject(w) \/ Refuse(w)
  BY <1>5, FailStep
<1>6. CASE Mark(w)
  BY <1>6, MarkStep
<1>7. CASE Reserve(w)
  BY <1>7, ReserveStep
<1>8. CASE Call(w)
  BY <1>8, CallStep
<1>9. CASE Settle(w)
  BY <1>9, SettleStep
<1>10. CASE Finish(w)
  BY <1>10, FinishStep
<1>11. CASE Restart(w)
  BY <1>11, RestartStep
<1> QED
  BY <1>1, <1>2, <1>3, <1>4, <1>5, <1>6, <1>7, <1>8, <1>9, <1>10, <1>11 DEF Next

(* The inductive invariant holds in every state. *)
LEMMA Invariance ==
  ASSUME NEW w, Workers = {w}
  PROVE  Spec => []Inv(w)
<1>1. Init => Inv(w)
  BY InitInv
<1>2. Inv(w) /\ [Next]_vars => Inv(w)'
  BY StepInv
<1> QED
  BY <1>1, <1>2, PTL DEF Spec

(* The tables and the worker hold only what the program can put there:     *)
(* process_pending, reserve, reconcile and release keep their types, and   *)
(* no amount of the ledger is ever negative.                               *)
THEOREM TypeCorrect ==
  ASSUME OneWorker
  PROVE  Spec => []TypeOK
<1>1. PICK w : Workers = {w}
  BY DEF OneWorker
<1>2. Inv(w) => TypeOK
  BY DEF Inv
<1> QED
  BY <1>1, <1>2, Invariance, PTL

(* Wherever a worker dies between the commits of ai_budget.py, each open   *)
(* row of ai_usage is set aside once in the month, and what is spent and   *)
(* set aside together stays within the monthly budget.                     *)
THEOREM LedgerStaysBalanced ==
  ASSUME OneWorker
  PROVE  Spec => []LedgerBalanced
<1>1. PICK w : Workers = {w}
  BY DEF OneWorker
<1>2. Inv(w) => LedgerBalanced
  BY DEF Inv
<1> QED
  BY <1>1, <1>2, Invariance, PTL

(* The ledger accounts for all that the provider charged, but for at most  *)
(* one reservation for each call that broke off (release gives its money   *)
(* back) and each restart (nothing books the charge).                      *)
THEOREM ChargesAccounted ==
  ASSUME OneWorker
  PROVE  Spec => []ChargesCovered
<1>1. PICK w : Workers = {w}
  BY DEF OneWorker
<1>2. Inv(w) => ChargesCovered
  <2> SUFFICES ASSUME Inv(w) PROVE ChargesCovered
    OBVIOUS
  <2>1. /\ spent \in Nat /\ charged \in Nat /\ broken \in Nat /\ restarts \in Nat
        /\ reserved \in Nat
    BY DEF Inv, TypeOK
  <2>0. ended[w] \in Ends \cup {NoCall}
    BY <1>1 DEF Inv, TypeOK
  <2>2. PICK b \in Nat, k \in 0 .. MaxCost : b = broken + restarts /\ k = Charge(ended[w])
    BY <2>1, <2>0, Costs
  <2>3. charged <= spent + MaxCost * b + (IF step[w] = "settle" THEN k ELSE 0)
    BY <2>2 DEF Inv, ChargesKnown
  <2>4. MaxCost * b \in Nat
    BY <2>2, Multiples
  <2>5. CASE step[w] = "settle"
    <3>1. Current(w) \in Requests /\ usage[Current(w)] = "RESERVED"
      BY <1>1, <2>5, CurrentHeld DEF Inv, Holding
    <3>2. PICK n \in Nat : n = Cardinality(Reservations)
      BY ReservationsFinite
    <3>3. n # 0
      BY <3>1, <3>2, ReservationsFinite, FS_EmptySet DEF Reservations
    <3>4. reserved >= MaxCost
      BY <3>2, <3>3, Multiples DEF Inv, LedgerBalanced
    <3> QED
      BY <2>1, <2>2, <2>3, <2>4, <2>5, <3>4 DEF ChargesCovered
  <2>6. CASE step[w] # "settle"
    BY <2>1, <2>2, <2>3, <2>4, <2>6 DEF ChargesCovered
  <2> QED
    BY <2>5, <2>6
<1> QED
  BY <1>1, <1>2, Invariance, PTL

(* The mark that a test request gets before its reservation keeps the      *)
(* provider from being called for it twice, a restart at any step or not.  *)
THEOREM TestsAreCalledOnce ==
  ASSUME OneWorker
  PROVE  Spec => []TestsCalledOnce
<1>1. PICK w : Workers = {w}
  BY DEF OneWorker
<1>2. Inv(w) => TestsCalledOnce
  <2> SUFFICES ASSUME Inv(w), NEW r \in Tests PROVE calls[r] <= 1
    BY DEF TestsCalledOnce
  <2>1. calls[r] = 0 \/ calls[r] = 1
    BY DEF Inv, TestsHeld
  <2> QED
    BY <2>1
<1> QED
  BY <1>1, <1>2, Invariance, PTL

(* The attempts that settling stores bound the calls of a request by       *)
(* analysis_max_attempts, and by one more for every restart, after which   *)
(* the last call may not be on record.                                     *)
THEOREM CallsAreBounded ==
  ASSUME OneWorker
  PROVE  Spec => []CallsBounded
<1>1. PICK w : Workers = {w}
  BY DEF OneWorker
<1>2. Inv(w) => CallsBounded
  BY DEF Inv, CallsCounted, CallsBounded
<1> QED
  BY <1>1, <1>2, Invariance, PTL

(* A request that is settled leaves no reservation behind, unless the      *)
(* worker died between reserve and the commit after the call.              *)
THEOREM OnlyRestartsLeak ==
  ASSUME OneWorker
  PROVE  Spec => []LeaksAreRestarts
<1>1. PICK w : Workers = {w}
  BY DEF OneWorker
<1>2. Inv(w) => LeaksAreRestarts
  <2> SUFFICES ASSUME Inv(w) PROVE LeaksAreRestarts
    OBVIOUS
  <2>1. PICK L : L = {r \in Reservations : status[r] # "PENDING"}
    OBVIOUS
  <2>2. L \subseteq Reservations /\ IsFiniteSet(Reservations)
    BY <2>1, ReservationsFinite
  <2>3. IsFiniteSet(L) /\ Cardinality(L) \in Nat /\ Cardinality(L) <= Cardinality(Reservations)
    BY <2>2, FS_Subset, FS_CardinalityType
  <2>4. Cardinality(Reservations) \in Nat /\ restarts \in Nat
    BY ReservationsFinite DEF Inv, TypeOK
  <2>5. CASE step[w] \in {"call", "settle"}
    <3>1. Current(w) \in batch[w] /\ Current(w) \in Requests
      BY <1>1, <2>5, CurrentHeld DEF Inv, Holding
    <3>2. Current(w) \in Reservations /\ status[Current(w)] = "PENDING"
      BY <2>5, <3>1 DEF Inv, Holding, Reservations
    <3>3. L \subseteq Reservations \ {Current(w)}
      BY <2>1, <3>2
    <3>4. /\ IsFiniteSet(Reservations \ {Current(w)})
          /\ Cardinality(Reservations \ {Current(w)}) = Cardinality(Reservations) - 1
      BY <2>2, <3>2, FS_RemoveElement
    <3>5. Cardinality(L) <= Cardinality(Reservations \ {Current(w)})
      BY <3>3, <3>4, FS_Subset
    <3>6. Cardinality(Reservations) <= restarts + 1
      BY <2>5 DEF Inv, LeaksKnown
    <3> QED
      BY <2>1, <2>3, <2>4, <3>4, <3>5, <3>6 DEF LeaksAreRestarts
  <2>6. CASE step[w] \notin {"call", "settle"}
    <3>1. Cardinality(Reservations) <= restarts + 0
      BY <2>6 DEF Inv, LeaksKnown
    <3> QED
      BY <2>1, <2>3, <2>4, <3>1 DEF LeaksAreRestarts
  <2> QED
    BY <2>5, <2>6
<1> QED
  BY <1>1, <1>2, Invariance, PTL

=============================================================================
