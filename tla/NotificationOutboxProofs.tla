---------------------- MODULE NotificationOutboxProofs ----------------------
(***************************************************************************)
(* Proofs about NotificationOutbox with one worker, as it is deployed, for *)
(* any number of events, attempts and mishaps and any size of a batch.     *)
(***************************************************************************)
EXTENDS NotificationOutbox, WellFoundedInduction, TLAPS

USE OutboxAssumption

(* docker-compose.deploy.yml starts one notification worker. *)
OneWorker == \E w : Workers = {w}

(* What a worker holds is pending, and its copies are what the table says. *)
CopiesTrue ==
  \A w \in Workers :
    /\ \A e \in batch[w] : delivery[e] = "PENDING" /\ seen[w][e] = attempts[e]
    /\ outcome[w] # "none" => batch[w] # {}

UnderWay(e) == \E w \in Workers : outcome[w] = "sent" /\ e = Current(w)

(* A mail that left is on record, under way to it, or a mishap. *)
MailsAccounted ==
  /\ \A e \in Events :
       mails[e] <= mishaps[e] + (IF delivery[e] = "SENT" \/ UnderWay(e) THEN 1 ELSE 0)
  /\ \A e \in Events : delivery[e] = "SENT" \/ UnderWay(e) => mails[e] > 0

Inv == TypeOK /\ CopiesTrue /\ MailsAccounted /\ RetriesBounded

(* The worker takes the oldest first.  A nonempty set of numbers has a least *)
(* one, which Min picks.                                                     *)
LEMMA MinIsLeast ==
  ASSUME NEW S \in SUBSET Nat, S # {}
  PROVE  Min(S) \in S /\ \A y \in S : Min(S) <= y
<1>1. PICK R : R = OpToRel(<, Nat)
  OBVIOUS
<1>2. \A x, y \in Nat : <<x, y>> \in R <=> x < y
  BY <1>1 DEF OpToRel
<1>3. PICK x \in S : \A y \in S : <<y, x>> \notin R
  BY <1>1, NatLessThanWellFounded, WFMin
<1>4. ASSUME NEW y \in S PROVE x <= y
  <2>1. x \in Nat /\ y \in Nat /\ ~(y < x)
    BY <1>2, <1>3
  <2> QED
    BY <2>1
<1> QED
  BY <1>3, <1>4 DEF Min

(* The event a worker handles is one of its batch. *)
LEMMA CurrentInBatch ==
  ASSUME TypeOK, NEW w \in Workers, batch[w] # {}
  PROVE  Current(w) \in batch[w] /\ Current(w) \in Events
<1>1. batch[w] \subseteq Events /\ Events \subseteq Nat
  BY DEF TypeOK, Events
<1> QED
  BY <1>1, MinIsLeast DEF Current

(* What Record stores of an attempt. *)
LEMMA DeliveredStates ==
  ASSUME NEW count \in Nat \ {0}, NEW result \in {"sent", "failed"}, count <= MaxAttempts
  PROVE  LET d == Delivered(result, count, "PENDING")
         IN  /\ d \in {"PENDING", "SENT", "FAILED"}
             /\ d = "SENT" <=> result = "sent"
             /\ d = "PENDING" => count < MaxAttempts
             /\ d = "FAILED" => count = MaxAttempts
  BY DEF Delivered

(* No event is there yet. *)
LEMMA InitInv == Init => Inv
<1> SUFFICES ASSUME Init PROVE Inv
  OBVIOUS
<1>1. TypeOK
  BY DEF Init, TypeOK, Events
<1> QED
  BY <1>1 DEF Init, Inv, CopiesTrue, MailsAccounted, UnderWay, RetriesBounded

(* The first commit of the queueing transaction shows a new event. *)
LEMMA EnqueueStep ==
  ASSUME Inv, NEW e \in Events, Enqueue(e)
  PROVE  Inv'
<1>1. /\ delivery[e] = "ABSENT" /\ delivery' = [delivery EXCEPT ![e] = "PENDING"]
      /\ UNCHANGED <<attempts, configured, batch, seen, locked, outcome, mails, mishaps>>
  BY DEF Enqueue, claims
<1>2. \A f \in Events : delivery'[f] = IF f = e THEN "PENDING" ELSE delivery[f]
  BY <1>1 DEF Inv, TypeOK
<1>3. TypeOK'
  BY <1>1 DEF Inv, TypeOK
<1>4. CopiesTrue'
  BY <1>1, <1>2 DEF Inv, TypeOK, CopiesTrue
<1>5. MailsAccounted'
  BY <1>1, <1>2 DEF Inv, MailsAccounted, UnderWay, Current
<1>6. RetriesBounded'
  BY <1>1, <1>2 DEF Inv, RetriesBounded
<1> QED
  BY <1>3, <1>4, <1>5, <1>6 DEF Inv

(* A worker claims pending events and reads their attempts. *)
LEMMA ClaimStep ==
  ASSUME Inv, NEW w \in Workers, Claim(w)
  PROVE  Inv'
<1>1. PICK S : S = Oldest(Claimable, Limit)
  OBVIOUS
<1>2. S \subseteq Events /\ \A e \in S : delivery[e] = "PENDING"
  BY <1>1 DEF Oldest, Claimable
<1>3. /\ batch' = [batch EXCEPT ![w] = S] /\ locked' = [locked EXCEPT ![w] = S]
      /\ seen' = [seen EXCEPT ![w] = attempts] /\ outcome[w] = "none"
      /\ UNCHANGED <<delivery, attempts, configured, outcome, mails, mishaps>>
  BY <1>1 DEF Claim, rows
<1>4. TypeOK'
  BY <1>2, <1>3 DEF Inv, TypeOK
<1>5. CopiesTrue'
  BY <1>2, <1>3 DEF Inv, TypeOK, CopiesTrue
<1>6. \A e : UnderWay(e)' <=> UnderWay(e)
  BY <1>3 DEF Inv, TypeOK, UnderWay, Current
<1>7. MailsAccounted'
  BY <1>3, <1>6 DEF Inv, MailsAccounted
<1>8. RetriesBounded'
  BY <1>3 DEF Inv, RetriesBounded
<1> QED
  BY <1>4, <1>5, <1>7, <1>8 DEF Inv

(* A mail leaves for an event that is neither SENT nor under way already. *)
LEMMA TryStep ==
  ASSUME Inv, NEW w, Workers = {w}, Try(w)
  PROVE  Inv'
<1>1. /\ batch[w] # {} /\ outcome[w] = "none"
      /\ UNCHANGED <<delivery, attempts, configured, batch, seen, locked>>
  BY DEF Try, rows, claims
<1>2. PICK e : /\ e = Current(w) /\ e \in batch[w] /\ e \in Events
  BY <1>1, CurrentInBatch DEF Inv
<1>3. delivery[e] = "PENDING" /\ mails[e] \in Nat /\ mishaps[e] \in Nat
  BY <1>2 DEF Inv, CopiesTrue, TypeOK
<1>4. \A f : ~UnderWay(f)
  BY <1>1 DEF UnderWay
<1>5. mails[e] <= mishaps[e]
  BY <1>2, <1>3, <1>4 DEF Inv, MailsAccounted
<1>6. \A f : UnderWay(f)' <=> outcome'[w] = "sent" /\ f = e
  BY <1>1, <1>2 DEF UnderWay, Current
<1>7. RetriesBounded'
  BY <1>1 DEF Inv, RetriesBounded
<1>8. \/ /\ outcome' = [outcome EXCEPT ![w] = "sent"]
         /\ mails' = [mails EXCEPT ![e] = @ + 1] /\ mishaps' = mishaps
      \/ /\ outcome' = [outcome EXCEPT ![w] = "failed"]
         /\ mails' = mails /\ mishaps' = mishaps
      \/ /\ outcome' = [outcome EXCEPT ![w] = "failed"]
         /\ mails' = [mails EXCEPT ![e] = @ + 1]
         /\ mishaps' = [mishaps EXCEPT ![e] = @ + 1]
  BY <1>2 DEF Try
<1>9. TypeOK'
  BY <1>1, <1>2, <1>8 DEF Inv, TypeOK
<1>10. CopiesTrue'
  BY <1>1 DEF Inv, CopiesTrue
<1>11. MailsAccounted'
  <2>1. CASE /\ outcome' = [outcome EXCEPT ![w] = "sent"]
             /\ mails' = [mails EXCEPT ![e] = @ + 1] /\ mishaps' = mishaps
    <3>1. outcome'[w] = "sent"
      BY <2>1 DEF Inv, TypeOK
    <3>2. \A f \in Events : mails'[f] = IF f = e THEN mails[e] + 1 ELSE mails[f]
      BY <2>1 DEF Inv, TypeOK
    <3> QED
      BY <1>1, <1>3, <1>4, <1>5, <1>6, <2>1, <3>1, <3>2 DEF Inv, MailsAccounted
  <2>2. CASE /\ outcome' = [outcome EXCEPT ![w] = "failed"]
             /\ mails' = mails /\ mishaps' = mishaps
    <3>1. outcome'[w] = "failed"
      BY <2>2 DEF Inv, TypeOK
    <3> QED
      BY <1>1, <1>4, <1>6, <2>2, <3>1 DEF Inv, MailsAccounted
  <2>3. CASE /\ outcome' = [outcome EXCEPT ![w] = "failed"]
             /\ mails' = [mails EXCEPT ![e] = @ + 1]
             /\ mishaps' = [mishaps EXCEPT ![e] = @ + 1]
    <3>1. outcome'[w] = "failed"
      BY <2>3 DEF Inv, TypeOK
    <3>2. \A f \in Events :
            /\ mails'[f] = IF f = e THEN mails[e] + 1 ELSE mails[f]
            /\ mishaps'[f] = IF f = e THEN mishaps[e] + 1 ELSE mishaps[f]
      BY <2>3 DEF Inv, TypeOK
    <3> QED
      BY <1>1, <1>3, <1>4, <1>5, <1>6, <3>1, <3>2 DEF Inv, MailsAccounted
  <2> QED
    BY <1>8, <2>1, <2>2, <2>3
<1> QED
  BY <1>7, <1>9, <1>10, <1>11 DEF Inv

(* The outcome is recorded for an event whose copy was true, so no attempt *)
(* is lost or counted twice.                                               *)
LEMMA RecordStep ==
  ASSUME Inv, NEW w, Workers = {w}, Record(w)
  PROVE  Inv'
<1>1. /\ outcome[w] \in {"sent", "failed"} /\ batch[w] # {}
      /\ UNCHANGED <<configured, seen, mails, mishaps>>
  BY DEF Record, Inv, TypeOK, CopiesTrue
<1>2. PICK e : /\ e = Current(w) /\ e \in batch[w] /\ e \in Events
  BY <1>1, CurrentInBatch DEF Inv
<1>3. /\ delivery[e] = "PENDING" /\ seen[w][e] = attempts[e]
      /\ attempts[e] \in Nat /\ attempts[e] < MaxAttempts
  BY <1>2 DEF Inv, CopiesTrue, TypeOK, RetriesBounded
<1>4. PICK n, d, o : n = attempts[e] + 1 /\ o = outcome[w] /\ d = Delivered(o, n, "PENDING")
  OBVIOUS
<1>5. /\ n \in Nat \ {0} /\ n <= MaxAttempts
      /\ d \in {"PENDING", "SENT", "FAILED"} /\ (d = "SENT" <=> o = "sent")
      /\ (d = "PENDING" => n < MaxAttempts) /\ (d = "FAILED" => n = MaxAttempts)
  <2>1. n \in Nat \ {0} /\ n <= MaxAttempts
    BY <1>3, <1>4
  <2> QED
    BY <1>1, <1>4, <2>1, DeliveredStates
<1>6. /\ attempts' = [attempts EXCEPT ![e] = n] /\ delivery' = [delivery EXCEPT ![e] = d]
      /\ batch' = [batch EXCEPT ![w] = batch[w] \ {e}]
      /\ locked' = [locked EXCEPT ![w] = {}] /\ outcome' = [outcome EXCEPT ![w] = "none"]
  BY <1>2, <1>3, <1>4 DEF Record, Counted
<1>7. \A f \in Events :
        /\ delivery'[f] = IF f = e THEN d ELSE delivery[f]
        /\ attempts'[f] = IF f = e THEN n ELSE attempts[f]
  BY <1>6 DEF Inv, TypeOK
<1>8. /\ batch'[w] = batch[w] \ {e} /\ outcome'[w] = "none" /\ batch[w] \subseteq Events
  BY <1>6 DEF Inv, TypeOK
<1>9. TypeOK'
  BY <1>1, <1>5, <1>6, <1>8 DEF Inv, TypeOK
<1>10. CopiesTrue'
  BY <1>1, <1>7, <1>8 DEF Inv, CopiesTrue
<1>11. MailsAccounted'
  <2>1. \A f \in Events : UnderWay(f) <=> o = "sent" /\ f = e
    BY <1>2, <1>4 DEF UnderWay
  <2>2. \A f \in Events : ~UnderWay(f)'
    BY <1>8 DEF UnderWay
  <2>3. \A f \in Events :
          (delivery'[f] = "SENT" \/ UnderWay(f)') <=> (delivery[f] = "SENT" \/ UnderWay(f))
    BY <1>3, <1>5, <1>7, <2>1, <2>2
  <2> QED
    BY <1>1, <2>3 DEF Inv, MailsAccounted
<1>12. RetriesBounded'
  BY <1>5, <1>7 DEF Inv, RetriesBounded
<1> QED
  BY <1>9, <1>10, <1>11, <1>12 DEF Inv

(* What a dead worker had mailed and not recorded is a mishap. *)
LEMMA RestartStep ==
  ASSUME Inv, NEW w, Workers = {w}, Restart(w)
  PROVE  Inv'
<1>1. UNCHANGED <<delivery, attempts, seen, mails>>
  BY DEF Restart, rows
<1>2. /\ batch' = [batch EXCEPT ![w] = {}] /\ locked' = [locked EXCEPT ![w] = {}]
      /\ outcome' = [outcome EXCEPT ![w] = "none"]
      /\ configured' \in [Workers -> BOOLEAN]
  BY DEF Restart, Inv, TypeOK
<1>3. batch'[w] = {} /\ outcome'[w] = "none"
  BY <1>2 DEF Inv, TypeOK
<1>4. CopiesTrue'
  BY <1>3 DEF CopiesTrue
<1>5. RetriesBounded'
  BY <1>1 DEF Inv, RetriesBounded
<1>6. \A f : ~UnderWay(f)'
  BY <1>3 DEF UnderWay
<1>7. CASE outcome[w] = "sent"
  <2>1. PICK e : /\ e = Current(w) /\ e \in batch[w] /\ e \in Events
    BY <1>7, CurrentInBatch DEF Inv, CopiesTrue
  <2>2. mishaps' = [mishaps EXCEPT ![e] = @ + 1]
    BY <1>7, <2>1 DEF Restart
  <2>3. TypeOK'
    BY <1>1, <1>2, <2>1, <2>2 DEF Inv, TypeOK
  <2>4. \A f \in Events : /\ mishaps'[f] = IF f = e THEN mishaps[e] + 1 ELSE mishaps[f]
                          /\ mishaps[f] \in Nat /\ mails[f] \in Nat
    BY <2>2 DEF Inv, TypeOK
  <2>5. \A f \in Events : UnderWay(f) <=> f = e
    BY <1>7, <2>1 DEF UnderWay
  <2>6. delivery[e] = "PENDING"
    BY <2>1 DEF Inv, CopiesTrue
  <2>7. MailsAccounted'
    BY <1>1, <1>6, <2>4, <2>5, <2>6 DEF Inv, MailsAccounted
  <2> QED
    BY <1>4, <1>5, <2>3, <2>7 DEF Inv
<1>8. CASE outcome[w] # "sent"
  <2>1. mishaps' = mishaps
    BY <1>8 DEF Restart
  <2>2. TypeOK'
    BY <1>1, <1>2, <2>1 DEF Inv, TypeOK
  <2>3. \A f : ~UnderWay(f)
    BY <1>8 DEF UnderWay
  <2>4. MailsAccounted'
    BY <1>1, <1>6, <2>1, <2>3 DEF Inv, MailsAccounted
  <2> QED
    BY <1>4, <1>5, <2>2, <2>4 DEF Inv
<1> QED
  BY <1>7, <1>8

(* Every step of the one worker and of the transactions that queue events. *)
LEMMA StepInv ==
  ASSUME OneWorker, Inv, [Next]_vars
  PROVE  Inv'
<1>1. PICK w : Workers = {w}
  BY DEF OneWorker
<1>2. CASE \E e \in Events : Enqueue(e)
  BY <1>2, EnqueueStep
<1>3. CASE Claim(w)
  BY <1>1, <1>3, ClaimStep
<1>4. CASE Try(w)
  BY <1>1, <1>4, TryStep
<1>5. CASE Record(w)
  BY <1>1, <1>5, RecordStep
<1>6. CASE Restart(w)
  BY <1>1, <1>6, RestartStep
<1>7. CASE UNCHANGED vars
  <2>1. UNCHANGED <<delivery, attempts, configured, batch, seen, locked, outcome, mails, mishaps>>
    BY <1>7 DEF vars, rows, claims
  <2>2. TypeOK' /\ CopiesTrue' /\ RetriesBounded'
    BY <2>1 DEF Inv, TypeOK, CopiesTrue, RetriesBounded
  <2>3. MailsAccounted'
    BY <2>1 DEF Inv, MailsAccounted, UnderWay, Current
  <2> QED
    BY <2>2, <2>3 DEF Inv
<1> QED
  BY <1>1, <1>2, <1>3, <1>4, <1>5, <1>6, <1>7 DEF Next

(* The invariant of the specification. *)
LEMMA Invariant ==
  ASSUME OneWorker
  PROVE  Spec => []Inv
<1>1. Inv /\ [Next]_vars => Inv'
  BY StepInv
<1> QED
  BY <1>1, InitInv, PTL DEF Spec

(* Every variable keeps its type. *)
THEOREM TypeCorrect ==
  ASSUME OneWorker
  PROVE  Spec => []TypeOK
<1>1. Inv => TypeOK
  BY DEF Inv
<1> QED
  BY <1>1, Invariant, PTL

(* What is SENT left at least once; no event is mailed twice but for a try *)
(* whose end the worker could not know.                                    *)
THEOREM MailIsOnRecord ==
  ASSUME OneWorker
  PROVE  Spec => []MailedAsRecorded
<1>1. Inv => MailedAsRecorded
  <2> SUFFICES ASSUME Inv PROVE MailedAsRecorded
    OBVIOUS
  <2>1. \A e \in Events : mails[e] \in Nat /\ mishaps[e] \in Nat
    BY DEF Inv, TypeOK
  <2> QED
    BY <2>1 DEF Inv, MailsAccounted, MailedAsRecorded
<1> QED
  BY <1>1, Invariant, PTL

(* An event is tried until a mail left or notification_max_attempts is     *)
(* reached, whatever the worker died in.                                   *)
THEOREM AttemptsBounded ==
  ASSUME OneWorker
  PROVE  Spec => []RetriesBounded
<1>1. Inv => RetriesBounded
  BY DEF Inv
<1> QED
  BY <1>1, Invariant, PTL

(* Nobody claims, mails or records an event again that is SENT or FAILED. *)
THEOREM OutcomesAreFinal ==
  ASSUME OneWorker
  PROVE  Spec => OutcomesFinal
<1> DEFINE Final(e) ==
      delivery[e] \in {"SENT", "FAILED"}
        => delivery'[e] = delivery[e] /\ attempts'[e] = attempts[e] /\ mails'[e] = mails[e]
<1>1. PICK w : Workers = {w}
  BY DEF OneWorker
<1>2. ASSUME Inv, [Next]_vars, NEW e \in Events PROVE Final(e)
  <2>1. CASE UNCHANGED <<delivery, attempts, mails>>
    BY <2>1
  <2>2. ASSUME NEW f \in Events, Enqueue(f) PROVE Final(e)
    BY <1>2, <2>2 DEF Enqueue, Inv, TypeOK
  <2>3. CASE Try(w) \/ Record(w)
    <3>1. batch[w] # {}
      BY <1>1, <1>2, <2>3 DEF Try, Record, Inv, CopiesTrue
    <3>2. PICK f : f = Current(w) /\ f \in batch[w] /\ f \in Events
      BY <1>1, <1>2, <3>1, CurrentInBatch DEF Inv
    <3>3. delivery[f] = "PENDING"
      BY <1>1, <1>2, <3>2 DEF Inv, CopiesTrue
    <3>4. CASE Try(w)
      <4>1. UNCHANGED <<delivery, attempts>>
        BY <3>4 DEF Try, rows
      <4>2. mails' = mails \/ mails' = [mails EXCEPT ![f] = @ + 1]
        BY <3>2, <3>4 DEF Try
      <4> QED
        BY <1>2, <3>3, <4>1, <4>2 DEF Inv, TypeOK
    <3>5. CASE Record(w)
      <4>1. /\ \E n : attempts' = [attempts EXCEPT ![f] = n]
            /\ \E d : delivery' = [delivery EXCEPT ![f] = d]
            /\ mails' = mails
        BY <3>2, <3>5 DEF Record
      <4> QED
        BY <1>2, <3>3, <4>1 DEF Inv, TypeOK
    <3> QED
      BY <2>3, <3>4, <3>5
  <2>4. CASE Claim(w) \/ Restart(w)
    BY <2>1, <2>4 DEF Claim, Restart, rows
  <2>5. CASE UNCHANGED vars
    BY <2>1, <2>5 DEF vars, rows
  <2> QED
    BY <1>1, <1>2, <2>2, <2>3, <2>4, <2>5 DEF Next
<1>3. Inv /\ [Next]_vars => [\A e \in Events : Final(e)]_vars
  BY <1>2
<1> QED
  BY <1>3, Invariant, PTL DEF Spec, OutcomesFinal

=============================================================================
