------------------------- MODULE NotificationOutbox -------------------------
(***************************************************************************)
(* Delivery of the notification outbox by mail: deliver_pending of         *)
(* backend/app/notifications.py, run over and over by every notification   *)
(* worker, against the mail server.  A worker claims the oldest pending    *)
(* events with row locks, and works on the copies it read; one commit per  *)
(* event stores the outcome, and the first commit gives up all the locks.  *)
(* An event is its position in the order of creation; the transactions     *)
(* that create events may commit in another order.                         *)
(***************************************************************************)
EXTENDS Integers, FiniteSets, FiniteSetsExt

CONSTANTS
  Workers,       \* the notification workers; the deployment runs one
  MaxAttempts,   \* notification_max_attempts
  Limit,         \* the limit of one batch
  MaxEvents,     \* bound: how many events there are
  MaxMishaps     \* bound: how many tries of an event end unknown to the worker

ASSUME OutboxAssumption ==
  /\ MaxAttempts \in Nat \ {0}
  /\ Limit \in Nat \ {0}
  /\ MaxEvents \in Nat
  /\ MaxMishaps \in Nat

Events == 1 .. MaxEvents

VARIABLES
  delivery,     \* per event its delivery state; ABSENT before it is committed
  attempts,     \* per event its attempt_count
  configured,   \* per worker, whether its settings name a mail server
  batch,        \* per worker, the claimed events it has still to handle
  seen,         \* per worker, the attempt counts it read when it claimed
  locked,       \* per worker, the rows its open transaction locks
  outcome,      \* per worker, how the try on its current event ended
  mails,        \* history: per event, how many mails left
  mishaps       \* history: per event, tries of which the worker could not know the end

rows == <<delivery, attempts>>
claims == <<batch, seen, locked>>
vars == <<rows, configured, claims, outcome, mails, mishaps>>

-----------------------------------------------------------------------------
Init ==
  /\ delivery = [e \in Events |-> "ABSENT"]
  /\ attempts = [e \in Events |-> 0]
  /\ configured \in [Workers -> BOOLEAN]
  /\ batch = [w \in Workers |-> {}]
  /\ seen = [w \in Workers |-> attempts]
  /\ locked = [w \in Workers |-> {}]
  /\ outcome = [w \in Workers |-> "none"]
  /\ mails = [e \in Events |-> 0]
  /\ mishaps = [e \in Events |-> 0]

(* A transaction that queued the event commits. *)
Enqueue(e) ==
  /\ delivery[e] = "ABSENT"
  /\ delivery' = [delivery EXCEPT ![e] = "PENDING"]
  /\ UNCHANGED <<attempts, configured, claims, outcome, mails, mishaps>>

(* A fault for the runs to find: failed events are claimed again. *)
ClaimableWithFailed ==
  {e \in Events : /\ delivery[e] \in {"PENDING", "FAILED"}
                  /\ \A w \in Workers : e \notin locked[w]}

(* What the query returns: pending rows nobody locks, oldest first. *)
Claimable == {e \in Events : delivery[e] = "PENDING" /\ \A w \in Workers : e \notin locked[w]}
Oldest(S, n) == {e \in S : Cardinality({f \in S : f < e}) < n}

Claim(w) ==
  /\ configured[w]
  /\ batch[w] = {} /\ outcome[w] = "none"
  /\ Claimable # {}
  /\ batch' = [batch EXCEPT ![w] = Oldest(Claimable, Limit)]
  /\ locked' = [locked EXCEPT ![w] = Oldest(Claimable, Limit)]
  /\ seen' = [seen EXCEPT ![w] = attempts]
  /\ UNCHANGED <<rows, configured, outcome, mails, mishaps>>

Current(w) == Min(batch[w])

(* One try: the mail leaves, or fails, or leaves although the worker gets  *)
(* an exception (a timeout after the mail was taken).                      *)
Try(w) ==
  /\ batch[w] # {} /\ outcome[w] = "none"
  /\ LET e == Current(w) IN
     \/ /\ outcome' = [outcome EXCEPT ![w] = "sent"]
        /\ mails' = [mails EXCEPT ![e] = @ + 1]
        /\ UNCHANGED mishaps
     \/ /\ outcome' = [outcome EXCEPT ![w] = "failed"]
        /\ UNCHANGED <<mails, mishaps>>
     \/ /\ mishaps[e] < MaxMishaps
        /\ outcome' = [outcome EXCEPT ![w] = "failed"]
        /\ mails' = [mails EXCEPT ![e] = @ + 1]
        /\ mishaps' = [mishaps EXCEPT ![e] = @ + 1]
  /\ UNCHANGED <<rows, configured, claims>>

(* Three faults for the runs to find: a state of its own for what is to be *)
(* retried; a sent mail that is not noted; one attempt too many.           *)
DeliveredRetryState(result, count, before) ==
  IF result = "sent" THEN "SENT"
  ELSE IF count >= MaxAttempts THEN "FAILED" ELSE "RETRY"

DeliveredUnnoted(result, count, before) ==
  IF result = "failed" /\ count >= MaxAttempts THEN "FAILED" ELSE before

DeliveredOneMore(result, count, before) ==
  IF result = "sent" THEN "SENT"
  ELSE IF count > MaxAttempts THEN "FAILED" ELSE before

(* SENT, or FAILED when this attempt was the last one allowed. *)
Delivered(result, count, before) ==
  IF result = "sent" THEN "SENT"
  ELSE IF count >= MaxAttempts THEN "FAILED" ELSE before

(* The attempt is counted on top of the count read with the claim, however *)
(* the try ended.  The fault for the runs to find: only a sent mail counts. *)
CountedIfSent(w, e) == seen[w][e] + (IF outcome[w] = "sent" THEN 1 ELSE 0)
Counted(w, e) == seen[w][e] + 1

(* The commit after a try stores the attempt and the outcome. *)
Record(w) ==
  /\ outcome[w] # "none"
  /\ LET e == Current(w) IN
     /\ \A v \in Workers \ {w} : e \notin locked[v]
     /\ attempts' = [attempts EXCEPT ![e] = Counted(w, e)]
     /\ delivery' = [delivery EXCEPT ![e] = Delivered(outcome[w], Counted(w, e), @)]
     /\ batch' = [batch EXCEPT ![w] = @ \ {e}]
  /\ locked' = [locked EXCEPT ![w] = {}]
  /\ outcome' = [outcome EXCEPT ![w] = "none"]
  /\ UNCHANGED <<configured, seen, mails, mishaps>>

(* The worker dies and is started again, possibly with other settings: its *)
(* transaction rolls back.  How a try ended that was not recorded is lost. *)
Restart(w) ==
  /\ IF outcome[w] = "sent"
     THEN /\ mishaps[Current(w)] < MaxMishaps
          /\ mishaps' = [mishaps EXCEPT ![Current(w)] = @ + 1]
     ELSE UNCHANGED mishaps
  /\ batch' = [batch EXCEPT ![w] = {}]
  /\ locked' = [locked EXCEPT ![w] = {}]
  /\ outcome' = [outcome EXCEPT ![w] = "none"]
  /\ \E setting \in BOOLEAN : configured' = [configured EXCEPT ![w] = setting]
  /\ UNCHANGED <<rows, seen, mails>>

Next ==
  \/ \E e \in Events : Enqueue(e)
  \/ \E w \in Workers : Claim(w) \/ Try(w) \/ Record(w) \/ Restart(w)

Spec == Init /\ [][Next]_vars

(* The worker's loop runs on; it may be restarted again and again, but not *)
(* during every try.                                                       *)
Fairness == \A w \in Workers : SF_vars(Claim(w)) /\ SF_vars(Try(w)) /\ SF_vars(Record(w))

FairSpec == Spec /\ Fairness
-----------------------------------------------------------------------------
TypeOK ==
  /\ delivery \in [Events -> {"ABSENT", "PENDING", "SENT", "FAILED"}]
  /\ attempts \in [Events -> Nat]
  /\ configured \in [Workers -> BOOLEAN]
  /\ batch \in [Workers -> SUBSET Events]
  /\ seen \in [Workers -> [Events -> Nat]]
  /\ locked \in [Workers -> SUBSET Events]
  /\ outcome \in [Workers -> {"none", "sent", "failed"}]
  /\ mails \in [Events -> Nat]
  /\ mishaps \in [Events -> Nat]

(* The outbox tells the truth about the mail: what is SENT left at least   *)
(* once, and no event is mailed twice unless the worker could not know how *)
(* a try of it ended.                                                      *)
MailedAsRecorded ==
  \A e \in Events :
    /\ delivery[e] = "SENT" => mails[e] > 0
    /\ mails[e] <= 1 + mishaps[e]

(* An event is tried until a mail left or the attempts are used up, and    *)
(* never once more than that.                                              *)
RetriesBounded ==
  \A e \in Events :
    /\ delivery[e] \in {"ABSENT", "PENDING"} => attempts[e] < MaxAttempts
    /\ delivery[e] = "SENT" => attempts[e] \in 1 .. MaxAttempts
    /\ delivery[e] = "FAILED" => attempts[e] = MaxAttempts

(* Sent and failed are final: nobody handles such an event again. *)
OutcomesFinal ==
  [][\A e \in Events :
       delivery[e] \in {"SENT", "FAILED"}
         => delivery'[e] = delivery[e] /\ attempts'[e] = attempts[e]
              /\ mails'[e] = mails[e]]_vars

(* While a mail server is configured now and then, no event stays pending  *)
(* for ever, although a batch takes only the oldest and failing events are *)
(* retried first.                                                          *)
EventsSettle ==
  (\A w \in Workers : []<>configured[w])
    => \A e \in Events : delivery[e] = "PENDING" ~> delivery[e] # "PENDING"
=============================================================================
