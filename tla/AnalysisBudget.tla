--------------------------- MODULE AnalysisBudget ---------------------------
(***************************************************************************)
(* The analysis worker and the AI budget: process_pending of               *)
(* backend/app/analysis.py with reserve, reconcile and release of          *)
(* backend/app/ai_budget.py.  A worker claims pending requests with row    *)
(* locks and works on the copies it read; every commit of its session      *)
(* gives up all its locks.  Money is counted in units, the budget is that  *)
(* of one month.                                                           *)
(***************************************************************************)
EXTENDS Integers, FiniteSets, FiniteSetsExt

CONSTANTS
  Workers,       \* the analysis workers; the deployment runs one
  MaxRequests,   \* bound: how many requests there are
  Tests,         \* the requests that the test harness queued
  MaxAttempts,   \* analysis_max_attempts
  Limit,         \* the limit of one batch
  Budget,        \* ai_monthly_budget_eur
  MaxCost,       \* what a reservation sets aside: no call costs more
  MaxBroken,     \* bound: how many calls break off
  MaxRestarts    \* bound: how often a worker dies while it holds requests

Requests == 1 .. MaxRequests

ASSUME BudgetAssumption ==
  /\ MaxRequests \in Nat /\ Tests \subseteq Requests
  /\ MaxAttempts \in Nat \ {0} /\ Limit \in Nat \ {0}
  /\ Budget \in Nat /\ MaxCost \in Nat
  /\ MaxBroken \in Nat /\ MaxRestarts \in Nat

VARIABLES
  status,     \* per request its status; ABSENT before it is committed
  marked,     \* the test requests that carry safe_error_code
  attempts,   \* per request its attempt_count
  analyses,   \* the requests that have an analysis
  usage,      \* per request the status of its ai_usage row, or none
  spent,      \* spent_eur of the month
  reserved,   \* reserved_eur of the month
  setting,    \* per worker: on, off (disabled), keyless or unpriced
  batch,      \* per worker, the claimed requests it has still to handle
  locked,     \* per worker, the rows its open transaction locks
  step,       \* per worker, how far it is with its current request
  seen,       \* per worker, the attempt counts of its copies
  ended,      \* per worker, how its provider call ended and at what cost
  calls,      \* history: per request, how many provider calls were made
  charged,    \* history: what the provider charged in all
  broken,     \* history: calls that broke off
  restarts    \* history: how often a worker died while it held requests

requestRows == <<status, marked, attempts, analyses>>
ledger == <<usage, spent, reserved>>
worker == <<setting, batch, locked, step, seen, ended>>
history == <<calls, charged, broken, restarts>>
vars == <<requestRows, ledger, worker, history>>

Settings == {"on", "off", "keyless", "unpriced"}

NoCall == [how |-> "none", cost |-> 0]

(* How a call can end: a valid result; a result that is useless but paid;  *)
(* one whose usage is missing, a timeout included; an HTTP error that may  *)
(* be retried or not; any other exception, a broken connection say.        *)
Paid == {"valid", "useless"}
Free == {"retryable", "fatal"}
Ends == [how : Paid \cup {"unmetered", "broken"}, cost : 0 .. MaxCost]
          \cup [how : Free, cost : {0}]

-----------------------------------------------------------------------------
Init ==
  /\ status = [r \in Requests |-> "ABSENT"]
  /\ marked = {}
  /\ attempts = [r \in Requests |-> 0]
  /\ analyses = {}
  /\ usage = [r \in Requests |-> "none"]
  /\ spent = 0
  /\ reserved = 0
  /\ setting \in [Workers -> Settings]
  /\ batch = [w \in Workers |-> {}]
  /\ locked = [w \in Workers |-> {}]
  /\ step = [w \in Workers |-> "next"]
  /\ seen = [w \in Workers |-> attempts]
  /\ ended = [w \in Workers |-> NoCall]
  /\ calls = [r \in Requests |-> 0]
  /\ charged = 0
  /\ broken = 0
  /\ restarts = 0

Idle(w) == batch[w] = {}
Current(w) == Min(batch[w])
Locked(r, w) == \E v \in Workers \ {w} : r \in locked[v]

(* A transaction that queued the request commits. *)
Queue(r) ==
  /\ status[r] = "ABSENT"
  /\ status' = [status EXCEPT ![r] = "PENDING"]
  /\ UNCHANGED <<marked, attempts, analyses, ledger, worker, history>>

(* Without a provider all pending requests are settled at once. *)
Pending == {r \in Requests : status[r] = "PENDING"}

SettleAll(w) ==
  /\ Idle(w)
  /\ setting[w] \in {"off", "keyless"}
  /\ \A r \in Pending : ~Locked(r, w)
  /\ status' = [r \in Requests |->
       IF r \notin Pending THEN status[r]
       ELSE IF setting[w] = "off" THEN "DISABLED" ELSE "FAILED"]
  /\ marked' = marked \cup (Pending \cap Tests)
  /\ UNCHANGED <<attempts, analyses, ledger, worker, history>>

(* Two faults for the runs to find: the mark of a claimed test is ignored; *)
(* what was tried once is not claimed again.                               *)
ClaimableMarked == {r \in Pending : \A w \in Workers : r \notin locked[w]}

ClaimableUntried ==
  {r \in Pending \ marked : attempts[r] = 0 /\ \A w \in Workers : r \notin locked[w]}

(* The oldest pending requests that nobody locks and no test claimed. *)
Claimable == {r \in Pending \ marked : \A w \in Workers : r \notin locked[w]}
Oldest(S, n) == {r \in S : Cardinality({q \in S : q < r}) < n}

Claim(w) ==
  /\ Idle(w)
  /\ setting[w] \in {"on", "unpriced"}
  /\ Claimable # {}
  /\ batch' = [batch EXCEPT ![w] = Oldest(Claimable, Limit)]
  /\ locked' = [locked EXCEPT ![w] = Oldest(Claimable, Limit)]
  /\ seen' = [seen EXCEPT ![w] = attempts]
  /\ UNCHANGED <<requestRows, ledger, setting, step, ended, history>>

(* What a commit of w does to its locks. *)
Commit(w) == locked' = [locked EXCEPT ![w] = {}]

(* The current request gets its final status, or stays pending for a retry. *)
Done(w, final) ==
  /\ ~Locked(Current(w), w)
  /\ status' = [status EXCEPT ![Current(w)] = final]
  /\ marked' = marked \cup ({Current(w)} \cap Tests)
  /\ batch' = [batch EXCEPT ![w] = @ \ {Current(w)}]
  /\ step' = [step EXCEPT ![w] = "next"]
  /\ ended' = [ended EXCEPT ![w] = NoCall]
  /\ Commit(w)
  /\ UNCHANGED <<setting, seen>>

(* The context of the request is not valid. *)
Reject(w) ==
  /\ ~Idle(w) /\ step[w] = "next"
  /\ Done(w, "FAILED")
  /\ UNCHANGED <<attempts, analyses, ledger, history>>

(* A test request is claimed for good before the reservation. *)
Mark(w) ==
  /\ ~Idle(w) /\ step[w] = "next" /\ Current(w) \in Tests
  /\ ~Locked(Current(w), w)
  /\ attempts' = [attempts EXCEPT ![Current(w)] = seen[w][Current(w)] + 1]
  /\ marked' = marked \cup {Current(w)}
  /\ step' = [step EXCEPT ![w] = "marked"]
  /\ Commit(w)
  /\ UNCHANGED <<status, analyses, ledger, setting, batch, seen, ended, history>>

AtReserve(w) ==
  /\ ~Idle(w)
  /\ step[w] = (IF Current(w) \in Tests THEN "marked" ELSE "next")

(* A fault for the runs to find: what is reserved already is forgotten. *)
AffordableIfReservedForgotten == spent + MaxCost <= Budget
Affordable == spent + reserved + MaxCost <= Budget

(* The reservation is refused: no price, no budget left, or the call was   *)
(* paid already.                                                           *)
Refuse(w) ==
  /\ AtReserve(w)
  /\ \/ setting[w] = "unpriced"
     \/ usage[Current(w)] = "none" /\ ~Affordable
     \/ usage[Current(w)] \notin {"none", "RESERVED"}
  /\ Done(w, "FAILED")
  /\ UNCHANGED <<attempts, analyses, ledger, history>>

(* A new reservation is committed; one that is already there is used again *)
(* without a commit.                                                       *)
Reserve(w) ==
  /\ AtReserve(w)
  /\ setting[w] = "on"
  /\ \/ /\ usage[Current(w)] = "none"
        /\ Affordable
        /\ reserved' = reserved + MaxCost
        /\ usage' = [usage EXCEPT ![Current(w)] = "RESERVED"]
        /\ Commit(w)
     \/ /\ usage[Current(w)] = "RESERVED"
        /\ UNCHANGED <<reserved, usage, locked>>
  /\ step' = [step EXCEPT ![w] = "call"]
  /\ UNCHANGED <<requestRows, spent, setting, batch, seen, ended, history>>

(* The provider call, counted in the worker's copy only. *)
Call(w) ==
  /\ ~Idle(w) /\ step[w] = "call"
  /\ \E end \in Ends :
       /\ ended' = [ended EXCEPT ![w] = end]
       /\ charged' = charged + end.cost
       /\ IF end.how = "broken"
          THEN broken < MaxBroken /\ broken' = broken + 1
          ELSE UNCHANGED broken
  /\ calls' = [calls EXCEPT ![Current(w)] = @ + 1]
  /\ seen' = IF Current(w) \in Tests THEN seen
             ELSE [seen EXCEPT ![w][Current(w)] = @ + 1]
  /\ step' = [step EXCEPT ![w] = "settle"]
  /\ UNCHANGED <<requestRows, ledger, setting, batch, locked, restarts>>

(* What the ledger keeps of a call: its cost, or the whole reservation     *)
(* when its usage is missing.  The fault for the runs to find: a missing   *)
(* usage costs nothing.                                                    *)
ChargeIfMetered(end) == IF end.how \in Paid THEN end.cost ELSE 0

Charge(end) ==
  IF end.how \in Paid THEN end.cost
  ELSE IF end.how = "unmetered" THEN MaxCost ELSE 0

(* The row a call leaves in ai_usage: release deletes the row of a call    *)
(* that was not paid.  The fault for the runs to find: the row stays.      *)
UsageKept(end) ==
  IF end.how = "valid" THEN "COMPLETED"
  ELSE IF end.how = "useless" THEN "INVALID_RESULT"
  ELSE IF end.how = "unmetered" THEN "UNKNOWN" ELSE "RESERVED"

UsageAfter(end) ==
  IF end.how = "valid" THEN "COMPLETED"
  ELSE IF end.how = "useless" THEN "INVALID_RESULT"
  ELSE IF end.how = "unmetered" THEN "UNKNOWN" ELSE "none"

(* The attempts of the worker's copy, a test's being stored with its mark. *)
(* The fault for the runs to find: they are not stored.                    *)
UncountedAttempts(w) == attempts

CountedAttempts(w) ==
  IF Current(w) \in Tests THEN attempts
  ELSE [attempts EXCEPT ![Current(w)] = seen[w][Current(w)]]

(* reconcile for a call that was paid, release for one that was not.  The  *)
(* same commit stores the counted attempt.                                 *)
Settle(w) ==
  /\ ~Idle(w) /\ step[w] = "settle"
  /\ ~Locked(Current(w), w)
  /\ reserved' = reserved - MaxCost
  /\ spent' = spent + Charge(ended[w])
  /\ usage' = [usage EXCEPT ![Current(w)] = UsageAfter(ended[w])]
  /\ attempts' = CountedAttempts(w)
  /\ step' = [step EXCEPT ![w] = "settled"]
  /\ Commit(w)
  /\ UNCHANGED <<status, marked, analyses, setting, batch, seen, ended, history>>

(* The last commit for a request: its analysis, its failure, or a retry    *)
(* later.                                                                  *)
MayRetry(w) ==
  /\ ended[w].how \in {"retryable", "broken"}
  /\ Current(w) \notin Tests
  /\ seen[w][Current(w)] < MaxAttempts

Usable(w) == ended[w].how = "valid"

Finish(w) ==
  /\ ~Idle(w) /\ step[w] = "settled"
  /\ Done(w, IF Usable(w) THEN "COMPLETED"
             ELSE IF MayRetry(w) THEN status[Current(w)] ELSE "FAILED")
  /\ analyses' = IF Usable(w) THEN analyses \cup {Current(w)} ELSE analyses
  /\ UNCHANGED <<attempts, ledger, history>>

(* The worker dies and is started again, possibly with other settings. *)
Restart(w) ==
  /\ IF Idle(w) THEN UNCHANGED restarts
     ELSE restarts < MaxRestarts /\ restarts' = restarts + 1
  /\ \E new \in Settings : setting' = [setting EXCEPT ![w] = new]
  /\ batch' = [batch EXCEPT ![w] = {}]
  /\ locked' = [locked EXCEPT ![w] = {}]
  /\ step' = [step EXCEPT ![w] = "next"]
  /\ ended' = [ended EXCEPT ![w] = NoCall]
  /\ UNCHANGED <<requestRows, ledger, seen, calls, charged, broken>>

Next ==
  \/ \E r \in Requests : Queue(r)
  \/ \E w \in Workers :
       \/ SettleAll(w) \/ Claim(w) \/ Reject(w) \/ Mark(w) \/ Refuse(w) \/ Reserve(w)
       \/ Call(w) \/ Settle(w) \/ Finish(w) \/ Restart(w)

Spec == Init /\ [][Next]_vars

(* The worker's loop runs on, whatever its settings; it may be restarted   *)
(* again and again, but not before every step.                             *)
Fairness ==
  \A w \in Workers :
    /\ SF_vars(SettleAll(w)) /\ SF_vars(Claim(w)) /\ SF_vars(Mark(w) \/ Reject(w))
    /\ SF_vars(Refuse(w)) /\ SF_vars(Reserve(w)) /\ SF_vars(Call(w))
    /\ SF_vars(Settle(w)) /\ SF_vars(Finish(w))

FairSpec == Spec /\ Fairness
-----------------------------------------------------------------------------
TypeOK ==
  /\ status \in [Requests -> {"ABSENT", "PENDING", "COMPLETED", "FAILED", "DISABLED"}]
  /\ marked \in SUBSET Tests
  /\ attempts \in [Requests -> Nat]
  /\ analyses \in SUBSET Requests
  /\ usage \in [Requests -> {"none", "RESERVED", "COMPLETED", "INVALID_RESULT", "UNKNOWN"}]
  /\ spent \in Nat /\ reserved \in Nat
  /\ setting \in [Workers -> Settings]
  /\ batch \in [Workers -> SUBSET Requests]
  /\ locked \in [Workers -> SUBSET Requests]
  /\ step \in [Workers -> {"next", "marked", "call", "settle", "settled"}]
  /\ seen \in [Workers -> [Requests -> Nat]]
  /\ ended \in [Workers -> Ends \cup {NoCall}]
  /\ calls \in [Requests -> Nat]
  /\ charged \in Nat /\ broken \in Nat /\ restarts \in Nat

Reservations == {r \in Requests : usage[r] = "RESERVED"}

(* The ledger adds up whatever a worker died in: every open reservation is *)
(* set aside once, and the month never goes over its budget.               *)
LedgerBalanced ==
  /\ reserved = MaxCost * Cardinality(Reservations)
  /\ spent + reserved <= Budget

(* The ledger covers what the provider charged, but for the calls of which *)
(* no worker learnt the end: broken off, or lost with the worker.          *)
ChargesCovered == charged <= spent + reserved + MaxCost * (broken + restarts)

(* "Ontbrekende usage houdt conservatief de volledige reservering als      *)
(* verbruik": whatever happened to a call, the ledger covers its charge.   *)
MissingUsageKept == charged <= spent + reserved

(* "A synthetic request can cause at most one provider call." *)
TestsCalledOnce == \A r \in Tests : calls[r] <= 1

(* An incident's request calls the provider no more often than allowed,    *)
(* but once more for every time a worker died over it.                     *)
CallsBounded == \A r \in Requests \ Tests : calls[r] <= MaxAttempts + restarts

(* A request that is settled holds no reservation, or the month's budget   *)
(* would shrink for nothing: only a worker that died can leave one behind. *)
LeaksAreRestarts ==
  Cardinality({r \in Reservations : status[r] # "PENDING"}) <= restarts

(* No request of an incident stays pending for ever. *)
RequestsSettle == \A r \in Requests \ Tests : status[r] = "PENDING" ~> status[r] # "PENDING"
=============================================================================
