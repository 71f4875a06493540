-------------------------- MODULE SnapshotDelivery --------------------------
(***************************************************************************)
(* Store-and-forward of snapshots: the poll loop of a collector (run_once  *)
(* of collector/src/runner.py, and of observer/publisher.py, which is the  *)
(* same loop) against the ingest endpoint of the backend, over a network   *)
(* that loses and delays requests and loses answers, with crashes of the   *)
(* collector and rotations of its secret.                                  *)
(*                                                                         *)
(* run_once keeps its state in memory and saves it after every change, and *)
(* the list it loops over loses its head exactly when the saved list does: *)
(* the saved state stands for all three.  The endpoint is a coroutine that *)
(* never awaits, in one process: a request is handled in one step.         *)
(***************************************************************************)
EXTENDS Integers, Sequences, FiniteSetsExt

CONSTANTS
  MaxPending,   \* MAX_PENDING: how many snapshots the buffer keeps
  MaxBuilt,     \* bound: how many snapshots are built
  Kinds,        \* per snapshot, what it may be like: see AllKinds
  Clocks        \* per snapshot, where its date may lie when it is built: see Dates

(* A snapshot the schema refuses, one with an unknown target, a good one.  *)
AllKinds == {"malformed", "untargeted", "good"}

(* More than five minutes ahead of the backend's clock, within five        *)
(* minutes of it, more than five minutes past.  The two clocks are not the *)
(* same one, and either may be set.                                        *)
Dates == {"ahead", "timely", "past"}

ASSUME DeliveryAssumption ==
  /\ MaxPending \in Nat \ {0}
  /\ MaxBuilt \in Nat
  /\ Kinds \in [1 .. MaxBuilt -> SUBSET AllKinds]
  /\ Clocks \in [1 .. MaxBuilt -> SUBSET Dates]

VARIABLES
  disk,           \* the state file: the last settled sequence, the pending snapshots
  step,           \* where run_once is: idle, sending, sent, answered
  reply,          \* the answer to the request sent last
  late,           \* requests the collector gave up on and that may still arrive
  built,          \* how many snapshots were built; also the last id used
  date,           \* per snapshot, where its generated_at lies by the backend's clock
  authorized,     \* the collector's secret is the one the backend expects
  ingested,       \* the ingest_snapshots table, in order of commit
  lastSequence    \* collectors.last_sequence

collector == <<disk, step, reply>>
backend == <<ingested, lastSequence>>
vars == <<collector, late, built, date, authorized, backend>>

Snapshots == [id : 1 .. MaxBuilt, sequence : Nat, kind : AllKinds]

-----------------------------------------------------------------------------
(* The backend *)

(* abs(now - generated_at) is more than five minutes. *)
Untimely(s) == date[s.id] # "timely"

(* Two faults for the runs to find: the endpoint no longer recognises what *)
(* it has already; an unknown target is a server error.                    *)
VerdictWithoutMemory(s) ==
  IF s.kind = "malformed" THEN "invalid"
  ELSE IF Untimely(s) THEN "untimely"
  ELSE IF ~authorized THEN "unauthorized"
  ELSE IF s.sequence < lastSequence THEN "replayed"
  ELSE IF s.kind = "untargeted" THEN "invalid"
  ELSE "accepted"

VerdictWithServerError(s) ==
  IF s.kind = "malformed" THEN "invalid"
  ELSE IF Untimely(s) THEN "untimely"
  ELSE IF \E i \in DOMAIN ingested : ingested[i].id = s.id THEN "duplicate"
  ELSE IF ~authorized THEN "unauthorized"
  ELSE IF s.sequence <= lastSequence THEN "replayed"
  ELSE IF s.kind = "untargeted" THEN "failed"
  ELSE "accepted"

(* The answer of the endpoint: its early returns, in its order. *)
Verdict(s) ==
  IF s.kind = "malformed" THEN "invalid"
  ELSE IF Untimely(s) THEN "untimely"
  ELSE IF \E i \in DOMAIN ingested : ingested[i].id = s.id THEN "duplicate"
  ELSE IF ~authorized THEN "unauthorized"
  ELSE IF s.sequence <= lastSequence THEN "replayed"
  ELSE IF s.kind = "untargeted" THEN "invalid"
  ELSE "accepted"

(* Only an accepted snapshot is committed; any other answer rolls back. *)
Ingest(s) ==
  IF Verdict(s) = "accepted"
  THEN ingested' = Append(ingested, s) /\ lastSequence' = s.sequence
  ELSE UNCHANGED backend

(* Two faults for the runs to find: a refused secret drops the snapshot; a *)
(* snapshot outside the window is sent again and again.                    *)
FinalRepliesUnauthorized ==
  {"accepted", "duplicate", "untimely", "replayed", "invalid", "unauthorized"}

FinalRepliesNotExpired == {"accepted", "duplicate", "replayed", "invalid"}

(* The answers after which run_once drops the snapshot: 202, 400, 409, 413 *)
(* and 422.                                                                *)
FinalReplies == {"accepted", "duplicate", "untimely", "replayed", "invalid"}

-----------------------------------------------------------------------------
(* The collector *)
Init ==
  /\ disk = [sequence |-> 0, pending |-> <<>>]
  /\ step = "idle"
  /\ reply = "none"
  /\ late = {}
  /\ built = 0
  /\ date = [n \in 1 .. MaxBuilt |-> "timely"]
  /\ authorized = TRUE
  /\ ingested = <<>>
  /\ lastSequence = 0

(* A fault for the runs to find: what is pending is not counted. *)
HighestSettled == disk.sequence

Highest ==
  Max({disk.sequence} \cup {disk.pending[i].sequence : i \in DOMAIN disk.pending})

(* The buffer with one more snapshot: the newest is dropped when it is full. *)
Buffered(s) ==
  IF Len(disk.pending) < MaxPending THEN Append(disk.pending, s) ELSE disk.pending

(* A poll builds a snapshot and saves it before anything is sent.  Past    *)
(* the bound it only sends.                                                *)
Poll ==
  /\ step = "idle"
  /\ step' = "sending"
  /\ \/ /\ built < MaxBuilt
        /\ built' = built + 1
        /\ \E kind \in Kinds[built + 1] :
             disk' = [disk EXCEPT !.pending =
               Buffered([id |-> built + 1, sequence |-> Highest + 1, kind |-> kind])]
        /\ \E clock \in Clocks[built + 1] : date' = [date EXCEPT ![built + 1] = clock]
     \/ /\ built = MaxBuilt
        /\ UNCHANGED <<disk, built, date>>
  /\ UNCHANGED <<reply, late, authorized, backend>>

Send ==
  /\ step = "sending"
  /\ disk.pending # <<>>
  /\ step' = "sent"
  /\ UNCHANGED <<disk, reply, late, built, date, authorized, backend>>

(* Two faults for the runs to find: the settled number is not saved; one   *)
(* answer settles the whole buffer.                                        *)
SettleUnnumbered ==
  /\ step = "answered"
  /\ reply \in FinalReplies
  /\ disk' = [disk EXCEPT !.pending = Tail(@)]
  /\ step' = "sending" /\ reply' = "none"
  /\ UNCHANGED <<late, built, date, authorized, backend>>

SettleBuffer ==
  /\ step = "answered"
  /\ reply \in FinalReplies
  /\ disk' = [sequence |-> Highest, pending |-> <<>>]
  /\ step' = "sending" /\ reply' = "none"
  /\ UNCHANGED <<late, built, date, authorized, backend>>

(* The answer is final: the snapshot leaves the buffer, which is saved. *)
Settle ==
  /\ step = "answered"
  /\ reply \in FinalReplies
  /\ disk' = [sequence |-> Head(disk.pending).sequence, pending |-> Tail(disk.pending)]
  /\ step' = "sending" /\ reply' = "none"
  /\ UNCHANGED <<late, built, date, authorized, backend>>

(* Any other answer ends the poll; the snapshot stays. *)
Refuse ==
  /\ step = "answered"
  /\ reply \notin FinalReplies
  /\ step' = "idle" /\ reply' = "none"
  /\ UNCHANGED <<disk, late, built, date, authorized, backend>>

Finish ==
  /\ step = "sending"
  /\ disk.pending = <<>>
  /\ step' = "idle"
  /\ UNCHANGED <<disk, reply, late, built, date, authorized, backend>>

(* The collector stops waiting.  A request under way is lost or still      *)
(* arrives some time; an answer under way is lost.                         *)
Abandon ==
  /\ step' = "idle" /\ reply' = "none"
  /\ \/ late' = late
     \/ step = "sent" /\ late' = late \cup {Head(disk.pending)}
  /\ UNCHANGED <<disk, built, date, authorized, backend>>

(* Ten seconds without an answer, a refused connection, or a 500: the poll *)
(* ends.                                                                   *)
TimeOut == step \in {"sent", "answered"} /\ Abandon

(* The process dies during a poll; the next poll reads the file again. *)
Crash == step # "idle" /\ Abandon

-----------------------------------------------------------------------------
(* The rest of the world *)

(* The backend handles the request the collector is waiting for. *)
Serve ==
  /\ step = "sent"
  /\ step' = "answered"
  /\ reply' = Verdict(Head(disk.pending))
  /\ Ingest(Head(disk.pending))
  /\ UNCHANGED <<disk, late, built, date, authorized>>

(* The backend handles a request nobody waits for any more. *)
ServeLate ==
  \E s \in late :
    /\ Ingest(s)
    /\ late' = late \ {s}
    /\ UNCHANGED <<collector, built, date, authorized>>

(* Time passes: a date that lay ahead is timely, one that was timely past. *)
Age ==
  /\ \E n \in 1 .. built :
       \/ date[n] = "ahead" /\ date' = [date EXCEPT ![n] = "timely"]
       \/ date[n] = "timely" /\ date' = [date EXCEPT ![n] = "past"]
  /\ UNCHANGED <<collector, late, built, authorized, backend>>

(* The secret is rotated on one side, then on the other. *)
Rotate ==
  /\ authorized' = ~authorized
  /\ UNCHANGED <<collector, late, built, date, backend>>

Next ==
  \/ Poll \/ Send \/ Settle \/ Refuse \/ Finish \/ TimeOut \/ Crash
  \/ Serve \/ ServeLate \/ Age \/ Rotate

Spec == Init /\ [][Next]_vars

(* The loop of run_once runs on and time passes.  Of the requests sent     *)
(* over and over, some are answered and some answers arrive: the network   *)
(* and the process may fail again and again, but not every time.           *)
Fairness ==
  /\ WF_vars(Poll) /\ WF_vars(Finish) /\ WF_vars(Refuse)
  /\ WF_vars(Age)
  /\ SF_vars(Send) /\ SF_vars(Serve) /\ SF_vars(Settle)

FairSpec == Spec /\ Fairness
-----------------------------------------------------------------------------
TypeOK ==
  /\ disk \in [sequence : Nat, pending : Seq(Snapshots)]
  /\ step \in {"idle", "sending", "sent", "answered"}
  /\ reply \in FinalReplies \cup {"none", "unauthorized"}
  /\ late \in SUBSET Snapshots
  /\ built \in 0 .. MaxBuilt
  /\ date \in [1 .. MaxBuilt -> Dates]
  /\ authorized \in BOOLEAN
  /\ ingested \in Seq(Snapshots)
  /\ lastSequence \in Nat

(* The backend holds no snapshot twice and no two with one sequence        *)
(* number, in the order they were measured, whatever was resent, delayed   *)
(* or lost, and its sequence is that of the newest.                        *)
IngestedOnceInOrder ==
  /\ \A i, j \in DOMAIN ingested :
       i < j => /\ ingested[i].id < ingested[j].id
                /\ ingested[i].sequence < ingested[j].sequence
  /\ \A i \in DOMAIN ingested : ingested[i].sequence <= lastSequence

(* Whatever is read from the state file after a crash continues where the  *)
(* collector was: consecutive numbers after the last settled one, no more  *)
(* than the buffer keeps.                                                  *)
BufferResumes ==
  /\ Len(disk.pending) <= MaxPending
  /\ \A i \in DOMAIN disk.pending : disk.pending[i].sequence = disk.sequence + i

(* The replay protection never hits the collector's own measurements: no   *)
(* snapshot that waits on disk would be refused as a replay, which makes   *)
(* run_once drop it, whatever numbers were used again after an overflow    *)
(* and whatever requests arrive late.                                      *)
NeverReplayed ==
  \A i \in DOMAIN disk.pending : Verdict(disk.pending[i]) # "replayed"

(* A snapshot leaves the buffer only when the backend has it, when it is   *)
(* not a good one, or when the backend has just refused it for its date:   *)
(* never because of a timeout, a crash, a wrong secret or its number.  A   *)
(* date that lies ahead is such a refusal: run_once gives a snapshot up    *)
(* that the backend could take some minutes later.                         *)
OnlySettledDropped ==
  [][\A i \in DOMAIN disk.pending :
       \/ \E j \in DOMAIN disk'.pending : disk'.pending[j] = disk.pending[i]
       \/ \E j \in DOMAIN ingested : ingested[j] = disk.pending[i]
       \/ disk.pending[i].kind # "good"
       \/ i = 1 /\ reply = "untimely"]_vars

(* The collector and the backend together implement the feed. *)
Feed == INSTANCE SnapshotFeed WITH
  delivered <- [i \in DOMAIN ingested |-> ingested[i].sequence],
  settled <- disk.sequence

ImplementsFeed == Feed!Spec

(* No snapshot stays in the buffer for ever: even with a wrong secret the  *)
(* buffer drains, because what is too old is dropped, and what is dated    *)
(* ahead.                                                                  *)
Waiting(n) == \E i \in DOMAIN disk.pending : disk.pending[i].id = n

BufferDrains == \A n \in 1 .. MaxBuilt : Waiting(n) ~> ~Waiting(n)
=============================================================================
