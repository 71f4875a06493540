---------------------------- MODULE SnapshotFeed ----------------------------
(***************************************************************************)
(* What the collector and the ingest endpoint promise together: the        *)
(* numbered snapshots are settled one by one in order, and delivered to    *)
(* the backend in that order, each at most once and none before it is the  *)
(* next one to settle.  A snapshot settled without having been delivered   *)
(* is lost, unless a request for it is still under way and nothing newer   *)
(* was delivered before it.                                                *)
(***************************************************************************)
EXTENDS Naturals, Sequences

VARIABLES
  delivered,   \* the sequence numbers the backend took, in that order
  settled      \* the collector is done with every number up to this one

Init == delivered = <<>> /\ settled = 0

Deliver ==
  /\ \E n \in 1 .. settled + 1 :
       /\ \A i \in DOMAIN delivered : delivered[i] < n
       /\ delivered' = Append(delivered, n)
  /\ UNCHANGED settled

Settle == settled' = settled + 1 /\ UNCHANGED delivered

Next == Deliver \/ Settle

Spec == Init /\ [][Next]_<<delivered, settled>>
=============================================================================
