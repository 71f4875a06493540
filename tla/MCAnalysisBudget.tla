-------------------------- MODULE MCAnalysisBudget --------------------------
(* Instances of AnalysisBudget for TLC, with one worker, as deployed. *)
EXTENDS AnalysisBudget

CONSTANT w1

(* The newest request is a test. *)
LastIsTest == {MaxRequests}
NoTests == {}
=============================================================================
