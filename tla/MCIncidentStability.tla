------------------------ MODULE MCIncidentStability ------------------------
(* An instance of IncidentStability for TLC. *)
EXTENDS IncidentStability, TLC

CONSTANTS s1, s2, s3, c1, c2, none

(* Two signals of one code, as https.reachable and health.status_code are, *)
(* and one with a code of its own, as db.reachable.                        *)
SharedAndOwnCode == [s \in {s1, s2, s3} |-> IF s = s3 THEN c2 ELSE c1]

(* The two signals of the shared code are interchangeable. *)
SignalSymmetry == Permutations({s1, s2})

TwoTimes == 0 .. 1
=============================================================================
