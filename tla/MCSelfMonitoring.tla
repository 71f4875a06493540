-------------------------- MODULE MCSelfMonitoring --------------------------
(* Instances of SelfMonitoring for TLC: one source, the collector or the   *)
(* worker, and the two conditions of the outbox, with the thresholds one   *)
(* unit of time apart.                                                     *)
EXTENDS SelfMonitoring

CONSTANT none

MCSignals == Sources \cup {"outbox", "delivery"}
MCCodes == Sources \cup {"delivery"}
MCCodeOf == [s \in MCSignals |-> IF s = "outbox" THEN "delivery" ELSE s]

MCWarningAge == [s \in Sources \cup {"outbox"} |-> 0]
MCCriticalAge == [s \in Sources \cup {"outbox"} |-> 1]
=============================================================================
