------------------------- MODULE MCSnapshotDelivery -------------------------
(* An instance of SnapshotDelivery for TLC: every kind of snapshot comes    *)
(* first or second, so that a good one follows it, and the fourth uses a    *)
(* number again when the buffer of two was full.  The clock of the          *)
(* collector runs ahead or behind for some of them.                         *)
EXTENDS SnapshotDelivery

MCKinds == <<{"malformed", "good"}, {"untargeted", "good"}, {"good"},
             {"untargeted", "good"}>>
MCClocks == <<{"ahead", "timely"}, {"timely", "past"}, {"ahead", "timely"}, {"timely"}>>
==============================================================================
