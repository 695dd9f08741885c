----------------------------- MODULE MCInbound ------------------------------
(* Instances of Inbound for TLC.                                           *)
EXTENDS Inbound, TLC

(* Expires at the first tick, or never.                                    *)
LaterOrNever == {1, Never}

(* A notification and its repetition.                                      *)
CONSTANTS d1, d2
TwoDeliveries == {d1, d2}
OneRepetition == [d \in TwoDeliveries |-> IF d = d2 THEN d1 ELSE NoDelivery]
=============================================================================
