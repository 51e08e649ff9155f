------------------------- MODULE MCAuracastReceiver -------------------------
(* Small instances of AuracastReceiver: "a" sends in the clear, "e" encrypted   *)
(* and "u" a configuration that the sink does not support.                     *)
EXTENDS AuracastReceiver

LeftAndRight == [b \in Broadcasters |-> IF b = "e" THEN 2 ELSE 1]
=============================================================================
