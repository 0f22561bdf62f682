----------------------------- MODULE MCWolOnBoot -----------------------------
(* Constants for the model checking of WolOnBoot. *)
EXTENDS WolOnBoot

MCStatuses == {{"OL"}, {"OB"}, {"OB", "LB"}, {}}

(* No low battery, at which the NAS itself would be shut down. *)
MCHighStatuses == {{"OL"}, {"OB"}}
=============================================================================
