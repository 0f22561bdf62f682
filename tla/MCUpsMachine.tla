---------------------------- MODULE MCUpsMachine ----------------------------
(* Constants for the model checking of UpsMachineSpec. *)
EXTENDS UpsMachineSpec

MCStatuses == {{"OL"}, {"OB"}, {"OB", "LB"}}
MCGaps     == {1, 2}
=============================================================================
