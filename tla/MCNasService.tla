---------------------------- MODULE MCNasService ----------------------------
(* Constants for the model checking of NasService. *)
EXTENDS NasService

MCStatuses == {{"OL"}, {"OB"}, {"OB", "LB"}}
=============================================================================
