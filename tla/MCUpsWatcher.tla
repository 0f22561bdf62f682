---------------------------- MODULE MCUpsWatcher ----------------------------
(* Constants for the model checking of UpsWatcher. *)
EXTENDS UpsWatcher

MCStatuses    == {{"OL"}, {"OB"}, {"OB", "LB"}}
MCOddStatuses == MCStatuses \cup {{}, {"OL", "OB"}}   \* words missing or contradictory
MCOutage      == {{"OB"}, {"OB", "LB"}}   \* mains do not come back
=============================================================================
