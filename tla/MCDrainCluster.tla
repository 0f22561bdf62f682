--------------------------- MODULE MCDrainCluster ---------------------------
(* Constants for the model checking of DrainCluster. *)
EXTENDS DrainCluster

(* Two names of which one begins the other, as homeassistant_ha and ..._ha-mqtt. *)
MCServices == {<<"ha">>, <<"ha", "-mqtt">>}

(* Dotted names, for the longest prefix: see LongestWins. *)
MCNames == {<<"a">>, <<"a", ".", "b">>, <<"a", "b">>, <<"a", ".", "b", ".", "c">>}

(***************************************************************************)
(* A task of a service in the list is credited to that service, also when  *)
(* the names of others in the list begin its name (longestServicePrefix).  *)
(***************************************************************************)
ASSUME LongestWins ==
    \A want \in SUBSET MCNames, service \in MCNames :
        service \in want => LongestServicePrefix(TaskName(service), want) = {service}
=============================================================================
