---------------------------- MODULE MCDnsPipeline ----------------------------
(* Constants for the model checking of DnsPipeline. *)
EXTENDS DnsPipeline

CONSTANTS a, b, c, d

(* A contraction one way, a growth the other, and a response without home. *)
MCRoutes == {{Home, a, b, c, d}, {Home, a}, {a, b}}
MCEdits  == {{}, {a, b}}
=============================================================================
