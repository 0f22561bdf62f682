--------------------------- MODULE MCOverlayDoctor ---------------------------
(* Constants for the model checking of OverlayDoctor. *)
EXTENDS OverlayDoctor

CONSTANTS cl01, cl02, cl03

MCTwoNodes   == <<cl01, cl02>>
MCThreeNodes == <<cl01, cl02, cl03>>
=============================================================================
