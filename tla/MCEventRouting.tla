--------------------------- MODULE MCEventRouting ----------------------------
(* TLC instance of EventRouting.                                            *)
EXTENDS EventRouting
=============================================================================
