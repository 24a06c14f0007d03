---------------------------- MODULE MCCompatModel ----------------------------
(* TLC instance of CompatModel.                                             *)
EXTENDS CompatModel
=============================================================================
