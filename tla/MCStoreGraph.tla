---------------------------- MODULE MCStoreGraph ----------------------------
(* TLC instance of StoreGraph: the constants are given values in the cfg files.*)
EXTENDS StoreGraph
=============================================================================
