----------------------------- MODULE MCCdpIndex ------------------------------
(* TLC instance of CdpIndex.                                                *)
EXTENDS CdpIndex
=============================================================================
