----------------------------- MODULE MCEventSync -----------------------------
(* TLC instance of EventSync: payloads and seqs follow from the bounds.     *)
EXTENDS EventSync

MCPayloads == [key : Keys, ver : 0 .. MaxChanges]
MCSeqNos == 0 .. MaxChanges
=============================================================================
