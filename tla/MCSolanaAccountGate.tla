------------------------ MODULE MCSolanaAccountGate ------------------------
(***************************************************************************)
(* The refinement of SpendGate, with the small sets of MCSolanaAccount.    *)
(***************************************************************************)
EXTENDS MCSolanaAccount, SolanaAccountGate
=============================================================================
