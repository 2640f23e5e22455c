-------------------------- MODULE MCWalletManager --------------------------
(***************************************************************************)
(* Values of the constants of WalletManager for TLC.                       *)
(***************************************************************************)
EXTENDS WalletManager, TLC

PathSymmetry == Permutations(Paths)
=============================================================================
