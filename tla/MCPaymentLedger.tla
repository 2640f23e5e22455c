-------------------------- MODULE MCPaymentLedger --------------------------
(***************************************************************************)
(* Transfers only, all of the same payment, so that two of them may be the *)
(* same transaction.                                                       *)
(***************************************************************************)
EXTENDS PaymentLedger, TLC

MCRequests == {[op |-> "transfer", form |-> "spl", payer |-> "none", lifetime |-> 0, input |-> "ok"]}
MCCaps == {1, Undefined}
MCPayment == [c \in Calls |-> "payment"]
CallSymmetry == Permutations(Calls)
=============================================================================
