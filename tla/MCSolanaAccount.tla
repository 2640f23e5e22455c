-------------------------- MODULE MCSolanaAccount --------------------------
(***************************************************************************)
(* Values of the constants of SolanaAccount for TLC.                       *)
(***************************************************************************)
EXTENDS SolanaAccount, TLC

R(op, form, payer, lifetime, input) ==
  [op |-> op, form |-> form, payer |-> payer, lifetime |-> lifetime, input |-> input]

Plain(ops) == {R(op, "none", "none", 0, "ok") : op \in ops}

Spl(ops) == {R(op, "spl", "none", 0, i) : op \in ops, i \in {"ok", "invalid", "malformed", "oversized"}}

Native(ops) == {R(op, "native", "none", 0, i) : op \in ops, i \in {"ok", "malformed"}}

Messages(ops) ==
  {R(op, "message", p, l, i) : op \in ops, p \in {"none", "own", "other"}, l \in {0, 1}, i \in {"ok", "partial"}}

Serialized(ops) ==
  {R(op, "serialized", p, 1, i) : op \in ops, p \in {"own", "other"}, i \in {"ok", "malformed", "partial"}}

Signed(ops) == {R(op, "signed", p, 1, "ok") : op \in ops, p \in {"own", "other"}}

\* Every request the code distinguishes.
AllRequests ==
  Plain({"getAddress", "toReadOnlyAccount", "sign"})
    \cup Spl({"transfer", "quoteTransfer"})
    \cup Native({"signTransaction", "sendTransaction", "quoteSendTransaction"})
    \cup Messages({"signTransaction", "sendTransaction", "quoteSendTransaction"})
    \cup Serialized({"signTransaction", "sendTransaction", "quoteSendTransaction"})
    \cup Signed({"sendTransaction", "quoteSendTransaction"})

\* One well-formed request of each kind that spends, and the call that only needs the signer.
SpendingRequests ==
  Plain({"getAddress"})
    \cup {r \in Spl({"transfer"}) \cup Native({"sendTransaction"})
                 \cup Serialized({"signTransaction", "sendTransaction"}) :
            r.input = "ok" /\ r.payer # "other"}
    \cup {R("sendTransaction", "message", "none", 0, "ok")}

\* The calls that meet in the race of dispose() with the creation of the signer.
DisposalRequests ==
  Plain({"getAddress", "toReadOnlyAccount", "sign"}) \cup {R("transfer", "spl", "none", 0, "ok")}

MCCaps == {1, Undefined}
CallSymmetry == Permutations(Calls)
=============================================================================
