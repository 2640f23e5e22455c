------------------------- MODULE SolanaAccountGate -------------------------
(***************************************************************************)
(* SolanaAccount implements SpendGate: the calls that spend, seen from     *)
(* outside.                                                                *)
(***************************************************************************)
EXTENDS SolanaAccount

Spending(c) == Pc(c) # "idle" /\ Spends(Req(c).op)

\* A call has released its message when it was given to the caller or sent, whatever came back.
HasReleased(c) == Spending(c) /\ (Pc(c) = "resolved" \/ SentBy(c) \in wire)

StatusOf(c) ==
  IF ~Spending(c) THEN "idle"
  ELSE IF HasReleased(c) THEN "released"
  ELSE IF Pc(c) = "rejected" THEN "declined"
  ELSE "admitted"

\* A caller whose request to the node failed does not know whether it had an effect.
ToldTo(c) ==
  IF ~Spending(c) \/ Pc(c) \notin Settled THEN "nothing"
  ELSE IF Pc(c) = "resolved" THEN "sent"
  ELSE IF calls[c].error = "rpc" THEN "unsure"
  ELSE "notSent"

gateBar == IF rawPrivateKey = "key" THEN "open" ELSE "closed"
limitBar == [c \in Calls |-> IF Spending(c) THEN Cap(Req(c).op) ELSE Undefined]
statusBar == [c \in Calls |-> StatusOf(c)]
toldBar == [c \in Calls |-> ToldTo(c)]
releasedBar == [c \in Calls |-> IF HasReleased(c) THEN calls[c].message ELSE Undefined]

Gate == INSTANCE SpendGate WITH
  Messages <- Message,
  Limits <- Caps \cup {Undefined},
  gate <- gateBar,
  limit <- limitBar,
  status <- statusBar,
  told <- toldBar,
  released <- releasedBar

\* The account keeps the promise of SpendGate: once it is disposed no call is admitted, what a
\* call releases was quoted within its limit at the moment it was released, and no later step
\* changes it; the caller's knowledge is true.
ImplementsGate == Gate!Spec
=============================================================================
