----------------------------- MODULE SpendGate -----------------------------
(***************************************************************************)
(* What an account promises about the calls that spend from it             *)
(* (signTransaction, sendTransaction, transfer), without saying how.       *)
(*                                                                         *)
(* Calls are admitted while the account is open.  An admitted call is, in  *)
(* one step, either released, with a message that was quoted within the    *)
(* call's limit, or declined; what it released never changes afterwards.   *)
(* A caller who is told "sent" or "not sent" is told the truth.            *)
(***************************************************************************)
EXTENDS Naturals

CONSTANTS
  Calls,      \* identities of the calls
  Messages,   \* what a call may release
  Fees,       \* the fees that may be quoted
  Limits,     \* the limits of a call on its fee, or Undefined
  Undefined   \* the absence of a limit or of a message

VARIABLES
  gate,      \* "open" while the account admits calls, then "closed"
  limit,     \* limit of each call
  status,    \* "idle", "admitted", "released" or "declined"
  told,      \* what the caller knows: "nothing", "sent", "notSent" or "unsure"
  released,  \* the message each call released, or Undefined
  quotes     \* the quotes given so far

vars == <<gate, limit, status, told, released, quotes>>

Quotes == [call : Calls, message : Messages, fee : Fees]

Init ==
  /\ gate = "open"
  /\ limit = [c \in Calls |-> Undefined]
  /\ status = [c \in Calls |-> "idle"]
  /\ told = [c \in Calls |-> "nothing"]
  /\ released = [c \in Calls |-> Undefined]
  /\ quotes = {}

\* Any step may come with a quote.
Heard == quotes' = quotes \/ \E q \in Quotes : quotes' = quotes \cup {q}

Becomes(c, newStatus, answer) ==
  /\ status' = [status EXCEPT ![c] = newStatus]
  /\ told' = [told EXCEPT ![c] = answer]
  /\ UNCHANGED gate

Admit(c) ==
  /\ gate = "open"
  /\ status[c] = "idle"
  /\ \E cap \in Limits : limit' = [limit EXCEPT ![c] = cap]
  /\ Becomes(c, "admitted", "nothing")
  /\ UNCHANGED <<released, quotes>>

\* A call is turned away at once, which needs no open account.
Refuse(c) ==
  /\ status[c] = "idle"
  /\ \E cap \in Limits : limit' = [limit EXCEPT ![c] = cap]
  /\ Becomes(c, "declined", "notSent")
  /\ UNCHANGED <<released, quotes>>

Release(c) ==
  /\ status[c] = "admitted"
  /\ \E m \in Messages :
       /\ released' = [released EXCEPT ![c] = m]
       /\ limit[c] # Undefined =>
            \E fee \in Fees : fee <= limit[c] /\ [call |-> c, message |-> m, fee |-> fee] \in quotes'
  /\ \E answer \in {"sent", "unsure"} : Becomes(c, "released", answer)
  /\ UNCHANGED limit

Decline(c) ==
  /\ status[c] = "admitted"
  /\ \E answer \in {"notSent", "unsure"} : Becomes(c, "declined", answer)
  /\ UNCHANGED <<limit, released>>

Close == gate' = "closed" /\ UNCHANGED <<limit, status, told, released, quotes>>

Next ==
  \/ \E c \in Calls : Admit(c) \/ Refuse(c)
  \/ Heard /\ \E c \in Calls : Release(c) \/ Decline(c)
  \/ Heard /\ UNCHANGED <<gate, limit, status, told, released>>
  \/ Close

Spec == Init /\ [][Next]_vars
=============================================================================
