--------------------------- MODULE PaymentLedger ---------------------------
(***************************************************************************)
(* SolanaAccount with what becomes of its transfers on the chain.          *)
(*                                                                         *)
(* transfer() asks the node whether the recipient has a token account, and *)
(* if not adds its creation to the transaction.  Between that answer and   *)
(* the execution of the transaction the recipient, or another payer, may   *)
(* close or open the account; and the blockhash in the transaction ages.   *)
(* The answer itself may be old: it is of the commitment the wallet is     *)
(* configured for, and of the node that happens to be asked.  Chain, nodes *)
(* and recipient are external: the chain executes a transaction it         *)
(* received at most once, and only while its blockhash is recent.          *)
(***************************************************************************)
EXTENDS SolanaAccount

CONSTANTS
  Payment,   \* what each call pays: its token, recipient, amount and memo
  MaxAge,    \* for how many blockhashes a transaction stays valid
  Rent,      \* what the creation of a token account costs its payer
  Lag        \* how many blocks the state a node answers with may be behind the chain

ASSUME LedgerAssumption == MaxAge \in Nat /\ Rent \in Nat /\ Lag \in Nat
ASSUME TransfersOnly == \A r \in Requests : r.form = "spl"

VARIABLES
  recipient,  \* the token account of the recipients: "open" or "absent"
  changedAt,  \* the block of its last change, 0 if it never changed
  closings,   \* history: the blocks in which it was closed
  lookup,     \* what each call was told of it, and in which block the chain was by then
  ledger      \* the transactions the chain has executed

chainVars == <<recipient, changedAt, closings>>
ledgerVars == <<chainVars, lookup, ledger>>

NotTold == [answer |-> "none", at |-> 0]

LedgerInit ==
  /\ Init
  /\ recipient \in {"open", "absent"}
  /\ changedAt = 0
  /\ closings = {}
  /\ lookup = [c \in Calls |-> NotTold]
  /\ ledger = {}

\* Mutant: the creation of the token account is never added.
CreatesAccount_Never(c) == FALSE

\* Whether the transaction of call c creates the recipient's token account.
CreatesAccount(c) == lookup[c].answer = "absent"

\* The signature identifies a transaction; it is determined by the bytes signed, which hold what
\* the caller asked for, whether the token account is created, the payer and the blockhash.
Identity(tx) ==
  [payment |-> Payment[tx.call], creates |-> CreatesAccount(tx.call), message |-> tx.message]

\* Mutant: the account is looked up before the request is made.
LooksUp_BeforeAsking(c) == Pc(c) = "address" /\ Pc(c)' = "ataInfo"

\* The answer of the node decides whether the builder creates the recipient's token account.
LooksUp(c) == Pc(c) = "ataInfo" /\ Pc(c)' = "blockhash"

\* What a node may say of the recipient's token account: its state at the configured commitment,
\* on a node that may be behind.  What changed within Lag blocks may be known to it or not.
Answers ==
  IF changedAt # 0 /\ latest <= changedAt + Lag THEN {"open", "absent"} ELSE {recipient}

AccountStep ==
  /\ Next
  /\ \E answer \in Answers :
       lookup' = [c \in Calls |-> IF LooksUp(c) THEN [answer |-> answer, at |-> latest] ELSE lookup[c]]
  /\ UNCHANGED <<chainVars, ledger>>

\* Mutant: the instruction that creates the token account fails on an account that exists.
Outcome_NotIdempotent(creates) ==
  IF creates = (recipient = "absent") THEN "paid" ELSE "failed"

\* The creation is idempotent; a transfer to an account that does not exist fails.
Outcome(creates) == IF creates \/ recipient = "open" THEN "paid" ELSE "failed"

\* The recipient's token account is opened or closed in the present block.
BecomesOpen == recipient' = "open" /\ changedAt' = latest /\ UNCHANGED closings
BecomesAbsent == recipient' = "absent" /\ changedAt' = latest /\ closings' = closings \cup {latest}

\* The chain executes a transaction it has received.
Execute(tx) ==
  LET creates == CreatesAccount(tx.call)
      opens == creates /\ recipient = "absent" IN
  /\ latest <= tx.message.lifetime + MaxAge
  /\ \A entry \in ledger : Identity(entry.tx) # Identity(tx)
  /\ ledger' = ledger \cup {[tx |-> tx, at |-> latest, outcome |-> Outcome(creates),
                             rent |-> IF opens THEN Rent ELSE 0]}
  /\ IF opens THEN BecomesOpen ELSE UNCHANGED chainVars
  /\ UNCHANGED <<vars, lookup>>

RecipientOpens ==
  /\ recipient = "absent" /\ BecomesOpen
  /\ UNCHANGED <<vars, lookup, ledger>>

RecipientCloses ==
  /\ recipient = "open" /\ BecomesAbsent
  /\ UNCHANGED <<vars, lookup, ledger>>

LedgerNext ==
  \/ AccountStep
  \/ \E tx \in wire : Execute(tx)
  \/ RecipientOpens
  \/ RecipientCloses

LedgerSpec == LedgerInit /\ [][LedgerNext]_<<vars, ledgerVars>>

-----------------------------------------------------------------------------
(* Correctness. *)

\* The call has had the answer about the recipient's token account.
Told(c) == Pc(c) \notin {"idle", "address", "ataInfo", "rejected"}

\* The types; a call knows about the recipient's token account when it was told, not before.
LedgerTypeOK ==
  /\ recipient \in {"open", "absent"}
  /\ changedAt \in 0..latest /\ closings \subseteq 1..latest
  /\ lookup \in [Calls -> [answer : {"none", "open", "absent"}, at : 0..latest]]
  /\ \A c \in Calls :
       /\ Told(c) => lookup[c].answer # "none"
       /\ Pc(c) \in {"idle", "address", "ataInfo"} => lookup[c].answer = "none"
  /\ ledger \subseteq [tx : wire, at : 1..latest, outcome : {"paid", "failed"}, rent : {0, Rent}]

\* The account was closed after, or no more than Lag blocks before call c was told of it, and not
\* after block `by'.
ClosedUnknown(c, by) == \E b \in closings : lookup[c].at <= b + Lag /\ b <= by

\* However the recipient's token account changes around the request for it, and however far behind
\* the node is that answers: an executed transfer fails for lack of the account only if it was
\* closed when the answer could not show it, or later.  One that was missing, or is said to be,
\* and has been opened by somebody else or by an earlier transfer of the account does not harm,
\* and one that has been missing for longer than a node may be behind is always created.
FailsOnlyIfClosed ==
  \A entry \in ledger : entry.outcome = "failed" => ClosedUnknown(entry.tx.call, entry.at)

\* However long the fee check, the signature and the broadcast took, a transfer executes only
\* while the blockhash its fee was quoted for is recent: a caller who waits that long after a
\* failed request knows that the transfer will not happen any more.
ExecutesInTime ==
  \A entry \in ledger :
    \E q \in quotes : /\ q.call = entry.tx.call
                      /\ q.message = entry.tx.message
                      /\ entry.at <= q.message.lifetime + MaxAge

\* What transfer() is documented to do: it throws "If the transfer's cost exceeds the maximum
\* transfer fee option".  The cost of an executed transfer is its fee and the rent it paid.
CostWithinCap ==
  \A entry \in ledger :
    LET cap == Cap("transfer") IN
    cap # Undefined => calls[entry.tx.call].fee + entry.rent <= cap

-----------------------------------------------------------------------------
\* The inductive invariant behind FailsOnlyIfClosed and ExecutesInTime.
LedgerInv ==
  /\ LedgerTypeOK
  /\ \A tx \in wire : lookup[tx.call].answer # "none"
  /\ recipient = "absent" /\ changedAt # 0 => changedAt \in closings
  /\ \A c \in Calls : lookup[c].answer = "open" => recipient = "open" \/ ClosedUnknown(c, latest)
  /\ FailsOnlyIfClosed
  /\ \A entry \in ledger : entry.at <= entry.tx.message.lifetime + MaxAge
=============================================================================
