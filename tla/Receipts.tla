------------------------------ MODULE Receipts ------------------------------
(***************************************************************************)
(* The queries about one transaction: getTransactionReceipt,               *)
(* getTransaction and waitForTransaction.                                  *)
(*                                                                         *)
(* getTransaction combines the answers of two requests, made one after the *)
(* other and possibly answered by different nodes: the status of the       *)
(* transaction at whatever level it has, and the transaction itself, at    *)
(* the commitment of the configuration.  waitForTransaction is inherited   *)
(* from an external base class: it repeats getTransaction until the        *)
(* finality it waits for is reached or its time is up, and takes an        *)
(* unknown transaction for a pending one.                                  *)
(*                                                                         *)
(* The chain and its nodes are external.  A processed transaction may be   *)
(* dropped with its fork and processed again in another; a confirmed one   *)
(* stays.  A node knows the chain as it was at some moment.                *)
(***************************************************************************)
EXTENDS Naturals

CONSTANTS
  Queries,      \* identities of the queries
  Nodes,        \* the nodes behind _rpc
  Commitments,  \* the values config.commitment may have
  Slots         \* the slots in which the transaction may be processed

ASSUME SlotsAssumption == Slots \subseteq Nat \ {0}
ASSUME CommitmentsAssumption == Commitments \subseteq {"processed", "confirmed", "finalized"}

VARIABLES
  config,   \* whether _rpc is set, and _commitment
  chain,    \* what has become of the transaction
  views,    \* what each node knows of it
  queries   \* the queries' continuations

vars == <<config, chain, views, queries>>

Unseen == 0
Processed == 1
Confirmed == 2
Finalized == 3

Status == [level : Unseen..Finalized, slot : {0} \cup Slots, failed : BOOLEAN]

\* The status of a transaction that is not known, and what a request answers then: null.
Null == [level |-> Unseen, slot |-> 0, failed |-> FALSE]

Operations == {"getTransactionReceipt", "getTransaction", "waitForTransaction"}
Targets == {"confirmed", "final"}
Awaits == {"status", "transaction", "pause"}

Receipt == [finality : {"pending", "confirmed", "final"}, success : {"undefined", "true", "false"},
            block : {0} \cup Slots, transaction : Status]

NoReceipt == [finality |-> "pending", success |-> "undefined", block |-> 0, transaction |-> Null]

(***************************************************************************)
(* A query's continuation.  `status' is the answer of the first request of *)
(* getTransaction, `expired' whether the time of a wait is up.             *)
(***************************************************************************)
Idle == [pc |-> "idle"]
Query == [pc : Awaits \cup {"resolved", "rejected"},
          op : Operations,
          target : Targets,
          status : Status,
          receipt : Receipt,
          expired : BOOLEAN,
          error : {"none", "providerRequired", "invalid", "noSuchElement", "rpc", "timeout"}]

Pc(q) == queries[q].pc
Op(q) == queries[q].op

Init ==
  /\ config \in [rpc : BOOLEAN, commitment : Commitments]
  /\ chain = Null
  /\ views = [n \in Nodes |-> Null]
  /\ queries = [q \in Queries |-> Idle]

-----------------------------------------------------------------------------
(* The chain and its nodes. *)

Include ==
  /\ chain.level = Unseen
  /\ \E s \in Slots, f \in BOOLEAN : chain' = [level |-> Processed, slot |-> s, failed |-> f]

Drop == chain.level = Processed /\ chain' = Null

Advance ==
  /\ chain.level \in {Processed, Confirmed}
  /\ chain' = [chain EXCEPT !.level = @ + 1]

ChainStep == (Include \/ Drop \/ Advance) /\ UNCHANGED <<config, views, queries>>

Sync(n) ==
  /\ views' = [views EXCEPT ![n] = chain]
  /\ UNCHANGED <<config, chain, queries>>

-----------------------------------------------------------------------------
(* Making a query. *)

Begin(q, op, valid, target) ==
  LET k == [op |-> op, target |-> target, status |-> Null, receipt |-> NoReceipt,
            expired |-> FALSE, error |-> "none",
            pc |-> IF op = "getTransactionReceipt" THEN "transaction" ELSE "status"] IN
  /\ Pc(q) = "idle"
  /\ queries' = [queries EXCEPT ![q] =
       IF ~config.rpc THEN [k EXCEPT !.pc = "rejected", !.error = "providerRequired"]
       ELSE IF ~valid THEN [k EXCEPT !.pc = "rejected", !.error = "invalid"]
       ELSE k]
  /\ UNCHANGED <<config, chain, views>>

-----------------------------------------------------------------------------
(* getTransaction, which waitForTransaction calls. *)

Reaches(finality, target) == finality = "final" \/ finality = target

\* Query q has the receipt it asked for; a wait goes on unless it is of the finality waited for.
Return(q, k, receipt) ==
  queries' = [queries EXCEPT ![q] =
    IF Op(q) = "waitForTransaction" /\ ~Reaches(receipt.finality, k.target)
    THEN [k EXCEPT !.pc = "pause"]
    ELSE [k EXCEPT !.pc = "resolved", !.receipt = receipt]]

Throw(q, error) ==
  queries' = [queries EXCEPT ![q] = [@ EXCEPT !.pc = "rejected", !.error = error]]

Pause(q) ==
  queries' = [queries EXCEPT ![q] = [@ EXCEPT !.pc = "pause"]]

\* Mutant: a processed transaction counts as settled.
Settled_WhenProcessed(status) == status.level >= Processed

Settled(status) == status.level \in {Confirmed, Finalized}

\* Mutant: every settled transaction is final.
Finality_SettledIsFinal(status) == IF Settled(status) THEN "final" ELSE "pending"

Finality(status) ==
  IF status.level = Finalized THEN "final"
  ELSE IF Settled(status) THEN "confirmed" ELSE "pending"

ReceiptOf(status, transaction) ==
  [finality |-> Finality(status),
   success |-> IF ~Settled(status) THEN "undefined" ELSE IF status.failed THEN "false" ELSE "true",
   block |-> status.slot,
   transaction |-> transaction]

\* Mutant: the transaction is asked for whatever its status.
StatusAnswered_AlwaysAsks(q) ==
  /\ Pc(q) = "status"
  /\ \E n \in Nodes :
       queries' = [queries EXCEPT ![q] = [@ EXCEPT !.status = views[n], !.pc = "transaction"]]
  /\ UNCHANGED <<config, chain, views>>

StatusAnswered(q) ==
  /\ Pc(q) = "status"
  /\ \E n \in Nodes :
       LET k == [queries[q] EXCEPT !.status = views[n]] IN
       IF k.status.level = Unseen
       THEN IF Op(q) = "waitForTransaction" THEN Pause(q) ELSE Throw(q, "noSuchElement")
       ELSE IF Settled(k.status)
       THEN queries' = [queries EXCEPT ![q] = [k EXCEPT !.pc = "transaction"]]
       ELSE Return(q, k, ReceiptOf(k.status, Null))
  /\ UNCHANGED <<config, chain, views>>

\* What a node answers for the transaction at the configured commitment.
Found(view) ==
  LET least == IF config.commitment = "finalized" THEN Finalized ELSE Confirmed IN
  IF view.level >= least THEN view ELSE Null

\* The node serves no transaction below the commitment `confirmed': asked for one, it fails.
TransactionAnswered(q) ==
  /\ Pc(q) = "transaction"
  /\ config.commitment # "processed"
  /\ \E n \in Nodes :
       LET transaction == Found(views[n]) IN
       IF Op(q) = "getTransactionReceipt"
       THEN queries' = [queries EXCEPT ![q] =
              [@ EXCEPT !.pc = "resolved", !.receipt.transaction = transaction]]
       ELSE Return(q, queries[q], ReceiptOf(queries[q].status, transaction))
  /\ UNCHANGED <<config, chain, views>>

\* A request fails.  Whether a wait then goes on is up to the base class.
RequestFails(q) ==
  /\ Pc(q) \in {"status", "transaction"}
  /\ Throw(q, "rpc") \/ (Op(q) = "waitForTransaction" /\ Pause(q))
  /\ UNCHANGED <<config, chain, views>>

-----------------------------------------------------------------------------
(* The polling of waitForTransaction. *)

Expire(q) ==
  /\ Pc(q) \in Awaits
  /\ Op(q) = "waitForTransaction"
  /\ queries' = [queries EXCEPT ![q].expired = TRUE]
  /\ UNCHANGED <<config, chain, views>>

Poll(q) ==
  /\ Pc(q) = "pause"
  /\ ~queries[q].expired
  /\ queries' = [queries EXCEPT ![q].pc = "status"]
  /\ UNCHANGED <<config, chain, views>>

\* Mutant: the time is looked at only when a request has failed.
TimesOut_OnFailure(q) ==
  /\ Pc(q) \in Awaits \ {"pause"}
  /\ queries[q].expired
  /\ Throw(q, "timeout")
  /\ UNCHANGED <<config, chain, views>>

\* A wait whose time is up ends, at the latest when its last request has been answered.
TimesOut(q) ==
  /\ Pc(q) \in Awaits
  /\ queries[q].expired
  /\ Throw(q, "timeout")
  /\ UNCHANGED <<config, chain, views>>

Resume(q) == StatusAnswered(q) \/ TransactionAnswered(q) \/ RequestFails(q) \/ Poll(q) \/ TimesOut(q)

Next ==
  \/ ChainStep
  \/ \E n \in Nodes : Sync(n)
  \/ \E q \in Queries, op \in Operations, valid \in BOOLEAN, target \in Targets :
       Begin(q, op, valid, target)
  \/ \E q \in Queries : Resume(q) \/ Expire(q)

Spec == Init /\ [][Next]_vars

\* Every request is answered or fails, every timer fires.
FairSpec == Spec /\ \A q \in Queries : WF_vars(Resume(q)) /\ WF_vars(Expire(q))

-----------------------------------------------------------------------------
(* Correctness. *)

\* Every variable has its type; a query asks for the transaction of a settled status only.
TypeOK ==
  /\ config \in [rpc : BOOLEAN, commitment : Commitments]
  /\ chain \in Status
  /\ views \in [Nodes -> Status]
  /\ queries \in [Queries -> {Idle} \cup Query]
  /\ \A q \in Queries :
       Pc(q) = "transaction" /\ Op(q) # "getTransactionReceipt" => Settled(queries[q].status)

Resolved(q) == Pc(q) = "resolved"

\* What the status says about a confirmed transaction is true of the chain, and stays true.
Durable(level, slot, failed) == chain.level >= level /\ chain.slot = slot /\ chain.failed = failed

\* Whatever the node that answered, and whatever happened since: a receipt that is not pending
\* tells the truth about the transaction's finality, block and success, for ever.
ReceiptsAreDurable ==
  \A q \in Queries :
    Resolved(q) /\ queries[q].receipt.finality # "pending" =>
      LET receipt == queries[q].receipt IN
      Durable(IF receipt.finality = "final" THEN Finalized ELSE Confirmed,
              receipt.block, receipt.success = "false")

\* The two answers a receipt is made of may come from different nodes at different moments, but
\* the transaction it carries is the one its block and success tell of.
ReceiptIsConsistent ==
  \A q \in Queries :
    Resolved(q) /\ Op(q) # "getTransactionReceipt" /\ queries[q].receipt.transaction # Null =>
      LET receipt == queries[q].receipt IN
      /\ receipt.transaction.slot = receipt.block
      /\ receipt.success = IF receipt.transaction.failed THEN "false" ELSE "true"

\* A wait resolves only when the chain has reached the finality waited for.
WaitEndsAtTarget ==
  \A q \in Queries :
    Resolved(q) /\ Op(q) = "waitForTransaction" =>
      chain.level >= IF queries[q].target = "final" THEN Finalized ELSE Confirmed

\* What the receipt is documented to hold: "The native Solana transaction object, or null while
\* the transaction is pending."
NullOnlyWhilePending ==
  \A q \in Queries :
    Resolved(q) /\ Op(q) = "getTransaction" /\ queries[q].receipt.transaction = Null =>
      queries[q].receipt.finality = "pending"

\* Every query settles, also the wait for a transaction that never arrives.
EveryQuerySettles ==
  \A q \in Queries : Pc(q) \in Awaits ~> Pc(q) \in {"resolved", "rejected"}
=============================================================================
