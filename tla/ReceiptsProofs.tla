--------------------------- MODULE ReceiptsProofs ---------------------------
(***************************************************************************)
(* Theorems about Receipts, for any nodes, slots and number of queries.    *)
(* They rest on one fact: what a node, and therefore a query, knows of a   *)
(* confirmed transaction is true of the chain and stays true.              *)
(***************************************************************************)
EXTENDS Receipts, TLAPS

\* What is known of the transaction is true if it is confirmed.
Known(status) == Settled(status) => Durable(status.level, status.slot, status.failed)

\* What the invariants say of a query with continuation k that has resolved.
ReceiptOK(k) ==
  k.pc = "resolved" =>
    /\ k.receipt.finality # "pending" =>
         Durable(IF k.receipt.finality = "final" THEN Finalized ELSE Confirmed,
                 k.receipt.block, k.receipt.success = "false")
    /\ k.op # "getTransactionReceipt" /\ k.receipt.transaction # Null =>
         /\ k.receipt.transaction.slot = k.receipt.block
         /\ k.receipt.success = IF k.receipt.transaction.failed THEN "false" ELSE "true"
    /\ k.op = "waitForTransaction" =>
         chain.level >= IF k.target = "final" THEN Finalized ELSE Confirmed

QueryInv(k) ==
  /\ Known(k.status)
  /\ k.pc = "transaction" /\ k.op # "getTransactionReceipt" => Settled(k.status)
  /\ k.pc # "resolved" => k.receipt = NoReceipt
  /\ ReceiptOK(k)

\* The inductive invariant.
ReceiptInv ==
  /\ config \in [rpc : BOOLEAN, commitment : Commitments]
  /\ chain \in Status
  /\ views \in [Nodes -> Status]
  /\ queries \in [Queries -> {Idle} \cup Query]
  /\ \A n \in Nodes : Known(views[n])
  /\ \A q \in Queries : Pc(q) # "idle" => QueryInv(queries[q])

LEMMA ReceiptInvImplies ==
  ReceiptInv => TypeOK /\ ReceiptsAreDurable /\ ReceiptIsConsistent /\ WaitEndsAtTarget
<1> SUFFICES ASSUME ReceiptInv
             PROVE  TypeOK /\ ReceiptsAreDurable /\ ReceiptIsConsistent /\ WaitEndsAtTarget
  OBVIOUS
<1> USE DEF ReceiptInv, QueryInv, Pc, Op
<1>1. TypeOK
  BY DEF TypeOK
<1>2. \A q \in Queries : Resolved(q) => ReceiptOK(queries[q]) /\ Pc(q) = "resolved"
  BY DEF Resolved
<1>3. ReceiptsAreDurable /\ ReceiptIsConsistent /\ WaitEndsAtTarget
  BY <1>2 DEF ReceiptsAreDurable, ReceiptIsConsistent, WaitEndsAtTarget, ReceiptOK
<1> QED BY <1>1, <1>3

\* Nothing is known of a transaction of which nothing is known.
LEMMA NullKnown == Null \in Status /\ Known(Null) /\ ~Settled(Null)
BY DEF Null, Status, Known, Settled, Unseen, Processed, Confirmed, Finalized

-----------------------------------------------------------------------------
(* Steps of the chain and of its nodes. *)

\* A confirmed transaction stays.
LEMMA DurableStays ==
  ASSUME chain \in Status, ChainStep, NEW level \in {Confirmed, Finalized}, NEW slot, NEW failed,
         Durable(level, slot, failed)
  PROVE  Durable(level, slot, failed)'
BY DEF ChainStep, Include, Drop, Advance, Durable, Status, Unseen, Processed, Confirmed, Finalized

LEMMA ChainKeeps ==
  ASSUME ReceiptInv, ChainStep
  PROVE  ReceiptInv'
<1>1. chain \in Status /\ UNCHANGED <<config, views, queries>>
  BY DEF ReceiptInv, ChainStep
<1>2. chain' \in Status
  BY SlotsAssumption, <1>1, NullKnown
     DEF ChainStep, Include, Drop, Advance, Status, Unseen, Processed, Confirmed, Finalized
<1>3. ASSUME NEW s, Known(s) PROVE Known(s)'
  <2>1. CASE ~Settled(s) BY <2>1 DEF Known, Settled
  <2>2. CASE Settled(s)
    <3>1. Durable(s.level, s.slot, s.failed) /\ s.level \in {Confirmed, Finalized}
      BY <1>3, <2>2 DEF Known, Settled
    <3> QED BY <1>1, <3>1, DurableStays DEF Known
  <2> QED BY <2>1, <2>2
<1>4. ASSUME NEW k, ReceiptOK(k) PROVE ReceiptOK(k)'
  <2>1. SUFFICES ASSUME k.pc = "resolved" PROVE ReceiptOK(k)'
    BY DEF ReceiptOK
  <2> DEFINE r == k.receipt
             level == IF r.finality = "final" THEN Finalized ELSE Confirmed
             target == IF k.target = "final" THEN Finalized ELSE Confirmed
  <2>2. r.finality # "pending" => Durable(level, r.block, r.success = "false")'
    <3>1. level \in {Confirmed, Finalized}
      OBVIOUS
    <3>2. r.finality # "pending" => Durable(level, r.block, r.success = "false")
      BY <1>4, <2>1 DEF ReceiptOK
    <3> QED BY <1>1, <3>1, <3>2, DurableStays
  <2>3. k.op = "waitForTransaction" => chain'.level >= target
    <3>1. k.op = "waitForTransaction" => Durable(target, chain.slot, chain.failed)
      BY <1>4, <2>1 DEF ReceiptOK, Durable
    <3>2. target \in {Confirmed, Finalized}
      OBVIOUS
    <3>3. k.op = "waitForTransaction" => Durable(target, chain.slot, chain.failed) /\ chain'.level >= target
      BY <1>1, <3>1, <3>2
         DEF ChainStep, Include, Drop, Advance, Durable, Status, Unseen, Processed, Confirmed, Finalized
    <3> QED BY <3>3
  <2> QED BY <1>4, <2>1, <2>2, <2>3 DEF ReceiptOK
<1>5. \A k : QueryInv(k) => QueryInv(k)'
  BY <1>3, <1>4 DEF QueryInv
<1> QED BY <1>1, <1>2, <1>3, <1>5 DEF ReceiptInv, Pc

LEMMA SyncKeeps ==
  ASSUME ReceiptInv, NEW n \in Nodes, Sync(n)
  PROVE  ReceiptInv'
<1>1. /\ views' = [views EXCEPT ![n] = chain] /\ chain' = chain /\ config' = config
      /\ queries' = queries
  BY DEF Sync
<1>2. Known(chain)
  BY DEF Known, Durable, ReceiptInv, Status, Unseen, Finalized
<1>3. views' \in [Nodes -> Status] /\ \A m \in Nodes : Known(views'[m])
  BY <1>1, <1>2 DEF ReceiptInv
<1>4. \A s : Known(s)' = Known(s)
  BY <1>1 DEF Known, Durable
<1>5. \A k : QueryInv(k)' = QueryInv(k)
  BY <1>1, <1>4 DEF QueryInv, ReceiptOK, Durable
<1> QED BY <1>1, <1>3, <1>4, <1>5 DEF ReceiptInv, Pc

-----------------------------------------------------------------------------
(* Steps of a query. *)

\* A step of one query keeps the invariant if it makes it true of that query.
LEMMA QueryStep ==
  ASSUME ReceiptInv, UNCHANGED <<config, chain, views>>, NEW q \in Queries, NEW v \in Query,
         queries' = [queries EXCEPT ![q] = v], QueryInv(v)
  PROVE  ReceiptInv'
<1>1. \A s : Known(s)' = Known(s)
  BY DEF Known, Durable
<1>2. \A k : QueryInv(k)' = QueryInv(k)
  BY <1>1 DEF QueryInv, ReceiptOK, Durable
<1>3. queries' \in [Queries -> {Idle} \cup Query]
  BY DEF ReceiptInv
<1>4. ASSUME NEW p \in Queries, Pc(p)' # "idle" PROVE QueryInv(queries[p])'
  <2>1. CASE p = q BY <1>2, <2>1 DEF ReceiptInv
  <2>2. CASE p # q
    <3>1. queries'[p] = queries[p]
      BY <2>2 DEF ReceiptInv
    <3> QED BY <1>2, <1>4, <3>1 DEF ReceiptInv, Pc
  <2> QED BY <2>1, <2>2
<1> QED BY <1>1, <1>3, <1>4 DEF ReceiptInv

\* What the invariant says of a query under way.
LEMMA QueryFacts ==
  ASSUME ReceiptInv, NEW q \in Queries, Pc(q) \in Awaits
  PROVE  /\ queries[q] \in Query /\ QueryInv(queries[q]) /\ queries[q].receipt = NoReceipt
         /\ Op(q) = queries[q].op /\ Pc(q) = queries[q].pc
BY DEF ReceiptInv, QueryInv, Pc, Op, Idle, Awaits

\* A query that neither resolves nor goes on to ask for the transaction keeps the invariant.
LEMMA Unresolved ==
  ASSUME ReceiptInv, UNCHANGED <<config, chain, views>>, NEW q \in Queries, NEW v \in Query,
         queries' = [queries EXCEPT ![q] = v], Known(v.status), v.receipt = NoReceipt,
         v.pc \notin {"resolved", "transaction"}
  PROVE  ReceiptInv'
<1>1. QueryInv(v)
  BY DEF QueryInv, ReceiptOK
<1> QED BY <1>1, QueryStep

\* So does one that pauses or is rejected.
LEMMA SettlesKeeps ==
  ASSUME ReceiptInv, UNCHANGED <<config, chain, views>>, NEW q \in Queries, Pc(q) \in Awaits,
         Pause(q) \/ \E e \in {"noSuchElement", "rpc", "timeout"} : Throw(q, e)
  PROVE  ReceiptInv'
<1>1. queries[q] \in Query /\ QueryInv(queries[q]) /\ queries[q].receipt = NoReceipt
  BY QueryFacts
<1>2. CASE Pause(q)
  <2>1. /\ [queries[q] EXCEPT !.pc = "pause"] \in Query
        /\ [queries[q] EXCEPT !.pc = "pause"].status = queries[q].status
        /\ [queries[q] EXCEPT !.pc = "pause"].receipt = NoReceipt
        /\ [queries[q] EXCEPT !.pc = "pause"].pc = "pause"
    BY <1>1 DEF Query, Awaits
  <2> QED BY <1>1, <1>2, <2>1, Unresolved DEF Pause, QueryInv
<1>3. ASSUME NEW e \in {"noSuchElement", "rpc", "timeout"}, Throw(q, e) PROVE ReceiptInv'
  <2> DEFINE v == [queries[q] EXCEPT !.pc = "rejected", !.error = e]
  <2>1. /\ v \in Query /\ v.status = queries[q].status /\ v.receipt = NoReceipt
        /\ v.pc = "rejected"
    BY <1>1 DEF Query
  <2> QED BY <1>1, <1>3, <2>1, Unresolved DEF Throw, QueryInv
<1> QED BY <1>2, <1>3

LEMMA BeginKeeps ==
  ASSUME ReceiptInv, NEW q \in Queries, NEW op \in Operations, NEW valid \in BOOLEAN,
         NEW target \in Targets, Begin(q, op, valid, target)
  PROVE  ReceiptInv'
<1> DEFINE k == [op |-> op, target |-> target, status |-> Null, receipt |-> NoReceipt,
                 expired |-> FALSE, error |-> "none",
                 pc |-> IF op = "getTransactionReceipt" THEN "transaction" ELSE "status"]
<1>1. UNCHANGED <<config, chain, views>>
  BY DEF Begin
<1>2. NoReceipt \in Receipt
  BY NullKnown DEF NoReceipt, Receipt
<1>3. PICK v : /\ queries' = [queries EXCEPT ![q] = v]
               /\ \/ v = [k EXCEPT !.pc = "rejected", !.error = "providerRequired"]
                  \/ v = [k EXCEPT !.pc = "rejected", !.error = "invalid"]
                  \/ v = k
  BY DEF Begin
<1>4. /\ v \in Query /\ v.status = Null /\ v.receipt = NoReceipt
      /\ v.pc # "resolved" /\ (v.pc = "transaction" => v.op = "getTransactionReceipt")
  <2>1. /\ k \in Query /\ k.status = Null /\ k.receipt = NoReceipt /\ k.op = op
        /\ k.pc # "resolved" /\ (k.pc = "transaction" => k.op = "getTransactionReceipt")
    BY <1>2, NullKnown DEF Query, Awaits
  <2> HIDE DEF k
  <2>2. ASSUME NEW e \in {"providerRequired", "invalid"}, v = [k EXCEPT !.pc = "rejected", !.error = e]
        PROVE  /\ v \in Query /\ v.status = k.status /\ v.receipt = k.receipt
               /\ v.pc = "rejected"
    BY <2>1, <2>2 DEF Query
  <2> QED BY <1>3, <2>1, <2>2
<1>5. QueryInv(v)
  BY <1>4, NullKnown DEF QueryInv, ReceiptOK
<1> QED BY <1>1, <1>3, <1>4, <1>5, QueryStep

\* A query that gets the receipt made of a known status and of a transaction a node knows of
\* keeps the invariant; a wait may go on instead.
LEMMA ReturnKeeps ==
  ASSUME ReceiptInv, UNCHANGED <<config, chain, views>>, NEW q \in Queries, Pc(q) \in Awaits,
         NEW k \in Query, k.op = Op(q), k.receipt = NoReceipt, Known(k.status),
         NEW t \in Status,
         t # Null => Settled(k.status) /\ t.slot = k.status.slot /\ t.failed = k.status.failed,
         Return(q, k, ReceiptOf(k.status, t))
  PROVE  ReceiptInv'
<1> DEFINE receipt == ReceiptOf(k.status, t)
<1>1. /\ receipt \in Receipt
      /\ receipt.finality = Finality(k.status) /\ receipt.block = k.status.slot
      /\ receipt.success = IF ~Settled(k.status) THEN "undefined"
                           ELSE IF k.status.failed THEN "false" ELSE "true"
      /\ receipt.transaction = t
  BY DEF ReceiptOf, Receipt, Finality, Query, Status
<1>2. CASE Op(q) = "waitForTransaction" /\ ~Reaches(receipt.finality, k.target)
  <2>1. queries' = [queries EXCEPT ![q] = [k EXCEPT !.pc = "pause"]]
    BY <1>2 DEF Return
  <2>2. /\ [k EXCEPT !.pc = "pause"] \in Query /\ [k EXCEPT !.pc = "pause"].pc = "pause"
        /\ [k EXCEPT !.pc = "pause"].status = k.status
        /\ [k EXCEPT !.pc = "pause"].receipt = NoReceipt
    BY DEF Query, Awaits
  <2> QED BY <2>1, <2>2, Unresolved
<1>3. CASE ~(Op(q) = "waitForTransaction" /\ ~Reaches(receipt.finality, k.target))
  <2> DEFINE v == [k EXCEPT !.pc = "resolved", !.receipt = receipt]
  <2>1. queries' = [queries EXCEPT ![q] = v]
    BY <1>3 DEF Return
  <2> HIDE DEF receipt
  <2>2. /\ v \in Query /\ v.pc = "resolved" /\ v.receipt = receipt /\ v.status = k.status
        /\ v.op = k.op /\ v.target = k.target
    BY <1>1 DEF Query
  <2>3. /\ Settled(k.status) <=> receipt.finality # "pending"
        /\ receipt.finality = "final" <=> k.status.level = Finalized
        /\ Settled(k.status) => /\ Durable(k.status.level, k.status.slot, k.status.failed)
                                /\ k.status.level \in {Confirmed, Finalized}
    BY <1>1 DEF Finality, Settled, Known, Confirmed, Finalized
  <2>4. k.status.failed \in BOOLEAN /\ chain.level \in Nat
    BY DEF Query, Status, ReceiptInv, Unseen, Finalized
  <2>5. receipt.finality # "pending" =>
          Durable(IF receipt.finality = "final" THEN Finalized ELSE Confirmed,
                  receipt.block, receipt.success = "false")
    BY <1>1, <2>3, <2>4 DEF Durable, Confirmed, Finalized
  <2>6. v.op = "waitForTransaction" =>
          chain.level >= IF v.target = "final" THEN Finalized ELSE Confirmed
    <3>1. v.op = "waitForTransaction" => receipt.finality = "final" \/ receipt.finality = v.target
      BY <1>3, <2>2 DEF Reaches
    <3>2. v.target \in {"confirmed", "final"}
      BY <2>2 DEF Query, Targets
    <3> QED BY <2>4, <2>5, <3>1, <3>2 DEF Durable, Confirmed, Finalized
  <2>7. receipt.transaction # Null =>
          /\ receipt.transaction.slot = receipt.block
          /\ receipt.success = IF receipt.transaction.failed THEN "false" ELSE "true"
    BY <1>1
  <2>8. QueryInv(v)
    BY <2>2, <2>5, <2>6, <2>7 DEF QueryInv, ReceiptOK
  <2> QED BY <2>1, <2>2, <2>8, QueryStep
<1> QED BY <1>2, <1>3

LEMMA StatusKeeps ==
  ASSUME ReceiptInv, NEW q \in Queries, StatusAnswered(q)
  PROVE  ReceiptInv'
<1>1. /\ Pc(q) \in Awaits /\ Pc(q) = "status" /\ UNCHANGED <<config, chain, views>>
  BY DEF StatusAnswered, Awaits
<1>2. /\ queries[q] \in Query /\ QueryInv(queries[q]) /\ queries[q].receipt = NoReceipt
      /\ Op(q) = queries[q].op
  BY <1>1, QueryFacts
<1>3. PICK n \in Nodes :
        LET k == [queries[q] EXCEPT !.status = views[n]] IN
        IF k.status.level = Unseen
        THEN IF Op(q) = "waitForTransaction" THEN Pause(q) ELSE Throw(q, "noSuchElement")
        ELSE IF Settled(k.status)
        THEN queries' = [queries EXCEPT ![q] = [k EXCEPT !.pc = "transaction"]]
        ELSE Return(q, k, ReceiptOf(k.status, Null))
  BY DEF StatusAnswered
<1> DEFINE k == [queries[q] EXCEPT !.status = views[n]]
<1>4. /\ k \in Query /\ k.status = views[n] /\ k.receipt = NoReceipt /\ k.op = Op(q)
      /\ k.pc = "status" /\ Known(k.status)
  BY <1>1, <1>2 DEF ReceiptInv, Query, Pc
<1>5. ASSUME Pause(q) \/ Throw(q, "noSuchElement") PROVE ReceiptInv'
  BY <1>1, <1>5, SettlesKeeps
<1>6. ASSUME Settled(k.status), queries' = [queries EXCEPT ![q] = [k EXCEPT !.pc = "transaction"]]
      PROVE  ReceiptInv'
  <2> DEFINE v == [k EXCEPT !.pc = "transaction"]
  <2>1. /\ v \in Query /\ v.pc = "transaction" /\ v.status = k.status /\ v.receipt = NoReceipt
    BY <1>4 DEF Query, Awaits
  <2>2. QueryInv(v)
    BY <1>4, <1>6, <2>1 DEF QueryInv, ReceiptOK
  <2> QED BY <1>1, <1>6, <2>1, <2>2, QueryStep
<1>7. ASSUME Return(q, k, ReceiptOf(k.status, Null)) PROVE ReceiptInv'
  BY <1>1, <1>4, <1>7, NullKnown, ReturnKeeps
<1> QED BY <1>3, <1>5, <1>6, <1>7

\* The transaction a node finds for a settled status is the one of that status.
LEMMA TransactionKeeps ==
  ASSUME ReceiptInv, NEW q \in Queries, TransactionAnswered(q)
  PROVE  ReceiptInv'
<1>1. /\ Pc(q) \in Awaits /\ Pc(q) = "transaction" /\ UNCHANGED <<config, chain, views>>
  BY DEF TransactionAnswered, Awaits
<1>2. /\ queries[q] \in Query /\ QueryInv(queries[q]) /\ queries[q].receipt = NoReceipt
      /\ Op(q) = queries[q].op /\ queries[q].pc = "transaction"
  BY <1>1, QueryFacts
<1>3. PICK n \in Nodes :
        IF Op(q) = "getTransactionReceipt"
        THEN queries' = [queries EXCEPT ![q] =
               [@ EXCEPT !.pc = "resolved", !.receipt.transaction = Found(views[n])]]
        ELSE Return(q, queries[q], ReceiptOf(queries[q].status, Found(views[n])))
  BY DEF TransactionAnswered
<1> DEFINE t == Found(views[n])
<1>4. t \in Status /\ Known(views[n]) /\ (t # Null => t = views[n] /\ Settled(views[n]))
  BY NullKnown DEF Found, ReceiptInv, Status, Settled, Unseen, Confirmed, Finalized
<1> HIDE DEF t
<1>5. CASE Op(q) = "getTransactionReceipt"
  <2> DEFINE v == [queries[q] EXCEPT !.pc = "resolved", !.receipt.transaction = t]
  <2>1. queries' = [queries EXCEPT ![q] = v]
    BY <1>3, <1>5 DEF t, ReceiptInv
  <2> DEFINE r == [queries[q].receipt EXCEPT !.transaction = t]
  <2>2. r \in Receipt /\ r.finality = "pending"
    <3>1. queries[q].receipt \in Receipt /\ queries[q].receipt.finality = "pending"
      BY <1>2 DEF Query, NoReceipt
    <3> QED BY <1>4, <3>1 DEF Receipt
  <2>3. v = [queries[q] EXCEPT !.pc = "resolved", !.receipt = r]
    BY <1>2 DEF Query
  <2>4. /\ v \in Query /\ v.pc = "resolved" /\ v.op = "getTransactionReceipt"
        /\ v.status = queries[q].status /\ v.receipt.finality = "pending"
    BY <1>2, <1>5, <2>2, <2>3 DEF Query
  <2>5. QueryInv(v)
    BY <1>2, <2>4 DEF QueryInv, ReceiptOK
  <2> QED BY <1>1, <2>1, <2>4, <2>5, QueryStep
<1>6. CASE Op(q) # "getTransactionReceipt"
  <2>1. Return(q, queries[q], ReceiptOf(queries[q].status, t))
    BY <1>3, <1>6 DEF t
  <2>2. Settled(queries[q].status) /\ Known(queries[q].status)
    BY <1>2, <1>6 DEF QueryInv
  <2>3. t # Null => t.slot = queries[q].status.slot /\ t.failed = queries[q].status.failed
    BY <1>4, <2>2 DEF Known, Durable
  <2> QED BY <1>1, <1>2, <1>4, <2>1, <2>2, <2>3, ReturnKeeps
<1> QED BY <1>5, <1>6

LEMMA OtherStepsKeep ==
  ASSUME ReceiptInv, NEW q \in Queries, RequestFails(q) \/ Poll(q) \/ TimesOut(q) \/ Expire(q)
  PROVE  ReceiptInv'
<1>1. Pc(q) \in Awaits /\ UNCHANGED <<config, chain, views>>
  BY DEF RequestFails, Poll, TimesOut, Expire, Awaits
<1>2. /\ queries[q] \in Query /\ QueryInv(queries[q]) /\ queries[q].receipt = NoReceipt
      /\ Pc(q) = queries[q].pc
  BY <1>1, QueryFacts
<1>3. CASE Pause(q) \/ Throw(q, "rpc") \/ Throw(q, "timeout")
  BY <1>1, <1>3, SettlesKeeps
<1>4. CASE Poll(q)
  <2> DEFINE v == [queries[q] EXCEPT !.pc = "status"]
  <2>1. /\ v \in Query /\ v.pc = "status" /\ v.status = queries[q].status /\ v.receipt = NoReceipt
    BY <1>2 DEF Query, Awaits
  <2>2. queries' = [queries EXCEPT ![q] = v]
    BY <1>4 DEF Poll
  <2> QED BY <1>1, <1>2, <2>1, <2>2, Unresolved DEF QueryInv
<1>5. CASE Expire(q)
  <2> DEFINE v == [queries[q] EXCEPT !.expired = TRUE]
  <2>1. /\ v \in Query /\ v.pc = queries[q].pc /\ v.status = queries[q].status
        /\ v.receipt = NoReceipt /\ v.op = queries[q].op
    BY <1>2 DEF Query
  <2>2. queries' = [queries EXCEPT ![q] = v]
    BY <1>5 DEF Expire
  <2>3. QueryInv(v)
    BY <1>1, <1>2, <2>1 DEF QueryInv, ReceiptOK, Awaits
  <2> QED BY <1>1, <2>1, <2>2, <2>3, QueryStep
<1> QED BY <1>3, <1>4, <1>5 DEF RequestFails, TimesOut

-----------------------------------------------------------------------------
(* The theorems. *)

LEMMA ReceiptInit == Init => ReceiptInv
<1> SUFFICES ASSUME Init PROVE ReceiptInv
  OBVIOUS
<1>1. \A n \in Nodes : Known(views[n])
  BY NullKnown DEF Init
<1>2. \A q \in Queries : Pc(q) = "idle"
  BY DEF Init, Pc, Idle
<1> QED BY <1>1, <1>2, NullKnown DEF Init, ReceiptInv

\* Whatever the chain, the nodes and the other queries do, what the queries know is true.
THEOREM ReceiptInvariant == Spec => []ReceiptInv
<1>1. ReceiptInv /\ [Next]_vars => ReceiptInv'
  <2> SUFFICES ASSUME ReceiptInv, [Next]_vars PROVE ReceiptInv'
    OBVIOUS
  <2>1. CASE UNCHANGED vars
    <3>1. \A k : QueryInv(k)' = QueryInv(k) /\ Known(k)' = Known(k)
      BY <2>1 DEF vars, QueryInv, ReceiptOK, Known, Durable
    <3> QED BY <2>1, <3>1 DEF vars, ReceiptInv, Pc
  <2> QED BY <2>1, ChainKeeps, SyncKeeps, BeginKeeps, StatusKeeps, TransactionKeeps, OtherStepsKeep
          DEF Next, Resume
<1> QED BY <1>1, ReceiptInit, PTL DEF Spec

\* Every variable of Receipts keeps its type.
THEOREM ReceiptTypes == Spec => []TypeOK
BY ReceiptInvariant, ReceiptInvImplies, PTL

\* A receipt that is not pending stays true, whichever node answered.
THEOREM DurableHolds == Spec => []ReceiptsAreDurable
BY ReceiptInvariant, ReceiptInvImplies, PTL

\* The transaction a receipt carries is the one the receipt tells of.
THEOREM ConsistentHolds == Spec => []ReceiptIsConsistent
BY ReceiptInvariant, ReceiptInvImplies, PTL

\* A wait resolves only at the finality it waits for.
THEOREM WaitHolds == Spec => []WaitEndsAtTarget
BY ReceiptInvariant, ReceiptInvImplies, PTL
=============================================================================
