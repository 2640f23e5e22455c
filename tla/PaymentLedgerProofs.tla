------------------------ MODULE PaymentLedgerProofs ------------------------
(***************************************************************************)
(* What becomes of the transfers of a SolanaAccount, for any calls, fees,  *)
(* caps and validity of a blockhash, and however the recipient's token     *)
(* account comes and goes.                                                 *)
(***************************************************************************)
EXTENDS PaymentLedger, SolanaAccountProofs

-----------------------------------------------------------------------------
(* Where a step of a transfer leads. *)

\* Call c, with a well-typed continuation, goes on to one of the awaits in ats, or settles as one
\* of ends.
Goes(c, ats, ends) ==
  \E k \in Call :
    /\ k.message.lifetime <= latest
    /\ \/ \E at \in ats : Suspend(c, k, at)
       \/ "resolved" \in ends /\ Resolve(c, k)
       \/ "rejected" \in ends /\ \E e \in Errors : Reject(c, k, e)

LEMMA GoesThere ==
  ASSUME TypeOK, NEW c \in Calls, NEW ats \in SUBSET Awaits, NEW ends, Goes(c, ats, ends)
  PROVE  /\ calls' = [calls EXCEPT ![c] = calls'[c]]
         /\ Pc(c)' \in ats \cup ends \cup {"rejected"}
<1>1. PICK k \in Call :
        /\ k.message.lifetime <= latest
        /\ \/ \E at \in ats : Suspend(c, k, at)
           \/ "resolved" \in ends /\ Resolve(c, k)
           \/ "rejected" \in ends /\ \E e \in Errors : Reject(c, k, e)
  BY DEF Goes
<1>2. PICK v \in Call : calls' = [calls EXCEPT ![c] = v] /\ v.pc \in ats \cup ends \cup {"rejected"}
  <2>1. CASE \E at \in ats : Suspend(c, k, at) BY <1>1, <2>1, SuspendMoves, TypeOKCalls
  <2>2. CASE "resolved" \in ends /\ Resolve(c, k) BY <1>1, <2>2, ResolveMoves, TypeOKCalls
  <2>3. CASE "rejected" \in ends /\ \E e \in Errors : Reject(c, k, e)
    BY <1>1, <2>3, RejectMoves, TypeOKCalls
  <2> QED BY <1>1, <2>1, <2>2, <2>3
<1> QED BY <1>2 DEF TypeOK, Pc

\* A transfer that is just being made asks for the account's address, or is rejected.
LEMMA InvokeGoes ==
  ASSUME TypeOK, NEW c \in Calls, Invoke(c)
  PROVE  Pc(c) = "idle" /\ Goes(c, {"address"}, {"rejected"})
<1>1. PICK r \in Requests :
        /\ r.lifetime <= latest
        /\ \/ GetAddress(c, r) \/ ToReadOnlyAccount(c, r) \/ Sign(c, r)
           \/ SignTransaction(c, r) \/ SendTransaction(c, r) \/ QuoteSendTransaction(c, r)
           \/ Transfer(c, r) \/ QuoteTransfer(c, r)
  BY DEF Invoke
<1>2. Fresh(r) \in Call /\ Fresh(r).message.lifetime <= latest
  BY <1>1, FreshTyped
<1>3. r.op \in {"transfer", "quoteTransfer"}
  BY TransfersOnly, RequestsAssumption DEF IsRequest, Forms, Operations
<1>4. CASE Transfer(c, r) BY <1>2, <1>4 DEF Transfer, Made, Goes, Errors
<1>5. CASE QuoteTransfer(c, r) BY <1>2, <1>5 DEF QuoteTransfer, Made, Goes, Errors
<1> QED BY <1>1, <1>3, <1>4, <1>5
        DEF Made, GetAddress, ToReadOnlyAccount, Sign, SignTransaction, SendTransaction,
            QuoteSendTransaction

\* The awaits behind the answer about the recipient's token account.
ToldAwaits == {"blockhash", "lifetime", "fee", "broadcast", "signer", "payer", "signing"}

\* A transfer that has the address asks for the recipient's token account, and then never again.
LEMMA ResumeGoes ==
  ASSUME SpendInv, NEW c \in Calls, Resume(c), ~SignerCreated(c)
  PROVE  /\ Pc(c) # "idle"
         /\ Pc(c) = "address" => Goes(c, {"ataInfo"}, {"rejected"})
         /\ Pc(c) = "ataInfo" => Goes(c, {"blockhash"}, {"rejected"})
         /\ Pc(c) \notin {"address", "ataInfo"} => Goes(c, ToldAwaits, {"resolved", "rejected"})
<1> USE DEF Resumes, ToldAwaits, Errors
<1>1. Pc(c) # "idle"
  BY DEF Resume, OwnerKnown, ReadOnlyAccountCreated, AddressKnown, SignerKnown, AtaInfoAnswered,
         BlockhashAnswered, LifetimeEnsured, PayerCompared, FeeAnswered, FeeUnknown, Signature,
         Broadcast, RpcFails, RpcAwaits
<1>2. /\ calls[c] \in Call /\ calls[c].message.lifetime <= latest
      /\ CallInv(c) /\ IsRequest(Req(c)) /\ latest \in Lifetimes /\ latest <= latest
      /\ Req(c).form = "spl"
  BY <1>1, CallFacts, TransfersOnly
<1>3. Req(c).op \in {"transfer", "quoteTransfer"}
  BY <1>2 DEF IsRequest, Forms, Operations
<1>4. ~OwnerKnown(c) /\ ~ReadOnlyAccountCreated(c)
  BY <1>2, <1>3 DEF OwnerKnown, ReadOnlyAccountCreated, CallInv, OnRoute, Settled
<1>5. CASE AddressKnown(c) BY <1>2, <1>3, <1>5 DEF AddressKnown, Goes
<1>6. CASE SignerKnown(c) BY <1>2, <1>6 DEF SignerKnown, Goes
<1>7. CASE AtaInfoAnswered(c) BY <1>2, <1>7 DEF AtaInfoAnswered, Goes
<1>8. CASE BlockhashAnswered(c)
  <2> DEFINE k == [calls[c] EXCEPT !.message = [payer |-> "own", lifetime |-> latest]]
  <2>1. k \in Call /\ k.message.lifetime <= latest
    BY <1>2 DEF Call, Message
  <2> QED BY <1>2, <1>8, <2>1 DEF BlockhashAnswered, Goes
<1>9. CASE LifetimeEnsured(c)
  <2> DEFINE k == [calls[c] EXCEPT !.message.lifetime = IF @ = 0 THEN latest ELSE @]
             n == [k EXCEPT !.message.payer = "own"]
  <2>1. k \in Call /\ k.message.lifetime <= latest /\ n \in Call /\ n.message.lifetime <= latest
    BY <1>2 DEF Call, Message
  <2> QED BY <1>9, <2>1 DEF LifetimeEnsured, Prepared, Goes
<1>10. CASE PayerCompared(c) BY <1>2, <1>10 DEF PayerCompared, Prepared, Goes
<1>11. CASE FeeAnswered(c)
  <2>1. PICK fee \in Fees :
          LET k == [calls[c] EXCEPT !.fee = fee] IN
          IF Exceeds(fee, Cap(Req(c).op)) THEN Reject(c, k, "feeExceeded")
          ELSE IF Quotes(Req(c).op) THEN Resolve(c, k)
          ELSE IF Req(c).op = "signTransaction" /\ Req(c).form = "serialized" THEN Resolve(c, k)
          ELSE Suspend(c, k, "signer")
    BY <1>2, <1>11 DEF FeeAnswered
  <2>2. /\ [calls[c] EXCEPT !.fee = fee] \in Call
        /\ [calls[c] EXCEPT !.fee = fee].message.lifetime <= latest
    BY <1>2 DEF Call
  <2> QED BY <1>11, <2>1, <2>2 DEF FeeAnswered, Goes
<1>12. CASE FeeUnknown(c) BY <1>2, <1>12 DEF FeeUnknown, Goes
<1>13. CASE Signature(c) BY <1>2, <1>13 DEF Signature, Goes
<1>14. CASE Broadcast(c) BY <1>2, <1>14 DEF Broadcast, Goes
<1>15. CASE RpcFails(c) BY <1>2, <1>15 DEF RpcFails, Goes, RpcAwaits
<1> QED BY <1>1, <1>4, <1>5, <1>6, <1>7, <1>8, <1>9, <1>10, <1>11, <1>12, <1>13, <1>14, <1>15
        DEF Resume

\* What a step of call c does to its await and to the wire.
Moves(c) ==
  /\ calls' = [calls EXCEPT ![c] = calls'[c]]
  /\ Pc(c) = "idle" => Pc(c)' \in {"address", "rejected"}
  /\ Pc(c) = "address" => Pc(c)' \in {"address", "ataInfo", "rejected"}
  /\ Pc(c) = "ataInfo" => Pc(c)' \in {"blockhash", "rejected"}
  /\ Pc(c) \notin {"idle", "address", "ataInfo"} => Pc(c)' \notin {"idle", "address", "ataInfo"}
  /\ Pc(c) = "rejected" => Pc(c)' = "rejected"
  /\ wire' = wire \/ (Pc(c) = "broadcast" /\ wire' = wire \cup {SentBy(c)})

LEMMA CallMoves ==
  ASSUME SpendInv, NEW c \in Calls, Invoke(c) \/ Resume(c)
  PROVE  Moves(c)
<1>1. TypeOK
  BY DEF SpendInv
<1>2. CASE Invoke(c)
  <2>1. Pc(c) = "idle" /\ Goes(c, {"address"}, {"rejected"}) /\ wire' = wire
    BY <1>1, <1>2, InvokeGoes DEF Invoke, historyVars
  <2>2. {"address"} \in SUBSET Awaits
    BY DEF Awaits, SignerAwaits
  <2>3. /\ calls' = [calls EXCEPT ![c] = calls'[c]]
        /\ Pc(c)' \in {"address"} \cup {"rejected"} \cup {"rejected"}
    BY <1>1, <2>1, <2>2, GoesThere
  <2> QED BY <2>1, <2>3 DEF Moves
<1>3. CASE SignerCreated(c)
  <2>1. /\ calls' = [calls EXCEPT ![c] = [calls[c] EXCEPT !.acquiring = "cached"]]
        /\ wire' = wire /\ Pc(c) \in SignerAwaits
    BY <1>3 DEF SignerCreated, historyVars
  <2>2. calls[c] \in Call
    BY <1>1, <2>1, TypeOKCalls, NotIdle DEF SignerAwaits
  <2>3. calls'[c] = [calls[c] EXCEPT !.acquiring = "cached"]
    BY <1>1, <2>1 DEF TypeOK
  <2>4. Pc(c)' = Pc(c)
    BY <2>2, <2>3 DEF Pc, Call
  <2> QED BY <2>1, <2>3, <2>4 DEF Moves, SignerAwaits
<1>4. CASE Resume(c) /\ ~SignerCreated(c)
  <2>1. wire' = wire \/ (Pc(c) = "broadcast" /\ wire' = wire \cup {SentBy(c)})
    BY <1>4 DEF Resume, OwnerKnown, ReadOnlyAccountCreated, AddressKnown, SignerKnown,
       AtaInfoAnswered, BlockhashAnswered, LifetimeEnsured, PayerCompared, FeeAnswered, FeeUnknown,
       Signature, Broadcast, RpcFails, SentBy, Resumes, historyVars
  <2>2. Pc(c) # "idle" /\ Pc(c) # "rejected"
    BY <1>4 DEF Resume, OwnerKnown, ReadOnlyAccountCreated, AddressKnown, SignerKnown,
       AtaInfoAnswered, BlockhashAnswered, LifetimeEnsured, PayerCompared, FeeAnswered, FeeUnknown,
       Signature, Broadcast, RpcFails, Resumes, RpcAwaits
  <2> USE DEF Awaits, SignerAwaits, RpcAwaits, ToldAwaits
  <2>3. CASE Pc(c) = "address"
    <3>1. /\ calls' = [calls EXCEPT ![c] = calls'[c]]
          /\ Pc(c)' \in {"ataInfo"} \cup {"rejected"} \cup {"rejected"}
      BY <1>1, <1>4, <2>3, ResumeGoes, GoesThere
    <3> QED BY <2>1, <2>3, <3>1 DEF Moves
  <2>4. CASE Pc(c) = "ataInfo"
    <3>1. /\ calls' = [calls EXCEPT ![c] = calls'[c]]
          /\ Pc(c)' \in {"blockhash"} \cup {"rejected"} \cup {"rejected"}
      BY <1>1, <1>4, <2>4, ResumeGoes, GoesThere
    <3> QED BY <2>1, <2>4, <3>1 DEF Moves
  <2>5. CASE Pc(c) \notin {"address", "ataInfo"}
    <3>1. /\ calls' = [calls EXCEPT ![c] = calls'[c]]
          /\ Pc(c)' \in ToldAwaits \cup {"resolved", "rejected"} \cup {"rejected"}
      BY <1>1, <1>4, <2>5, ResumeGoes, GoesThere
    <3> QED BY <2>1, <2>2, <2>5, <3>1 DEF Moves
  <2> QED BY <2>3, <2>4, <2>5
<1> QED BY <1>2, <1>3, <1>4

-----------------------------------------------------------------------------
(* The invariant. *)

\* The node's latest blockhash only advances.
LEMMA LatestGrows ==
  ASSUME SpendInv, Next
  PROVE  latest \in Nat /\ latest' \in Nat /\ latest <= latest'
<1>1. latest \in Nat
  BY DEF SpendInv, TypeOK
<1>2. CASE \E c \in Calls : Invoke(c) \/ Resume(c)
  BY <1>1, <1>2 DEF Invoke, Resume, SignerCreated, OwnerKnown, ReadOnlyAccountCreated, AddressKnown,
     SignerKnown, AtaInfoAnswered, BlockhashAnswered, LifetimeEnsured, PayerCompared, FeeAnswered,
     FeeUnknown, Signature, Broadcast, RpcFails
<1>3. CASE Dispose \/ DisposeAgain \/ NewBlock
  BY <1>1, <1>3 DEF Dispose, DisposeAgain, NewBlock
<1> QED BY <1>2, <1>3 DEF Next

\* A closing that a call could not know of stays one, and the ledger goes on naming it.
LEMMA ClosedUnknownStays ==
  ASSUME NEW c, lookup'[c] = lookup[c], closings \subseteq closings',
         closings \subseteq Nat, NEW by \in Nat, NEW later \in Nat, by <= later,
         ClosedUnknown(c, by)
  PROVE  (\E b \in closings' : lookup'[c].at <= b + Lag /\ b <= later)
<1>1. PICK b \in closings : lookup[c].at <= b + Lag /\ b <= by
  BY DEF ClosedUnknown
<1>2. b <= later
  BY <1>1
<1> QED BY <1>1, <1>2

LEMMA LedgerInitInv == LedgerInit => LedgerInv
<1> SUFFICES ASSUME LedgerInit PROVE LedgerInv
  OBVIOUS
<1>1. /\ latest = 1 /\ changedAt = 0 /\ closings = {} /\ ledger = {} /\ wire = {}
      /\ recipient \in {"open", "absent"}
  BY DEF LedgerInit, Init
<1>2. \A c \in Calls : lookup[c] = [answer |-> "none", at |-> 0] /\ Pc(c) = "idle"
  BY DEF LedgerInit, Init, Pc, Idle, NotTold
<1>3. lookup \in [Calls -> [answer : {"none", "open", "absent"}, at : 0..latest]]
  BY <1>1 DEF LedgerInit, NotTold
<1>4. ASSUME NEW c \in Calls PROVE lookup[c].answer = "none" /\ ~Told(c)
  <2>1. lookup[c] = [answer |-> "none", at |-> 0]
    BY <1>2
  <2>2. lookup[c].answer = "none"
    BY <2>1
  <2>3. ~Told(c)
    BY <1>2 DEF Told
  <2> QED BY <2>2, <2>3
<1> QED BY <1>1, <1>3, <1>4 DEF LedgerInv, LedgerTypeOK, FailsOnlyIfClosed

\* What the node says of the account is so, unless the account was closed when the node did not
\* know of it yet.
LEMMA ToldOpen ==
  ASSUME LedgerInv, latest \in Nat, NEW answer \in Answers, answer = "open", recipient # "open"
  PROVE  \E b \in closings : latest <= b + Lag /\ b <= latest
<1>1. changedAt # 0 /\ latest <= changedAt + Lag
  BY DEF Answers
<1>2. changedAt \in closings /\ changedAt <= latest
  BY <1>1 DEF LedgerInv, LedgerTypeOK
<1> QED BY <1>1, <1>2

\* A step of the account keeps what the ledger says if a call learns of the recipient's token
\* account exactly when it is answered.
LEMMA LookupKeepsLedger ==
  ASSUME SpendInv, LedgerInv, AccountStep,
         wire \subseteq wire',
         \A tx \in wire' : tx \in wire \/ (tx.call \in Calls /\ Told(tx.call)),
         \A d \in Calls : Told(d)' => Told(d) \/ LooksUp(d),
         \A d \in Calls : Pc(d)' \in {"idle", "address", "ataInfo"}
                            => Pc(d) \in {"idle", "address", "ataInfo"}
  PROVE  LedgerInv'
<1>1. latest \in Nat /\ latest' \in Nat /\ latest <= latest'
  BY LatestGrows DEF AccountStep
<1>2. PICK answer \in Answers :
        lookup' = [d \in Calls |-> IF LooksUp(d) THEN [answer |-> answer, at |-> latest] ELSE lookup[d]]
  BY DEF AccountStep
<1>3. recipient' = recipient /\ changedAt' = changedAt /\ closings' = closings /\ ledger' = ledger
  BY DEF AccountStep, chainVars
<1>4. answer \in {"open", "absent"}
  BY DEF Answers, LedgerInv, LedgerTypeOK
<1>5. ASSUME NEW d \in Calls
      PROVE  /\ LooksUp(d) => lookup'[d] = [answer |-> answer, at |-> latest]
             /\ ~LooksUp(d) => lookup'[d] = lookup[d]
             /\ LooksUp(d) => Pc(d) = "ataInfo" /\ Pc(d)' = "blockhash" /\ lookup[d].answer = "none"
  <2>1. LooksUp(d) => Pc(d) = "ataInfo" /\ Pc(d)' = "blockhash"
    BY DEF LooksUp
  <2> QED BY <1>2, <2>1 DEF LedgerInv, LedgerTypeOK
<1>6. lookup \in [Calls -> [answer : {"none", "open", "absent"}, at : 0..latest]]
  BY DEF LedgerInv, LedgerTypeOK
<1>7. lookup' \in [Calls -> [answer : {"none", "open", "absent"}, at : 0..latest']]
  <2>1. ASSUME NEW d \in Calls
        PROVE  (IF LooksUp(d) THEN [answer |-> answer, at |-> latest] ELSE lookup[d])
                 \in [answer : {"none", "open", "absent"}, at : 0..latest']
    <3>1. [answer |-> answer, at |-> latest] \in [answer : {"none", "open", "absent"}, at : 0..latest']
      BY <1>1, <1>4
    <3>2. lookup[d] \in [answer : {"none", "open", "absent"}, at : 0..latest']
      BY <1>1, <1>6
    <3> QED BY <3>1, <3>2
  <2> QED BY <1>2, <2>1
<1>8. ASSUME NEW d \in Calls
      PROVE  /\ Told(d)' => lookup'[d].answer # "none"
             /\ Pc(d)' \in {"idle", "address", "ataInfo"} => lookup'[d].answer = "none"
             /\ lookup[d].answer # "none" => lookup'[d] = lookup[d]
  BY <1>4, <1>5 DEF LedgerInv, LedgerTypeOK
<1>9. /\ closings \subseteq Nat
      /\ \A entry \in ledger : entry.tx \in wire /\ entry.at \in Nat
  BY <1>1 DEF LedgerInv, LedgerTypeOK
<1>10. \A tx \in wire : tx.call \in Calls /\ lookup'[tx.call] = lookup[tx.call]
  BY <1>8 DEF SpendInv, TypeOK, LedgerInv
<1>11. ASSUME NEW tx \in wire' PROVE lookup'[tx.call].answer # "none"
  <2>1. CASE tx \in wire
    BY <1>10, <2>1 DEF LedgerInv
  <2>2. CASE tx.call \in Calls /\ Told(tx.call)
    BY <1>8, <2>2 DEF LedgerInv, LedgerTypeOK
  <2> QED BY <2>1, <2>2
<1>12. ASSUME NEW d \in Calls, lookup'[d].answer = "open"
       PROVE  recipient' = "open" \/ ClosedUnknown(d, latest)'
  <2>1. CASE LooksUp(d)
    <3>1. lookup'[d].at = latest /\ answer = "open"
      BY <1>5, <1>12, <2>1
    <3>2. recipient # "open" => \E b \in closings : latest <= b + Lag /\ b <= latest
      BY <1>1, <3>1, ToldOpen
    <3>3. recipient # "open" => \E b \in closings' : lookup'[d].at <= b + Lag /\ b <= latest'
      BY <1>1, <1>3, <1>9, <3>1, <3>2
    <3> QED BY <1>3, <3>3 DEF ClosedUnknown
  <2>2. CASE ~LooksUp(d)
    <3>1. lookup'[d] = lookup[d]
      BY <1>5, <2>2
    <3>2. recipient = "open" \/ ClosedUnknown(d, latest)
      BY <1>12, <3>1 DEF LedgerInv
    <3>3. ClosedUnknown(d, latest) => \E b \in closings' : lookup'[d].at <= b + Lag /\ b <= latest'
      BY <1>1, <1>3, <1>9, <3>1, ClosedUnknownStays
    <3> QED BY <1>3, <3>2, <3>3 DEF ClosedUnknown
  <2> QED BY <2>1, <2>2
<1>13. FailsOnlyIfClosed'
  <2>1. ASSUME NEW entry \in ledger, entry.outcome = "failed"
        PROVE  \E b \in closings' : lookup'[entry.tx.call].at <= b + Lag /\ b <= entry.at
    <3>1. ClosedUnknown(entry.tx.call, entry.at)
      BY <2>1 DEF LedgerInv, FailsOnlyIfClosed
    <3>2. lookup'[entry.tx.call] = lookup[entry.tx.call]
      BY <1>9, <1>10
    <3> QED BY <1>3, <3>1, <3>2 DEF ClosedUnknown
  <2> QED BY <1>3, <2>1 DEF FailsOnlyIfClosed, ClosedUnknown
<1>14. LedgerTypeOK'
  <2>1. recipient' \in {"open", "absent"} /\ changedAt' \in 0..latest' /\ closings' \subseteq 1..latest'
    BY <1>1, <1>3 DEF LedgerInv, LedgerTypeOK
  <2>2. ledger' \subseteq [tx : wire', at : 1..latest', outcome : {"paid", "failed"}, rent : {0, Rent}]
    <3>1. ledger \subseteq [tx : wire, at : 1..latest, outcome : {"paid", "failed"}, rent : {0, Rent}]
      BY DEF LedgerInv, LedgerTypeOK
    <3> QED BY <1>1, <1>3, <3>1
  <2> QED BY <1>7, <1>8, <2>1, <2>2 DEF LedgerTypeOK
<1>15. /\ recipient' = "absent" /\ changedAt' # 0 => changedAt' \in closings'
       /\ \A entry \in ledger' : entry.at <= entry.tx.message.lifetime + MaxAge
  BY <1>3 DEF LedgerInv
<1> QED BY <1>11, <1>12, <1>13, <1>14, <1>15 DEF LedgerInv

LEMMA CallKeepsLedger ==
  ASSUME SpendInv, LedgerInv, AccountStep, NEW c \in Calls, Moves(c)
  PROVE  LedgerInv'
<1>1. ASSUME NEW d \in Calls, d # c PROVE Pc(d)' = Pc(d)
  BY <1>1 DEF Moves, SpendInv, TypeOK, Pc
<1>2. ASSUME NEW d \in Calls
      PROVE  /\ Told(d)' => Told(d) \/ LooksUp(d)
             /\ Pc(d)' \in {"idle", "address", "ataInfo"} => Pc(d) \in {"idle", "address", "ataInfo"}
  <2>1. CASE d = c BY <2>1 DEF Told, Moves, LooksUp
  <2>2. CASE d # c BY <1>1, <2>2 DEF Told
  <2> QED BY <2>1, <2>2
<1>3. wire \subseteq wire' /\ \A tx \in wire' : tx \in wire \/ (tx.call \in Calls /\ Told(tx.call))
  BY DEF Moves, SentBy, Told
<1> QED BY <1>2, <1>3, LookupKeepsLedger

\* What the chain does to the recipient's token account keeps its history.
LEMMA RecipientHistory ==
  ASSUME LedgerInv, latest \in Nat, latest >= 1,
         \/ recipient = "absent" /\ BecomesOpen
         \/ recipient = "open" /\ BecomesAbsent
         \/ UNCHANGED chainVars
  PROVE  /\ recipient' \in {"open", "absent"}
         /\ changedAt' \in 0..latest /\ closings' \subseteq 1..latest /\ closings \subseteq closings'
         /\ recipient' = "absent" /\ changedAt' # 0 => changedAt' \in closings'
         /\ recipient' = recipient \/ recipient' = "open" \/ latest \in closings'
<1>1. /\ recipient \in {"open", "absent"} /\ changedAt \in 0..latest /\ closings \subseteq 1..latest
      /\ recipient = "absent" /\ changedAt # 0 => changedAt \in closings
  BY DEF LedgerInv, LedgerTypeOK
<1>2. latest \in 0..latest /\ latest \in 1..latest
  OBVIOUS
<1>3. CASE BecomesOpen BY <1>1, <1>2, <1>3 DEF BecomesOpen
<1>4. CASE BecomesAbsent BY <1>1, <1>2, <1>4 DEF BecomesAbsent
<1>5. CASE UNCHANGED chainVars BY <1>1, <1>5 DEF chainVars
<1> QED BY <1>3, <1>4, <1>5

\* The chain executes entries, and a transaction among them that fails finds the account absent
\* and was told that it is there.
ChainStep(entries) ==
  /\ UNCHANGED <<vars, lookup>>
  /\ \/ recipient = "absent" /\ BecomesOpen
     \/ recipient = "open" /\ BecomesAbsent
     \/ UNCHANGED chainVars
  /\ ledger' = ledger \cup entries
  /\ \A entry \in entries :
       /\ entry \in [tx : wire, at : {latest}, outcome : {"paid", "failed"}, rent : {0, Rent}]
       /\ entry.outcome = "failed" => lookup[entry.tx.call].answer = "open" /\ recipient = "absent"
       /\ latest <= entry.tx.message.lifetime + MaxAge

LEMMA ChainKeepsLedger ==
  ASSUME SpendInv, LedgerInv, NEW entries, ChainStep(entries)
  PROVE  LedgerInv'
<1> USE DEF ChainStep
<1>1. latest \in Nat /\ latest >= 1 /\ latest' = latest /\ wire' = wire /\ lookup' = lookup /\ calls' = calls
  BY DEF SpendInv, TypeOK, vars, historyVars
<1>2. /\ recipient' \in {"open", "absent"}
      /\ changedAt' \in 0..latest /\ closings' \subseteq 1..latest /\ closings \subseteq closings'
      /\ recipient' = "absent" /\ changedAt' # 0 => changedAt' \in closings'
      /\ recipient' = recipient \/ recipient' = "open" \/ latest \in closings'
  BY <1>1, RecipientHistory
<1>3. \A c \in Calls : Told(c)' = Told(c) /\ Pc(c)' = Pc(c)
  BY <1>1 DEF Told, Pc
<1>4. \A tx \in wire : tx.call \in Calls
  BY DEF SpendInv, TypeOK
<1>5. lookup \in [Calls -> [answer : {"none", "open", "absent"}, at : 0..latest]]
  BY DEF LedgerInv, LedgerTypeOK
<1>6. ledger' \subseteq [tx : wire, at : 1..latest, outcome : {"paid", "failed"}, rent : {0, Rent}]
  <2>1. ledger \subseteq [tx : wire, at : 1..latest, outcome : {"paid", "failed"}, rent : {0, Rent}]
    BY DEF LedgerInv, LedgerTypeOK
  <2>2. ASSUME NEW entry \in entries
        PROVE  entry \in [tx : wire, at : 1..latest, outcome : {"paid", "failed"}, rent : {0, Rent}]
    <3>1. latest \in 1..latest
      BY <1>1
    <3> QED BY <3>1
  <2> QED BY <2>1, <2>2
<1>7. LedgerTypeOK'
  <2>1. \A c \in Calls : /\ Told(c) => lookup[c].answer # "none"
                         /\ Pc(c) \in {"idle", "address", "ataInfo"} => lookup[c].answer = "none"
    BY DEF LedgerInv, LedgerTypeOK
  <2> QED BY <1>1, <1>2, <1>3, <1>5, <1>6, <2>1 DEF LedgerTypeOK
<1>8. ASSUME NEW c \in Calls, lookup[c].answer = "open"
      PROVE  recipient' = "open" \/ \E b \in closings' : lookup[c].at <= b + Lag /\ b <= latest
  <2>1. lookup[c].at \in 0..latest /\ Lag \in Nat
    BY <1>5, LedgerAssumption
  <2>2. CASE latest \in closings'
    <3>1. lookup[c].at <= latest + Lag /\ latest <= latest
      BY <1>1, <2>1
    <3> QED BY <2>2, <3>1
  <2>3. CASE recipient' = recipient
    <3>1. recipient = "open" \/ \E b \in closings : lookup[c].at <= b + Lag /\ b <= latest
      BY <1>8 DEF LedgerInv, ClosedUnknown
    <3> QED BY <1>2, <2>3, <3>1
  <2> QED BY <1>2, <2>2, <2>3
<1>9. ASSUME NEW entry \in ledger', entry.outcome = "failed"
      PROVE  \E b \in closings' : lookup[entry.tx.call].at <= b + Lag /\ b <= entry.at
  <2>1. CASE entry \in ledger
    <3>1. \E b \in closings : lookup[entry.tx.call].at <= b + Lag /\ b <= entry.at
      BY <1>9, <2>1 DEF LedgerInv, FailsOnlyIfClosed, ClosedUnknown
    <3> QED BY <1>2, <3>1
  <2>2. CASE entry \in entries
    <3>1. /\ entry.at = latest /\ entry.tx.call \in Calls
          /\ lookup[entry.tx.call].answer = "open" /\ recipient = "absent"
      BY <1>4, <1>9, <2>2
    <3>2. \E b \in closings : lookup[entry.tx.call].at <= b + Lag /\ b <= latest
      BY <3>1 DEF LedgerInv, ClosedUnknown
    <3> QED BY <1>2, <3>1, <3>2
  <2> QED BY <2>1, <2>2
<1>10. ASSUME NEW entry \in ledger' PROVE entry.at <= entry.tx.message.lifetime + MaxAge
  BY DEF LedgerInv
<1>11. \A tx \in wire' : lookup'[tx.call].answer # "none"
  BY <1>1 DEF LedgerInv
<1>12. FailsOnlyIfClosed'
  BY <1>1, <1>9 DEF FailsOnlyIfClosed, ClosedUnknown
<1>13. \A c \in Calls : lookup'[c].answer = "open" => recipient' = "open" \/ ClosedUnknown(c, latest)'
  BY <1>1, <1>8 DEF ClosedUnknown
<1> QED BY <1>2, <1>7, <1>10, <1>11, <1>12, <1>13 DEF LedgerInv

\* A transaction fails only if its call was told "open" and the account is absent.
LEMMA ExecuteKeepsLedger ==
  ASSUME SpendInv, LedgerInv, NEW tx \in wire, Execute(tx)
  PROVE  LedgerInv'
<1> DEFINE creates == CreatesAccount(tx.call)
           opens == creates /\ recipient = "absent"
           entry == [tx |-> tx, at |-> latest, outcome |-> Outcome(creates),
                     rent |-> IF opens THEN Rent ELSE 0]
<1>1. /\ UNCHANGED <<vars, lookup>> /\ ledger' = ledger \cup {entry}
      /\ latest <= tx.message.lifetime + MaxAge
      /\ (recipient = "absent" /\ BecomesOpen) \/ UNCHANGED chainVars
  BY DEF Execute
<1>2. tx.call \in Calls /\ recipient \in {"open", "absent"}
  BY DEF SpendInv, TypeOK, LedgerInv, LedgerTypeOK
<1>3. lookup[tx.call].answer \in {"open", "absent"}
  BY <1>2 DEF LedgerInv, LedgerTypeOK
<1>4. entry \in [tx : wire, at : {latest}, outcome : {"paid", "failed"}, rent : {0, Rent}]
  BY DEF Outcome
<1>5. entry.outcome = "failed" => lookup[entry.tx.call].answer = "open" /\ recipient = "absent"
  BY <1>2, <1>3 DEF Outcome, CreatesAccount
<1>6. latest <= entry.tx.message.lifetime + MaxAge
  BY <1>1
<1> HIDE DEF entry
<1>7. ChainStep({entry})
  BY <1>1, <1>4, <1>5, <1>6 DEF ChainStep
<1> QED BY <1>7, ChainKeepsLedger

LEMMA RecipientKeepsLedger ==
  ASSUME SpendInv, LedgerInv, RecipientOpens \/ RecipientCloses \/ UNCHANGED <<vars, ledgerVars>>
  PROVE  LedgerInv'
<1>1. ChainStep({})
  BY DEF RecipientOpens, RecipientCloses, ledgerVars, ChainStep
<1> QED BY <1>1, ChainKeepsLedger

LEMMA LedgerStep == SpendInv /\ LedgerInv /\ [LedgerNext]_<<vars, ledgerVars>> => LedgerInv'
<1> SUFFICES ASSUME SpendInv, LedgerInv, [LedgerNext]_<<vars, ledgerVars>> PROVE LedgerInv'
  OBVIOUS
<1>1. CASE AccountStep
  <2>1. CASE \E c \in Calls : Invoke(c) \/ Resume(c)
    BY <1>1, <2>1, CallMoves, CallKeepsLedger
  <2>2. CASE ~ \E c \in Calls : Invoke(c) \/ Resume(c)
    <3>1. calls' = calls /\ wire' = wire
      BY <1>1, <2>2 DEF AccountStep, Next, Dispose, DisposeAgain, NewBlock, historyVars
    <3>2. \A c \in Calls : Told(c)' = Told(c) /\ Pc(c)' = Pc(c)
      BY <3>1 DEF Told, Pc
    <3> QED BY <1>1, <3>1, <3>2, LookupKeepsLedger
  <2> QED BY <2>1, <2>2
<1>2. ASSUME NEW tx \in wire, Execute(tx) PROVE LedgerInv'
  BY <1>2, ExecuteKeepsLedger
<1>3. CASE RecipientOpens \/ RecipientCloses \/ UNCHANGED <<vars, ledgerVars>>
  BY <1>3, RecipientKeepsLedger
<1> QED BY <1>1, <1>2, <1>3 DEF LedgerNext

-----------------------------------------------------------------------------
(* The theorems. *)

\* With its ledger, the account takes the steps it takes without: all that was proved of
\* SolanaAccount holds here.
LEMMA LedgerKeepsAccount == LedgerSpec => Spec
<1>1. LedgerInit => Init
  BY DEF LedgerInit
<1>2. [LedgerNext]_<<vars, ledgerVars>> => [Next]_vars
  BY DEF LedgerNext, AccountStep, Execute, RecipientOpens, RecipientCloses
<1> QED BY <1>1, <1>2, PTL DEF LedgerSpec, Spec

\* What a call was told of the recipient's token account is so, unless the account was closed when
\* the node could not know of it yet; and the ledger holds what was executed in time.
THEOREM LedgerInvariant == LedgerSpec => []LedgerInv
BY LedgerInitInv, LedgerStep, LedgerKeepsAccount, SpendInvariant, PTL DEF LedgerSpec

\* The ledger and the lookups have their types; a call knows of the recipient's token account
\* from the node's answer on.
THEOREM LedgerTypes == LedgerSpec => []LedgerTypeOK
<1>1. LedgerInv => LedgerTypeOK
  BY DEF LedgerInv
<1> QED BY <1>1, LedgerInvariant, PTL

\* An executed transfer fails for lack of the recipient's token account only if the account was
\* closed no more than Lag blocks before the node was asked for it, or later.
THEOREM FailsOnlyIfClosedHolds == LedgerSpec => []FailsOnlyIfClosed
<1>1. LedgerInv => FailsOnlyIfClosed
  BY DEF LedgerInv
<1> QED BY <1>1, LedgerInvariant, PTL

\* A transfer executes only while the blockhash its fee was quoted for is recent.
THEOREM ExecutesInTimeHolds == LedgerSpec => []ExecutesInTime
<1>1. SpendInv /\ LedgerInv => ExecutesInTime
  <2> SUFFICES ASSUME SpendInv, LedgerInv, NEW entry \in ledger
               PROVE  \E q \in quotes : /\ q.call = entry.tx.call
                                        /\ q.message = entry.tx.message
                                        /\ entry.at <= q.message.lifetime + MaxAge
    BY DEF ExecutesInTime
  <2>1. entry.tx \in wire /\ entry.at <= entry.tx.message.lifetime + MaxAge
    BY DEF LedgerInv, LedgerTypeOK
  <2>2. FeeChecked(entry.tx.call) /\ entry.tx = SentBy(entry.tx.call)
    BY <2>1 DEF SpendInv, WireInv
  <2> QED BY <2>1, <2>2 DEF FeeChecked, SentBy
<1> QED BY <1>1, LedgerInvariant, LedgerKeepsAccount, SpendInvariant, PTL
=============================================================================
