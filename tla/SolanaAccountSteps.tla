------------------------- MODULE SolanaAccountSteps -------------------------
(***************************************************************************)
(* Theorems about the steps of SolanaAccount: which calls get hold of a    *)
(* signer, which step of SpendGate each step is, and that calls advance.   *)
(***************************************************************************)
EXTENDS SolanaAccountGate, SolanaAccountProofs

-----------------------------------------------------------------------------
(* A message that a builder made names its payer. *)

\* The builders name the payer; a native transfer that has one keeps it.
BuiltInv ==
  \A c \in Calls :
    Pc(c) \in {"signer", "lifetime"} /\ Req(c).form = "native" => calls[c].message.payer # "none"

\* One call goes on as v, the others stay where they are.
LEMMA OneCallBuilt ==
  ASSUME TypeOK, BuiltInv, NEW c \in Calls, NEW v, calls' = [calls EXCEPT ![c] = v],
         v.pc \in {"signer", "lifetime"} /\ v.req.form = "native" => v.message.payer # "none"
  PROVE  BuiltInv'
<1>1. calls'[c] = v /\ \A d \in Calls : d # c => calls'[d] = calls[d]
  BY DEF TypeOK
<1> QED BY <1>1 DEF BuiltInv, Pc, Req

\* A call that suspends with continuation k at an await.
LEMMA SuspendBuilt ==
  ASSUME TypeOK, BuiltInv, NEW c \in Calls, NEW k \in Call, k.message.lifetime <= latest,
         NEW at \in Awaits, Suspend(c, k, at),
         at \in {"signer", "lifetime"} /\ k.req.form = "native" => k.message.payer # "none"
  PROVE  BuiltInv'
<1>1. PICK v \in Call : /\ calls' = [calls EXCEPT ![c] = v] /\ Moved(v, k)
                        /\ v.pc = at \/ v.pc = "rejected"
  BY TypeOKCalls, SuspendMoves
<1> QED BY <1>1, OneCallBuilt DEF Moved

\* A call that settles.
LEMMA SettleBuilt ==
  ASSUME TypeOK, BuiltInv, NEW c \in Calls, NEW k \in Call, k.message.lifetime <= latest,
         Resolve(c, k) \/ \E e \in Errors : Reject(c, k, e)
  PROVE  BuiltInv'
<1>1. PICK v \in Call : calls' = [calls EXCEPT ![c] = v] /\ v.pc \in {"resolved", "rejected"}
  BY TypeOKCalls, ResolveMoves, RejectMoves
<1> QED BY <1>1, OneCallBuilt

-----------------------------------------------------------------------------
(* Arming. *)

\* A call with continuation k that suspends at an await without asking for a signer is armed.
ArmsAt(k, at) ==
  \/ at = "signing"
  \/ at = "lifetime" /\ k.req.form = "message" /\ k.message.payer = "none" /\ ~Quotes(k.req.op)
  \/ /\ at = "fee"
     /\ k.req.op \in {"signTransaction", "sendTransaction"}
     /\ k.req.form \in {"native", "message"}

NobodyArmed == \A d \in Calls : Armed(d)' => Armed(d)

\* One call goes on as v, which waits for no signer.
LEMMA OneCallArmed ==
  ASSUME TypeOK, NEW c \in Calls, NEW v, calls' = [calls EXCEPT ![c] = v],
         v.pc \notin SignerAwaits, ArmsAt(v, v.pc) => Armed(c)
  PROVE  NobodyArmed
<1>1. calls'[c] = v /\ \A d \in Calls : d # c => calls'[d] = calls[d]
  BY DEF TypeOK
<1>2. Armed(c)' => Armed(c)
  BY <1>1 DEF Armed, ArmsAt, Pc, Req, SignerAwaits
<1>3. ASSUME NEW d \in Calls, d # c PROVE Armed(d)' = Armed(d)
  BY <1>1, <1>3 DEF Armed, Pc, Req
<1> QED BY <1>2, <1>3 DEF NobodyArmed

\* In an erased account a call that needs a signer is rejected; any other is armed only if it
\* was before.
LEMMA SuspendArmed ==
  ASSUME TypeOK, Erased, NEW c \in Calls, NEW k \in Call, NEW at \in Awaits, Suspend(c, k, at),
         at \notin SignerAwaits /\ ArmsAt(k, at) => Armed(c)
  PROVE  NobodyArmed
<1> DEFINE w == [k EXCEPT !.pc = at, !.acquiring = "no"]
           r == [w EXCEPT !.pc = "rejected", !.error = "noKey"]
<1>1. w.pc = at /\ w.req = k.req /\ w.message = k.message /\ r.pc = "rejected"
  BY DEF Call
<1>2. CASE at \in SignerAwaits
  <2>1. calls' = [calls EXCEPT ![c] = r]
    BY <1>2 DEF Suspend, GetSigner, Erased
  <2>2. r.pc \notin SignerAwaits /\ ~ArmsAt(r, r.pc)
    BY <1>1 DEF SignerAwaits, ArmsAt
  <2> QED BY <2>1, <2>2, OneCallArmed
<1>3. CASE at \notin SignerAwaits
  <2>1. calls' = [calls EXCEPT ![c] = w]
    BY <1>3 DEF Suspend
  <2>2. ArmsAt(w, w.pc) => Armed(c)
    BY <1>1, <1>3 DEF ArmsAt
  <2> QED BY <1>1, <1>3, <2>1, <2>2, OneCallArmed
<1> QED BY <1>2, <1>3

\* A call that settles is not armed.
LEMMA SettleArmed ==
  ASSUME TypeOK, NEW c \in Calls, NEW k \in Call, k.message.lifetime <= latest,
         Resolve(c, k) \/ \E e \in Errors : Reject(c, k, e)
  PROVE  NobodyArmed
<1>1. PICK v \in Call : calls' = [calls EXCEPT ![c] = v] /\ v.pc \in {"resolved", "rejected"}
  BY TypeOKCalls, ResolveMoves, RejectMoves
<1> QED BY <1>1, OneCallArmed DEF ArmsAt, SignerAwaits

-----------------------------------------------------------------------------
(* The two facts, action by action. *)

\* What each lemma below shows of a step of call c: the builders' payer is kept, and in an erased
\* account the step arms nobody.
Safe == BuiltInv' /\ (Erased => NobodyArmed)

\* A step that suspends call c.
LEMMA SuspendSafe ==
  ASSUME TypeOK, BuiltInv, NEW c \in Calls, NEW k \in Call, k.message.lifetime <= latest,
         NEW at \in Awaits, Suspend(c, k, at),
         at \in {"signer", "lifetime"} /\ k.req.form = "native" => k.message.payer # "none",
         at \notin SignerAwaits /\ ArmsAt(k, at) => Armed(c)
  PROVE  Safe
BY SuspendBuilt, SuspendArmed DEF Safe

\* A step that settles call c.
LEMMA SettleSafe ==
  ASSUME TypeOK, BuiltInv, NEW c \in Calls, NEW k \in Call, k.message.lifetime <= latest,
         Resolve(c, k) \/ \E e \in Errors : Reject(c, k, e)
  PROVE  Safe
BY SettleBuilt, SettleArmed DEF Safe

LEMMA InvokeSafe ==
  ASSUME SpendInv, BuiltInv, NEW c \in Calls, Invoke(c)
  PROVE  Safe
<1> USE DEF Awaits, SignerAwaits, RpcAwaits, Errors, ArmsAt, Made
<1>0. TypeOK
  BY DEF SpendInv
<1>1. PICK r \in Requests :
        /\ r.lifetime <= latest
        /\ \/ GetAddress(c, r) \/ ToReadOnlyAccount(c, r) \/ Sign(c, r) \/ SignTransaction(c, r)
           \/ SendTransaction(c, r) \/ QuoteSendTransaction(c, r) \/ Transfer(c, r)
           \/ QuoteTransfer(c, r)
  BY DEF Invoke
<1>2. Fresh(r) \in Call /\ Fresh(r).message.lifetime <= latest /\ Fresh(r).req = r
  BY <1>1, FreshTyped
<1>3. IsRequest(r)
  BY RequestsAssumption
<1>4. CASE GetAddress(c, r) BY <1>0, <1>2, <1>4, SuspendSafe DEF GetAddress
<1>5. CASE ToReadOnlyAccount(c, r)
  BY <1>0, <1>2, <1>5, SuspendSafe, SettleSafe DEF ToReadOnlyAccount
<1>6. CASE Sign(c, r)
  <2>1. r.form # "native"
    BY <1>3, <1>6 DEF IsRequest, Forms, Sign
  <2> QED BY <1>0, <1>2, <1>6, <2>1, SuspendSafe, SettleSafe DEF Sign
<1>7. CASE SignTransaction(c, r)
  BY <1>0, <1>2, <1>7, SuspendSafe, SettleSafe DEF SignTransaction
<1>8. CASE SendTransaction(c, r)
  <2> DEFINE at == CASE r.form = "message" -> "signer" [] r.form = "signed" -> "fee" [] OTHER -> "address"
  <2>1. at \in Awaits /\ (at = "signer" => r.form = "message") /\ (at = "fee" => r.form = "signed")
        /\ at \in {"signer", "fee", "address"}
    OBVIOUS
  <2>2. (\E e \in Errors : Reject(c, Fresh(r), e)) \/ Suspend(c, Fresh(r), at)
    BY <1>8 DEF SendTransaction
  <2> HIDE DEF at
  <2> QED BY <1>0, <1>2, <2>1, <2>2, SuspendSafe, SettleSafe
<1>9. CASE QuoteSendTransaction(c, r)
  BY <1>0, <1>2, <1>9, SuspendSafe, SettleSafe DEF QuoteSendTransaction
<1>10. CASE Transfer(c, r) BY <1>0, <1>2, <1>10, SuspendSafe, SettleSafe DEF Transfer
<1>11. CASE QuoteTransfer(c, r) BY <1>0, <1>2, <1>11, SuspendSafe, SettleSafe DEF QuoteTransfer
<1> QED BY <1>1, <1>4, <1>5, <1>6, <1>7, <1>8, <1>9, <1>10, <1>11

\* The creation of a signer moves no call, and there is none in an erased account.
LEMMA SignerCreatedSafe ==
  ASSUME TypeOK, BuiltInv, NEW c \in Calls, SignerCreated(c)
  PROVE  Safe
<1>1. ~Erased
  BY DEF SignerCreated, Erased
<1>2. calls[c] \in Call /\ calls' = [calls EXCEPT ![c] = [calls[c] EXCEPT !.acquiring = "cached"]]
  BY TypeOKCalls, NotIdle DEF SignerCreated, SignerAwaits
<1>3. LET v == [calls[c] EXCEPT !.acquiring = "cached"] IN
      v.pc = Pc(c) /\ v.req = Req(c) /\ v.message = calls[c].message
  BY <1>2 DEF Call, Pc, Req
<1>4. BuiltInv'
  BY <1>2, <1>3, OneCallBuilt DEF BuiltInv
<1> QED BY <1>1, <1>4 DEF Safe

LEMMA LifetimeEnsuredSafe ==
  ASSUME SpendInv, BuiltInv, NEW c \in Calls, LifetimeEnsured(c)
  PROVE  Safe
<1> USE DEF Awaits, SignerAwaits, RpcAwaits
<1>0. TypeOK /\ Pc(c) = "lifetime"
  BY DEF SpendInv, LifetimeEnsured, Resumes
<1> DEFINE message == calls[c].message
           k == [calls[c] EXCEPT !.message.lifetime = IF @ = 0 THEN latest ELSE @]
           n == [k EXCEPT !.message.payer = "own"]
<1>1. /\ calls[c] \in Call /\ message.lifetime <= latest /\ CallInv(c) /\ IsRequest(Req(c))
      /\ latest \in Nat /\ latest \in Lifetimes
  BY <1>0, CallFacts
<1>2. /\ k \in Call /\ k.req = Req(c) /\ k.message.lifetime <= latest /\ k.message.payer = message.payer
      /\ n \in Call /\ n.req = Req(c) /\ n.message.lifetime <= latest /\ n.message.payer = "own"
  <2>1. /\ k \in Call /\ k.req = Req(c) /\ k.message.lifetime <= latest
        /\ k.message.payer = message.payer
    BY <1>1 DEF Call, Message, Req
  <2>2. n \in Call /\ n.req = Req(c) /\ n.message.lifetime <= latest /\ n.message.payer = "own"
    BY <2>1 DEF Call, Message
  <2> QED BY <2>1, <2>2
<1>3. CASE message.payer # "none"
  BY <1>0, <1>2, <1>3, SuspendSafe DEF LifetimeEnsured, ArmsAt
<1>4. CASE message.payer = "none"
  <2>1. Req(c).form = "message"
    <3>1. Req(c).form \in {"native", "message"} \/ Req(c).op = "transfer"
      BY <1>0, <1>1 DEF CallInv, OnRoute, Settled
    <3>2. Req(c).form # "native"
      BY <1>0, <1>4 DEF BuiltInv
    <3>3. Req(c).op # "transfer"
      <4> SUFFICES ASSUME Req(c).op = "transfer" PROVE FALSE
        OBVIOUS
      <4>1. Req(c).form = "spl"
        BY <1>1 DEF IsRequest, Forms
      <4>2. message.payer = "own"
        BY <1>0, <1>1, <4>1 DEF CallInv, PastCompletion, Spends, Sends
      <4> QED BY <1>4, <4>2
    <3> QED BY <3>1, <3>2, <3>3
  <2>2. Suspend(c, n, Prepared(Req(c))) /\ Prepared(Req(c)) \in {"fee", "signing"}
    BY <1>4 DEF LifetimeEnsured, Prepared
  <2>3. ArmsAt(n, Prepared(Req(c))) => Armed(c)
    <3>1. Prepared(Req(c)) = "signing" => ~Quotes(Req(c).op)
      BY DEF Prepared, AsksFee, Quotes
    <3> QED BY <1>0, <1>2, <1>4, <2>1, <2>2, <3>1 DEF ArmsAt, Armed, Quotes
  <2> QED BY <1>0, <1>2, <2>2, <2>3, SuspendSafe
<1> QED BY <1>3, <1>4

LEMMA FeeAnsweredSafe ==
  ASSUME SpendInv, BuiltInv, NEW c \in Calls, FeeAnswered(c)
  PROVE  Safe
<1> USE DEF Awaits, SignerAwaits, RpcAwaits, Errors
<1>0. TypeOK /\ Pc(c) = "fee"
  BY DEF SpendInv, FeeAnswered, Resumes
<1>1. /\ calls[c] \in Call /\ calls[c].message.lifetime <= latest /\ CallInv(c)
      /\ IsRequest(Req(c))
  BY <1>0, CallFacts
<1>2. PICK fee \in Fees :
        LET k == [calls[c] EXCEPT !.fee = fee] IN
        IF Exceeds(fee, Cap(Req(c).op)) THEN Reject(c, k, "feeExceeded")
        ELSE IF Quotes(Req(c).op) THEN Resolve(c, k)
        ELSE IF Req(c).op = "signTransaction" /\ Req(c).form = "serialized" THEN Resolve(c, k)
        ELSE Suspend(c, k, CASE Req(c).form = "spl" -> "signer"
                             [] Req(c).form \in {"serialized", "signed"} -> "broadcast"
                             [] OTHER -> "signing")
  BY DEF FeeAnswered
<1> DEFINE k == [calls[c] EXCEPT !.fee = fee]
           at == CASE Req(c).form = "spl" -> "signer"
                   [] Req(c).form \in {"serialized", "signed"} -> "broadcast"
                   [] OTHER -> "signing"
<1>3. k \in Call /\ k.req = Req(c) /\ k.message.lifetime <= latest
  BY <1>1 DEF Call, Req
<1>4. CASE Resolve(c, k) \/ \E e \in Errors : Reject(c, k, e)
  BY <1>0, <1>3, <1>4, SettleSafe
<1>5. CASE ~Quotes(Req(c).op) /\ Suspend(c, k, at)
  <2>1. /\ at \in {"signer", "broadcast", "signing"}
        /\ at = "signer" => Req(c).form # "native"
        /\ at = "signing" => Req(c).form \notin {"spl", "serialized", "signed"}
    OBVIOUS
  <2>2. at = "signing" => Armed(c)
    <3> SUFFICES ASSUME at = "signing" PROVE Armed(c)
      OBVIOUS
    <3>1. Spends(Req(c).op)
      BY <1>0, <1>1, <1>5 DEF CallInv, OnRoute, Settled
    <3>2. Req(c).op \in {"signTransaction", "sendTransaction"} /\ Req(c).form \in {"native", "message"}
      BY <1>1, <2>1, <3>1 DEF IsRequest, Forms, Spends, Sends
    <3> QED BY <1>0, <3>2 DEF Armed
  <2> HIDE DEF at
  <2> QED BY <1>0, <1>3, <1>5, <2>1, <2>2, SuspendSafe DEF ArmsAt
<1> QED BY <1>2, <1>4, <1>5

\* The other continuations.
LEMMA ResumeSafe ==
  ASSUME SpendInv, BuiltInv, NEW c \in Calls, Resume(c)
  PROVE  Safe
<1> USE DEF Awaits, SignerAwaits, RpcAwaits, Errors, Resumes
<1>0. TypeOK
  BY DEF SpendInv
<1>1. Pc(c) # "idle"
  BY DEF Resume, SignerCreated, OwnerKnown, ReadOnlyAccountCreated, AddressKnown, SignerKnown,
         AtaInfoAnswered, BlockhashAnswered, LifetimeEnsured, PayerCompared, FeeAnswered, FeeUnknown,
         Signature, Broadcast, RpcFails
<1>2. /\ calls[c] \in Call /\ calls[c].req = Req(c) /\ calls[c].message.lifetime <= latest
      /\ CallInv(c) /\ IsRequest(Req(c)) /\ latest \in Nat /\ latest \in Lifetimes
  BY <1>1, CallFacts DEF Req
<1>3. Pc(c) \in {"address", "signer", "payer"} /\ calls[c].acquiring # "creating"
        => calls[c].acquiring = "cached"
  BY <1>0, <1>1 DEF TypeOK
<1>4. CASE OwnerKnown(c)
  <2>1. Quotes(Req(c).op)
    BY <1>2, <1>4 DEF OwnerKnown, CallInv, OnRoute, Settled
  <2> QED BY <1>0, <1>2, <1>4, <2>1, SuspendSafe DEF OwnerKnown, ArmsAt
<1>5. CASE ReadOnlyAccountCreated(c)
  BY <1>0, <1>2, <1>5, SettleSafe DEF ReadOnlyAccountCreated
<1>6. CASE AddressKnown(c)
  <2> DEFINE at == CASE Req(c).form = "spl" -> "ataInfo"
                     [] Req(c).form = "native" -> "blockhash"
                     [] OTHER -> "signer"
  <2>1. at \in {"ataInfo", "blockhash", "signer"} /\ (at = "signer" => Req(c).form # "native")
    OBVIOUS
  <2>2. \/ Resolve(c, calls[c]) \/ \E e \in Errors : Reject(c, calls[c], e)
        \/ Suspend(c, calls[c], at)
    BY <1>6 DEF AddressKnown
  <2> HIDE DEF at
  <2> QED BY <1>0, <1>2, <2>1, <2>2, SuspendSafe, SettleSafe DEF ArmsAt
<1>7. CASE SignerKnown(c)
  <2> DEFINE at == IF Req(c).op = "sign" \/ Req(c).form = "serialized" THEN "signing" ELSE "lifetime"
  <2>1. Suspend(c, calls[c], at) /\ Pc(c) = "signer" /\ calls[c].acquiring = "cached"
    BY <1>3, <1>7 DEF SignerKnown
  <2>2. ArmsAt(calls[c], at) => Armed(c)
    BY <1>2, <2>1 DEF ArmsAt, Armed
  <2>3. at \in {"signing", "lifetime"} /\ (Req(c).form = "native" => calls[c].message.payer # "none")
    BY <2>1 DEF BuiltInv
  <2> HIDE DEF at
  <2> QED BY <1>0, <1>2, <2>1, <2>2, <2>3, SuspendSafe
<1>8. CASE AtaInfoAnswered(c)
  BY <1>0, <1>2, <1>8, SuspendSafe DEF AtaInfoAnswered, ArmsAt
<1>9. CASE BlockhashAnswered(c)
  <2> DEFINE k == [calls[c] EXCEPT !.message = [payer |-> "own", lifetime |-> latest]]
             at == CASE Req(c).form = "spl" -> "fee"
                     [] Req(c).form = "native" /\ Quotes(Req(c).op) -> "lifetime"
                     [] OTHER -> "signer"
  <2>1. k \in Call /\ k.req = Req(c) /\ k.message.lifetime <= latest /\ k.message.payer = "own"
    BY <1>2 DEF Call, Message, Lifetimes
  <2>2. at \in {"fee", "lifetime", "signer"} /\ (at = "fee" => Req(c).form = "spl")
    OBVIOUS
  <2>3. (\E e \in Errors : Reject(c, k, e)) \/ Suspend(c, k, at)
    BY <1>9 DEF BlockhashAnswered
  <2>4. ~ArmsAt(k, at)
    BY <2>1, <2>2 DEF ArmsAt
  <2> HIDE DEF at, k
  <2> QED BY <1>0, <2>1, <2>2, <2>3, <2>4, SuspendSafe, SettleSafe
<1>10. CASE PayerCompared(c)
  <2>1. /\ Pc(c) = "payer" /\ calls[c].acquiring = "cached"
        /\ Prepared(Req(c)) \in {"fee", "signing"}
    BY <1>3, <1>10 DEF PayerCompared, Prepared
  <2>2. ArmsAt(calls[c], Prepared(Req(c))) => Armed(c)
    <3>1. Prepared(Req(c)) = "signing" => ~Quotes(Req(c).op)
      BY DEF Prepared, AsksFee, Quotes
    <3> QED BY <1>2, <2>1, <3>1 DEF ArmsAt, Armed, Quotes
  <2>3. (\E e \in Errors : Reject(c, calls[c], e)) \/ Suspend(c, calls[c], Prepared(Req(c)))
    BY <1>10 DEF PayerCompared
  <2> QED BY <1>0, <1>2, <2>1, <2>2, <2>3, SuspendSafe, SettleSafe
<1>11. CASE FeeUnknown(c) BY <1>0, <1>2, <1>11, SettleSafe DEF FeeUnknown
<1>12. CASE Signature(c)
  <2>1. \/ Resolve(c, calls[c]) \/ \E e \in Errors : Reject(c, calls[c], e)
        \/ Req(c).form = "serialized" /\ Suspend(c, calls[c], "fee")
        \/ Suspend(c, calls[c], "broadcast")
    BY <1>12 DEF Signature
  <2> QED BY <1>0, <1>2, <2>1, SuspendSafe, SettleSafe DEF ArmsAt
<1>13. CASE Broadcast(c) BY <1>0, <1>2, <1>13, SettleSafe DEF Broadcast
<1>14. CASE RpcFails(c) BY <1>0, <1>2, <1>14, SettleSafe DEF RpcFails
<1> QED BY <1>0, <1>4, <1>5, <1>6, <1>7, <1>8, <1>9, <1>10, <1>11, <1>12, <1>13, <1>14,
           SignerCreatedSafe, LifetimeEnsuredSafe, FeeAnsweredSafe DEF Resume

\* The steps of the account and of the node touch no call.
LEMMA QuietSafe ==
  ASSUME BuiltInv, calls' = calls
  PROVE  Safe
BY DEF Safe, NobodyArmed, BuiltInv, Armed, Pc, Req

-----------------------------------------------------------------------------
(* The theorem. *)

\* Once the account is erased, a call that does not hold a signer never gets into the position of
\* one that does, however many calls there are and whatever each of them waits for.
THEOREM NobodyArmedLater == Spec => NoCallIsArmedAfterErasure
<1>1. Init => BuiltInv
  BY DEF Init, BuiltInv, Pc, Idle
<1>2. SpendInv /\ BuiltInv /\ [Next]_vars => Safe
  <2> SUFFICES ASSUME SpendInv, BuiltInv, [Next]_vars PROVE Safe
    OBVIOUS
  <2>1. CASE \E c \in Calls : Invoke(c) \/ Resume(c)
    BY <2>1, InvokeSafe, ResumeSafe
  <2>2. CASE Dispose \/ DisposeAgain \/ NewBlock \/ UNCHANGED vars
    BY <2>2, QuietSafe DEF Dispose, DisposeAgain, NewBlock, vars
  <2> QED BY <2>1, <2>2 DEF Next
<1>3. SpendInv /\ BuiltInv /\ [Next]_vars => BuiltInv'
  BY <1>2 DEF Safe
<1>4. SpendInv /\ BuiltInv /\ [Next]_vars => (Erased => \A c \in Calls : Armed(c)' => Armed(c))
  BY <1>2 DEF Safe, NobodyArmed
<1> QED BY <1>1, <1>3, <1>4, SpendInvariant, PTL DEF Spec, NoCallIsArmedAfterErasure

-----------------------------------------------------------------------------
(***************************************************************************)
(* SolanaAccount implements SpendGate.  The invariant SpendInv says, in    *)
(* every state, what a call has been through; before and after a step it   *)
(* determines which step of SpendGate the step is.                         *)
(***************************************************************************)

\* The step changes nothing but the continuation of call c and the histories, to which it may add
\* a quote and transactions of that call.
OneCall(c) ==
  /\ calls' = [calls EXCEPT ![c] = calls'[c]]
  /\ config' = config /\ rawPrivateKey' = rawPrivateKey
  /\ quotes' = quotes \/ \E q \in Gate!Quotes : quotes' = quotes \cup {q}
  /\ wire \subseteq wire'
  /\ \A tx \in wire' : tx \in wire \/ tx.call = c

\* What SpendGate knows of the other calls does not change.
LEMMA OthersUnchanged ==
  ASSUME TypeOK, NEW c \in Calls, OneCall(c)
  PROVE  /\ gateBar' = gateBar
         /\ limitBar' = [limitBar EXCEPT ![c] = limitBar'[c]]
         /\ statusBar' = [statusBar EXCEPT ![c] = statusBar'[c]]
         /\ toldBar' = [toldBar EXCEPT ![c] = toldBar'[c]]
         /\ releasedBar' = [releasedBar EXCEPT ![c] = releasedBar'[c]]
<1>1. gateBar' = gateBar
  BY DEF OneCall, gateBar
<1>2. ASSUME NEW d \in Calls, d # c
      PROVE  /\ calls'[d] = calls[d] /\ config' = config
             /\ Pc(d)' = Pc(d) /\ Req(d)' = Req(d) /\ SentBy(d)' = SentBy(d)
             /\ SentBy(d) \in wire' <=> SentBy(d) \in wire
  BY <1>2 DEF OneCall, TypeOK, Pc, Req, SentBy
<1>3. ASSUME NEW d \in Calls, d # c
      PROVE  /\ Spending(d)' = Spending(d) /\ HasReleased(d)' = HasReleased(d)
             /\ Cap(Req(d).op)' = Cap(Req(d).op)
  BY <1>2, <1>3 DEF Spending, HasReleased, Cap
<1>4. ASSUME NEW d \in Calls, d # c
      PROVE  /\ limitBar'[d] = limitBar[d] /\ statusBar'[d] = statusBar[d]
             /\ toldBar'[d] = toldBar[d] /\ releasedBar'[d] = releasedBar[d]
  BY <1>2, <1>3, <1>4 DEF limitBar, statusBar, toldBar, releasedBar, StatusOf, ToldTo
<1>5. /\ limitBar = [d \in Calls |-> limitBar[d]] /\ limitBar' = [d \in Calls |-> limitBar'[d]]
      /\ statusBar = [d \in Calls |-> statusBar[d]] /\ statusBar' = [d \in Calls |-> statusBar'[d]]
      /\ toldBar = [d \in Calls |-> toldBar[d]] /\ toldBar' = [d \in Calls |-> toldBar'[d]]
      /\ releasedBar = [d \in Calls |-> releasedBar[d]]
      /\ releasedBar' = [d \in Calls |-> releasedBar'[d]]
  BY DEF limitBar, statusBar, toldBar, releasedBar
<1> QED BY <1>1, <1>4, <1>5

\* What SpendGate knows of call c.
LEMMA BarsOf ==
  ASSUME NEW c \in Calls
  PROVE  /\ limitBar[c] = IF Spending(c) THEN Cap(Req(c).op) ELSE Undefined
         /\ statusBar[c] = StatusOf(c) /\ toldBar[c] = ToldTo(c)
         /\ releasedBar[c] = IF HasReleased(c) THEN calls[c].message ELSE Undefined
BY DEF limitBar, statusBar, toldBar, releasedBar

\* A call that is under way has sent nothing, and one that has released its message was quoted
\* within its cap, if it has one.
UnderwayUnsent ==
  \A c \in Calls : Pc(c) \notin Settled => \A tx \in wire : tx.call # c
ReleasesQuoted ==
  \A c \in Calls : HasReleased(c) /\ Cap(Req(c).op) # Undefined =>
    \E fee \in Fees : /\ fee <= Cap(Req(c).op)
                      /\ [call |-> c, message |-> calls[c].message, fee |-> fee] \in quotes

LEMMA GateFacts == SpendInv => UnderwayUnsent /\ ReleasesQuoted
<1> SUFFICES ASSUME SpendInv PROVE UnderwayUnsent /\ ReleasesQuoted
  OBVIOUS
<1>1. UnderwayUnsent
  BY DEF SpendInv, WireInv, UnderwayUnsent
<1>2. ASSUME NEW c \in Calls, HasReleased(c), Cap(Req(c).op) # Undefined
      PROVE  \E fee \in Fees : /\ fee <= Cap(Req(c).op)
                               /\ [call |-> c, message |-> calls[c].message, fee |-> fee] \in quotes
  <2>1. Pc(c) # "idle" /\ Spends(Req(c).op) /\ CallInv(c)
    BY <1>2 DEF HasReleased, Spending, SpendInv
  <2>2. FeeChecked(c)
    <3>1. CASE SentBy(c) \in wire
      BY <3>1 DEF SpendInv, WireInv, SentBy
    <3>2. CASE Pc(c) = "resolved"
      <4>1. AsksFee(Req(c))
        BY <1>2, <2>1 DEF AsksFee, Cap
      <4> QED BY <2>1, <3>2, <4>1 DEF CallInv, PastFeeCheck
    <3> QED BY <1>2, <3>1, <3>2 DEF HasReleased
  <2>3. calls[c].fee \in Fees /\ calls[c].fee \in Nat
    <3>1. [call |-> c, message |-> calls[c].message, fee |-> calls[c].fee].fee \in Fees
      BY <2>2 DEF FeeChecked, SpendInv, TypeOK
    <3> QED BY <3>1, FeesAssumption
  <2>4. Cap(Req(c).op) \in Nat
    BY <1>2, CapsAssumption DEF SpendInv, TypeOK, Cap
  <2> QED BY <1>2, <2>2, <2>3, <2>4 DEF FeeChecked, Exceeds
<1> QED BY <1>1, <1>2 DEF ReleasesQuoted

LEMMA CapInCaps ==
  ASSUME TypeOK, NEW op
  PROVE  Cap(op) \in Caps \cup {Undefined}
BY DEF TypeOK, Cap

\* A step that changes nothing at call c, and nothing elsewhere, is a stutter of SpendGate.
LEMMA SameBars ==
  ASSUME NEW c \in Calls, gateBar' = gateBar, quotes' = quotes,
         limitBar' = [limitBar EXCEPT ![c] = limitBar[c]],
         statusBar' = [statusBar EXCEPT ![c] = statusBar[c]],
         toldBar' = [toldBar EXCEPT ![c] = toldBar[c]],
         releasedBar' = [releasedBar EXCEPT ![c] = releasedBar[c]]
  PROVE  UNCHANGED Gate!vars
<1>1. limitBar' = limitBar /\ statusBar' = statusBar
  <2>1. limitBar = [d \in Calls |-> limitBar[d]] /\ statusBar = [d \in Calls |-> statusBar[d]]
    BY DEF limitBar, statusBar
  <2> QED BY <2>1
<1>2. toldBar' = toldBar /\ releasedBar' = releasedBar
  <2>1. toldBar = [d \in Calls |-> toldBar[d]] /\ releasedBar = [d \in Calls |-> releasedBar[d]]
    BY DEF toldBar, releasedBar
  <2> QED BY <2>1
<1> QED BY <1>1, <1>2 DEF Gate!vars

-----------------------------------------------------------------------------
(* Making a call: it is admitted, refused, or none of the gate's business. *)

\* A call that is just being made suspends, resolves if it has nothing to spend, or is rejected
\* for a reason of its own.
LEMMA InvokeEnds ==
  ASSUME NEW c \in Calls, NEW r \in Requests,
         \/ GetAddress(c, r) \/ ToReadOnlyAccount(c, r) \/ Sign(c, r)
         \/ SignTransaction(c, r) \/ SendTransaction(c, r) \/ QuoteSendTransaction(c, r)
         \/ Transfer(c, r) \/ QuoteTransfer(c, r)
  PROVE  \/ \E at \in Awaits : Suspend(c, Fresh(r), at)
         \/ ~Spends(r.op) /\ Resolve(c, Fresh(r))
         \/ \E e \in Errors \ {"rpc"} : Reject(c, Fresh(r), e)
<1> USE DEF Made, Awaits, SignerAwaits, RpcAwaits, Errors, Spends, Sends
<1>1. CASE GetAddress(c, r) BY <1>1 DEF GetAddress
<1>2. CASE ToReadOnlyAccount(c, r) BY <1>2 DEF ToReadOnlyAccount
<1>3. CASE Sign(c, r) BY <1>3 DEF Sign
<1>4. CASE SignTransaction(c, r) BY <1>4 DEF SignTransaction
<1>5. CASE SendTransaction(c, r) BY <1>5 DEF SendTransaction
<1>6. CASE QuoteSendTransaction(c, r) BY <1>6 DEF QuoteSendTransaction
<1>7. CASE Transfer(c, r) BY <1>7 DEF Transfer
<1>8. CASE QuoteTransfer(c, r) BY <1>8 DEF QuoteTransfer
<1> QED BY <1>1, <1>2, <1>3, <1>4, <1>5, <1>6, <1>7, <1>8

LEMMA InvokeIsOneCall ==
  ASSUME TypeOK, NEW c \in Calls, Invoke(c)
  PROVE  /\ OneCall(c) /\ wire' = wire /\ quotes' = quotes /\ Pc(c) = "idle"
         /\ calls'[c].late = (rawPrivateKey # "key")
         /\ \/ calls'[c].pc \in Awaits
            \/ calls'[c].pc = "resolved" /\ ~Spends(calls'[c].req.op)
            \/ calls'[c].pc = "rejected" /\ calls'[c].error # "rpc"
<1>1. PICK r \in Requests :
        /\ r.lifetime <= latest
        /\ \/ GetAddress(c, r) \/ ToReadOnlyAccount(c, r) \/ Sign(c, r)
           \/ SignTransaction(c, r) \/ SendTransaction(c, r) \/ QuoteSendTransaction(c, r)
           \/ Transfer(c, r) \/ QuoteTransfer(c, r)
  BY DEF Invoke
<1>2. /\ Fresh(r) \in Call /\ Fresh(r).late = (rawPrivateKey # "key") /\ Fresh(r).req = r
      /\ Fresh(r).message.lifetime <= latest /\ latest \in Nat
  BY <1>1, FreshTyped, TypeOKCalls
<1>3. \/ \E at \in Awaits : Suspend(c, Fresh(r), at)
      \/ ~Spends(r.op) /\ Resolve(c, Fresh(r))
      \/ \E e \in Errors \ {"rpc"} : Reject(c, Fresh(r), e)
  BY <1>1, InvokeEnds
<1>4. \E v \in Call : /\ calls' = [calls EXCEPT ![c] = v] /\ Moved(v, Fresh(r))
                      /\ \/ v.pc \in Awaits
                         \/ v.pc = "resolved" /\ ~Spends(r.op)
                         \/ v.pc = "rejected" /\ v.error # "rpc"
  <2>1. CASE \E at \in Awaits : Suspend(c, Fresh(r), at) BY <1>2, <2>1, SuspendMoves
  <2>2. CASE ~Spends(r.op) /\ Resolve(c, Fresh(r)) BY <1>2, <2>2, ResolveMoves
  <2>3. CASE \E e \in Errors \ {"rpc"} : Reject(c, Fresh(r), e) BY <1>2, <2>3, RejectMoves
  <2> QED BY <1>3, <2>1, <2>2, <2>3
<1>5. PICK v \in Call : /\ calls' = [calls EXCEPT ![c] = v] /\ Moved(v, Fresh(r))
                        /\ \/ v.pc \in Awaits
                           \/ v.pc = "resolved" /\ ~Spends(r.op)
                           \/ v.pc = "rejected" /\ v.error # "rpc"
  BY <1>4
<1>6. calls'[c] = v /\ calls' = [calls EXCEPT ![c] = calls'[c]]
  BY <1>5 DEF TypeOK
<1>7. Pc(c) = "idle"
  BY <1>1, InvokeSteps
<1> QED BY <1>2, <1>5, <1>6, <1>7 DEF OneCall, Moved, Invoke, accountVars, historyVars

LEMMA InvokeImplements ==
  ASSUME SpendInv, SpendInv', NEW c \in Calls, Invoke(c)
  PROVE  [Gate!Next]_(Gate!vars)
<1> USE DEF Spending
<1>1. /\ OneCall(c) /\ wire' = wire /\ quotes' = quotes /\ Pc(c) = "idle"
      /\ Pc(c)' \in Awaits \/ (Pc(c)' = "resolved" /\ ~Spends(Req(c).op)')
                           \/ (Pc(c)' = "rejected" /\ calls'[c].error # "rpc")
      /\ calls'[c].late = (rawPrivateKey # "key")
  BY InvokeIsOneCall DEF SpendInv, Pc, Req
<1>2. /\ gateBar' = gateBar
      /\ limitBar' = [limitBar EXCEPT ![c] = limitBar'[c]]
      /\ statusBar' = [statusBar EXCEPT ![c] = statusBar'[c]]
      /\ toldBar' = [toldBar EXCEPT ![c] = toldBar'[c]]
      /\ releasedBar' = [releasedBar EXCEPT ![c] = releasedBar'[c]]
  BY <1>1, OthersUnchanged DEF SpendInv
<1>3. /\ limitBar[c] = Undefined /\ statusBar[c] = "idle" /\ toldBar[c] = "nothing"
      /\ releasedBar[c] = Undefined
  BY <1>1, BarsOf DEF StatusOf, ToldTo, HasReleased
<1>4. /\ limitBar'[c] = (IF Spending(c) THEN Cap(Req(c).op) ELSE Undefined)'
      /\ statusBar'[c] = StatusOf(c)' /\ toldBar'[c] = ToldTo(c)'
      /\ releasedBar'[c] = (IF HasReleased(c) THEN calls[c].message ELSE Undefined)'
  BY DEF limitBar, statusBar, toldBar, releasedBar
<1>5. CASE ~Spending(c)'
  <2>1. /\ limitBar'[c] = Undefined /\ statusBar'[c] = "idle" /\ toldBar'[c] = "nothing"
        /\ releasedBar'[c] = Undefined
    BY <1>4, <1>5 DEF StatusOf, ToldTo, HasReleased
  <2> QED BY <1>1, <1>2, <1>3, <2>1, SameBars
<1>6. CASE Spending(c)'
  <2>1. Cap(Req(c).op)' \in Caps \cup {Undefined}
    BY <1>1, CapInCaps DEF SpendInv, TypeOK, Cap, OneCall
  <2>2. ~HasReleased(c)'
    <3>1. SentBy(c)' \notin wire'
      BY <1>1, GateFacts DEF UnderwayUnsent, SentBy, Settled
    <3> QED BY <1>1, <1>6, <3>1 DEF HasReleased, Awaits, SignerAwaits, RpcAwaits
  <2>3. releasedBar' = releasedBar /\ limitBar'[c] \in Caps \cup {Undefined}
    BY <1>2, <1>3, <1>4, <1>6, <2>1, <2>2 DEF releasedBar
  <2>4. CASE Pc(c)' \in Awaits
    <3>1. gateBar = "open"
      BY <1>1, <1>6, <2>4 DEF SpendInv, CallInv, gateBar, Awaits, SignerAwaits, RpcAwaits
    <3>2. statusBar'[c] = "admitted" /\ toldBar'[c] = "nothing"
      BY <1>4, <1>6, <2>2, <2>4 DEF StatusOf, ToldTo, Settled, Awaits, SignerAwaits, RpcAwaits
    <3>3. Gate!Admit(c)
      BY <1>1, <1>2, <1>3, <2>3, <3>1, <3>2 DEF Gate!Admit, Gate!Becomes
    <3> QED BY <3>3 DEF Gate!Next
  <2>5. CASE Pc(c)' = "rejected" /\ calls'[c].error # "rpc"
    <3>1. statusBar'[c] = "declined" /\ toldBar'[c] = "notSent"
      BY <1>4, <1>6, <2>2, <2>5 DEF StatusOf, ToldTo, Settled
    <3>2. Gate!Refuse(c)
      BY <1>1, <1>2, <1>3, <2>3, <3>1 DEF Gate!Refuse, Gate!Becomes
    <3> QED BY <3>2 DEF Gate!Next
  <2> QED BY <1>1, <1>6, <2>4, <2>5
<1> QED BY <1>5, <1>6

-----------------------------------------------------------------------------
(* Resuming a call. *)

LEMMA ResumeIsOneCall ==
  ASSUME TypeOK, NEW c \in Calls, Resume(c)
  PROVE  /\ OneCall(c) /\ Pc(c) \in Awaits /\ Req(c)' = Req(c)
         /\ Pc(c)' \in Awaits \cup Settled
<1> USE DEF accountVars, historyVars, Resumes
<1>1. Pc(c) \in Awaits
  BY DEF Resume, SignerCreated, OwnerKnown, ReadOnlyAccountCreated, AddressKnown, SignerKnown,
         AtaInfoAnswered, BlockhashAnswered, LifetimeEnsured, PayerCompared, FeeAnswered, FeeUnknown,
         Signature, Broadcast, RpcFails, Awaits, SignerAwaits, RpcAwaits
<1>2. calls[c] \in Call /\ latest \in Nat
  BY <1>1, NotIdle, TypeOKCalls DEF Awaits, SignerAwaits, RpcAwaits
<1>3. \E v \in Call : calls' = [calls EXCEPT ![c] = v] /\ v.req = Req(c)
  <2>1. CASE SignerCreated(c)
    <3>1. [calls[c] EXCEPT !.acquiring = "cached"] \in Call
      BY <1>2 DEF Call
    <3>2. [calls[c] EXCEPT !.acquiring = "cached"].req = Req(c)
      BY <1>2 DEF Call, Req
    <3>3. calls' = [calls EXCEPT ![c] = [calls[c] EXCEPT !.acquiring = "cached"]]
      BY <2>1 DEF SignerCreated
    <3> QED BY <3>1, <3>2, <3>3
  <2>2. CASE ~SignerCreated(c)
    <3>1. PICK k \in Call : k.req = Req(c) /\ k.message.lifetime <= latest /\ Steps(c, k)
      BY <2>2, ResumeSteps
    <3>2. CASE \E at \in Awaits : Suspend(c, k, at) BY <1>2, <3>1, <3>2, SuspendMoves DEF Moved
    <3>3. CASE Resolve(c, k) BY <1>2, <3>1, <3>3, ResolveMoves DEF Moved
    <3>4. CASE \E e \in Errors : Reject(c, k, e) BY <1>2, <3>1, <3>4, RejectMoves DEF Moved
    <3> QED BY <3>1, <3>2, <3>3, <3>4 DEF Steps
  <2> QED BY <2>1, <2>2
<1>4. PICK v \in Call : calls' = [calls EXCEPT ![c] = v] /\ v.req = Req(c)
  BY <1>3
<1>5. calls'[c] = v /\ calls' = [calls EXCEPT ![c] = calls'[c]]
  BY <1>4 DEF TypeOK
<1>6. v.pc \in Awaits \cup Settled
  BY DEF Call
<1>7. calls[c].message \in Message
  BY <1>2 DEF Call
<1>8. config' = config /\ rawPrivateKey' = rawPrivateKey
  BY DEF Resume, SignerCreated, OwnerKnown, ReadOnlyAccountCreated, AddressKnown, SignerKnown,
         AtaInfoAnswered, BlockhashAnswered, LifetimeEnsured, PayerCompared, FeeAnswered, FeeUnknown,
         Signature, Broadcast, RpcFails
<1>9. quotes' = quotes \/ \E q \in Gate!Quotes : quotes' = quotes \cup {q}
  <2>1. CASE FeeAnswered(c)
    <3>1. PICK fee \in Fees :
            quotes' = quotes \cup {[call |-> c, message |-> calls[c].message, fee |-> fee]}
      BY <2>1 DEF FeeAnswered
    <3> QED BY <1>7, <3>1 DEF Gate!Quotes
  <2>2. CASE ~FeeAnswered(c)
    BY <2>2 DEF Resume, SignerCreated, OwnerKnown, ReadOnlyAccountCreated, AddressKnown, SignerKnown,
         AtaInfoAnswered, BlockhashAnswered, LifetimeEnsured, PayerCompared, FeeUnknown,
         Signature, Broadcast, RpcFails
  <2> QED BY <2>1, <2>2
<1>10. wire' = wire \/ wire' = wire \cup {SentBy(c)}
  BY DEF Resume, SignerCreated, OwnerKnown, ReadOnlyAccountCreated, AddressKnown, SignerKnown,
         AtaInfoAnswered, BlockhashAnswered, LifetimeEnsured, PayerCompared, FeeAnswered, FeeUnknown,
         Signature, Broadcast, RpcFails, SentBy
<1> QED BY <1>1, <1>4, <1>5, <1>6, <1>8, <1>9, <1>10 DEF OneCall, Pc, Req, SentBy

LEMMA ResumeImplements ==
  ASSUME SpendInv, SpendInv', NEW c \in Calls, Resume(c)
  PROVE  [Gate!Next]_(Gate!vars)
<1>1. /\ OneCall(c) /\ Pc(c) \in Awaits /\ Req(c)' = Req(c) /\ Pc(c)' \in Awaits \cup Settled
  BY ResumeIsOneCall DEF SpendInv
<1>2. /\ gateBar' = gateBar
      /\ limitBar' = [limitBar EXCEPT ![c] = limitBar'[c]]
      /\ statusBar' = [statusBar EXCEPT ![c] = statusBar'[c]]
      /\ toldBar' = [toldBar EXCEPT ![c] = toldBar'[c]]
      /\ releasedBar' = [releasedBar EXCEPT ![c] = releasedBar'[c]]
  BY <1>1, OthersUnchanged DEF SpendInv
<1>3. /\ limitBar[c] = IF Spending(c) THEN Cap(Req(c).op) ELSE Undefined
      /\ statusBar[c] = StatusOf(c) /\ toldBar[c] = ToldTo(c)
      /\ releasedBar[c] = IF HasReleased(c) THEN calls[c].message ELSE Undefined
  BY BarsOf
<1>4. /\ limitBar'[c] = (IF Spending(c) THEN Cap(Req(c).op) ELSE Undefined)'
      /\ statusBar'[c] = StatusOf(c)' /\ toldBar'[c] = ToldTo(c)'
      /\ releasedBar'[c] = (IF HasReleased(c) THEN calls[c].message ELSE Undefined)'
  BY DEF limitBar, statusBar, toldBar, releasedBar
<1>5. /\ Gate!Heard /\ Pc(c) # "idle" /\ Pc(c)' # "idle" /\ Pc(c) \notin Settled
      /\ Cap(Req(c).op)' = Cap(Req(c).op) /\ Spending(c)' = Spending(c)
  BY <1>1 DEF OneCall, Gate!Heard, Awaits, SignerAwaits, RpcAwaits, Settled, Cap, Spending
<1>6. limitBar'[c] = limitBar[c] /\ limitBar' = limitBar
  BY <1>2, <1>3, <1>4, <1>5 DEF limitBar
<1>7. ~HasReleased(c)
  <2>1. SentBy(c) \notin wire
    BY <1>5, GateFacts DEF UnderwayUnsent, SentBy
  <2> QED BY <1>5, <2>1 DEF HasReleased, Settled
<1>8. /\ toldBar[c] = "nothing" /\ releasedBar[c] = Undefined
      /\ statusBar[c] = IF Spending(c) THEN "admitted" ELSE "idle"
  BY <1>3, <1>5, <1>7 DEF StatusOf, ToldTo, Settled
<1>9. CASE ~Spending(c)' \/ Pc(c)' \in Awaits
  <2>1. ~HasReleased(c)'
    <3>1. CASE ~Spending(c)' BY <3>1 DEF HasReleased
    <3>2. CASE Pc(c)' \in Awaits
      <4>1. Pc(c)' \notin Settled
        BY <3>2 DEF Awaits, SignerAwaits, RpcAwaits, Settled
      <4>2. UnderwayUnsent'
        BY GateFacts, PTL
      <4> QED BY <4>1, <4>2 DEF HasReleased, UnderwayUnsent, SentBy, Settled
    <3> QED BY <1>9, <3>1, <3>2
  <2>2. /\ statusBar'[c] = statusBar[c] /\ toldBar'[c] = toldBar[c]
        /\ releasedBar'[c] = releasedBar[c]
    BY <1>4, <1>5, <1>8, <1>9, <2>1
       DEF StatusOf, ToldTo, Settled, Awaits, SignerAwaits, RpcAwaits
  <2>3. statusBar' = statusBar /\ toldBar' = toldBar /\ releasedBar' = releasedBar
    BY <1>2, <2>2 DEF statusBar, toldBar, releasedBar
  <2> QED BY <1>2, <1>5, <1>6, <2>3 DEF Gate!Next
<1>10. CASE Spending(c)' /\ HasReleased(c)'
  <2>1. Pc(c)' \in Settled
    <3>1. SpendInv' => UnderwayUnsent'
      BY GateFacts, PTL
    <3> QED BY <1>10, <3>1 DEF HasReleased, UnderwayUnsent, SentBy, Settled
  <2>2. statusBar'[c] = "released" /\ toldBar'[c] \in {"sent", "unsure"}
    <3>1. Pc(c)' = "rejected" => calls'[c].error = "rpc"
      BY <1>10 DEF HasReleased, SpendInv, WireInv, SentBy
    <3> QED BY <1>4, <1>10, <2>1, <3>1 DEF StatusOf, ToldTo, Settled
  <2>3. releasedBar'[c] = calls'[c].message /\ calls'[c].message \in Message
    <3>1. calls'[c] \in Call
      BY <1>5 DEF SpendInv, TypeOK, Pc, Idle
    <3> QED BY <1>4, <1>10, <3>1 DEF Call
  <2>4. limitBar[c] # Undefined =>
          \E fee \in Fees : /\ fee <= limitBar[c]
                            /\ [call |-> c, message |-> calls'[c].message, fee |-> fee] \in quotes'
    <3>1. ReleasesQuoted'
      BY GateFacts, PTL
    <3> QED BY <1>3, <1>5, <1>10, <3>1 DEF ReleasesQuoted
  <2>5. Gate!Release(c)
    BY <1>2, <1>5, <1>6, <1>8, <1>10, <2>2, <2>3, <2>4 DEF Gate!Release, Gate!Becomes
  <2> QED BY <1>5, <2>5 DEF Gate!Next
<1>11. CASE Spending(c)' /\ ~HasReleased(c)' /\ Pc(c)' \in Settled
  <2>1. Pc(c)' = "rejected"
    BY <1>11 DEF HasReleased, Settled
  <2>2. /\ statusBar'[c] = "declined" /\ toldBar'[c] \in {"notSent", "unsure"}
        /\ releasedBar'[c] = releasedBar[c]
    BY <1>4, <1>8, <1>11, <2>1 DEF StatusOf, ToldTo, Settled
  <2>3. releasedBar' = releasedBar
    BY <1>2, <2>2 DEF releasedBar
  <2>4. Gate!Decline(c)
    BY <1>2, <1>5, <1>6, <1>8, <1>11, <2>2, <2>3 DEF Gate!Decline, Gate!Becomes
  <2> QED BY <1>5, <2>4 DEF Gate!Next
<1> QED BY <1>1, <1>9, <1>10, <1>11

-----------------------------------------------------------------------------
(* The refinement. *)

LEMMA GateInit == Init => Gate!Init
BY DEF Init, Gate!Init, gateBar, limitBar, statusBar, toldBar, releasedBar, StatusOf, ToldTo,
       HasReleased, Spending, Pc, Idle

\* A step that changes neither the calls nor the histories closes the gate or leaves it alone.
LEMMA OtherStepsImplement ==
  ASSUME UNCHANGED <<config, calls, historyVars>>,
         rawPrivateKey' = rawPrivateKey \/ rawPrivateKey' # "key"
  PROVE  [Gate!Next]_(Gate!vars)
<1>1. UNCHANGED <<limitBar, statusBar, toldBar, releasedBar, quotes>>
  BY DEF limitBar, statusBar, toldBar, releasedBar, StatusOf, ToldTo, HasReleased, Spending, SentBy,
         Cap, Pc, Req, historyVars
<1>2. gateBar' = gateBar \/ gateBar' = "closed"
  BY DEF gateBar
<1> QED BY <1>1, <1>2 DEF Gate!Next, Gate!Close, Gate!vars

LEMMA GateStep == SpendInv /\ SpendInv' /\ [Next]_vars => [Gate!Next]_(Gate!vars)
<1> SUFFICES ASSUME SpendInv, SpendInv', [Next]_vars PROVE [Gate!Next]_(Gate!vars)
  OBVIOUS
<1>1. ASSUME NEW c \in Calls, Invoke(c) PROVE [Gate!Next]_(Gate!vars)
  BY <1>1, InvokeImplements
<1>2. ASSUME NEW c \in Calls, Resume(c) PROVE [Gate!Next]_(Gate!vars)
  BY <1>2, ResumeImplements
<1>3. CASE Dispose \/ DisposeAgain \/ NewBlock \/ UNCHANGED vars
  BY <1>3, OtherStepsImplement DEF Dispose, DisposeAgain, NewBlock, vars, accountVars, historyVars
<1> QED BY <1>1, <1>2, <1>3 DEF Next

\* The account keeps what SpendGate promises its callers, for any calls, fees and caps and however
\* the calls, the answers of the node and dispose() interleave.
THEOREM GateImplemented == Spec => ImplementsGate
<1>1. Spec => []SpendInv
  BY SpendInvariant
<1> QED BY <1>1, GateInit, GateStep, PTL DEF Spec, ImplementsGate, Gate!Spec
-----------------------------------------------------------------------------
(***************************************************************************)
(* A call only moves forward.  SpendInv says which requests can be at an   *)
(* await, and so which awaits can follow it.                               *)
(***************************************************************************)

LEMMA StageBounds ==
  ASSUME NEW r, NEW at
  PROVE  Stage(r, at) \in 1..13 /\ (at \in Settled => Stage(r, at) = 13)
BY DEF Stage, Settled

\* A call is at its stage, or just before it.
LEMMA ProgressOf ==
  ASSUME NEW c \in Calls
  PROVE  /\ Progress(c) \in Nat
         /\ Pc(c) = "idle" => Progress(c) = 0
         /\ Pc(c) # "idle" => /\ Progress(c) <= 2 * Stage(Req(c), Pc(c))
                             /\ Progress(c) >= 2 * Stage(Req(c), Pc(c)) - 1
<1>1. Stage(Req(c), Pc(c)) \in 1..13
  BY StageBounds
<1> QED BY <1>1 DEF Progress

\* Call c suspends, with continuation k, at a later stage than it was at, or settles.
Later(c, k) ==
  \/ \E at \in Awaits : Suspend(c, k, at) /\ Stage(Req(c), Pc(c)) < Stage(k.req, at)
  \/ Stage(Req(c), Pc(c)) < 13 /\ (Resolve(c, k) \/ \E e \in Errors : Reject(c, k, e))

\* A call that suspends at a later stage, or settles, has advanced.
LEMMA LaterAdvances ==
  ASSUME SpendInv, NEW c \in Calls, Pc(c) # "idle",
         NEW k \in Call, k.message.lifetime <= latest, Later(c, k)
  PROVE  Progress(c) < Progress(c)'
<1> DEFINE here == Stage(Req(c), Pc(c))
<1>1. latest \in Nat
  BY TypeOKCalls DEF SpendInv
<1>2. \E v \in Call : /\ calls' = [calls EXCEPT ![c] = v]
                      /\ here < Stage(v.req, v.pc)
  <2>1. ASSUME NEW at \in Awaits, Suspend(c, k, at), here < Stage(k.req, at)
        PROVE  \E v \in Call : calls' = [calls EXCEPT ![c] = v] /\ here < Stage(v.req, v.pc)
    <3>1. PICK v \in Call : /\ calls' = [calls EXCEPT ![c] = v] /\ Moved(v, k)
                            /\ v.pc = at \/ v.pc = "rejected"
      BY <1>1, <2>1, SuspendMoves
    <3>2. Stage(k.req, at) \in 1..13 /\ here \in 1..13 /\ Stage(v.req, "rejected") = 13
      BY StageBounds DEF Settled
    <3>3. here < Stage(v.req, v.pc)
      BY <2>1, <3>1, <3>2 DEF Moved
    <3> QED BY <3>1, <3>3
  <2>2. ASSUME here < 13, Resolve(c, k) \/ \E e \in Errors : Reject(c, k, e)
        PROVE  \E v \in Call : calls' = [calls EXCEPT ![c] = v] /\ here < Stage(v.req, v.pc)
    <3>1. PICK v \in Call : calls' = [calls EXCEPT ![c] = v] /\ v.pc \in Settled
      BY <1>1, <2>2, ResolveMoves, RejectMoves DEF Settled
    <3>2. Stage(v.req, v.pc) = 13
      BY <3>1, StageBounds
    <3> QED BY <2>2, <3>1, <3>2
  <2> QED BY <2>1, <2>2 DEF Later
<1>3. PICK v \in Call : calls' = [calls EXCEPT ![c] = v] /\ here < Stage(v.req, v.pc)
  BY <1>2
<1>4. calls'[c] = v /\ Pc(c)' = v.pc /\ Req(c)' = v.req /\ Pc(c)' # "idle"
  BY <1>3, StepResult DEF Call, Awaits, SignerAwaits, RpcAwaits, Settled
<1>5. /\ here \in 1..13 /\ Stage(v.req, v.pc) \in 1..13
      /\ Progress(c) \in Nat /\ Progress(c) <= 2 * here
  BY StageBounds, ProgressOf
<1>6. Progress(c)' >= 2 * Stage(v.req, v.pc) - 1 /\ Progress(c)' \in Nat
  BY <1>4, <1>5 DEF Progress
<1> QED BY <1>3, <1>5, <1>6

\* Every continuation of a call advances it.
LEMMA ResumeAdvances ==
  ASSUME SpendInv, NEW c \in Calls, Resume(c)
  PROVE  Progress(c) < Progress(c)'
<1> USE DEF Awaits, SignerAwaits, RpcAwaits, Errors, Resumes
<1>1. Pc(c) # "idle" /\ Pc(c) \notin Settled
  BY DEF Resume, SignerCreated, OwnerKnown, ReadOnlyAccountCreated, AddressKnown, SignerKnown,
         AtaInfoAnswered, BlockhashAnswered, LifetimeEnsured, PayerCompared, FeeAnswered, FeeUnknown,
         Signature, Broadcast, RpcFails, Settled
<1>2. /\ calls[c] \in Call /\ calls[c].req = Req(c) /\ calls[c].message.lifetime <= latest
      /\ CallInv(c) /\ IsRequest(Req(c)) /\ latest \in Nat /\ latest \in Lifetimes
  BY <1>1, CallFacts DEF Req
<1>3. OnRoute(Req(c), Pc(c))
  BY <1>1, <1>2 DEF CallInv
<1>4. Pc(c) = "fee" => Req(c).form # "none"
  BY <1>2, <1>3 DEF OnRoute, IsRequest, Forms, Quotes, Spends, Sends
<1>5. Stage(Req(c), Pc(c)) < 13
  <2>1. Pc(c) \in Awaits /\ Req(c).form \in {"none", "spl", "native", "message", "serialized", "signed"}
    BY <1>1, <1>2 DEF Call, Pc, IsRequest
  <2> QED BY <1>4, <2>1 DEF Stage
<1>6. CASE SignerCreated(c)
  <2> DEFINE v == [calls[c] EXCEPT !.acquiring = "cached"]
  <2>1. v.pc = Pc(c) /\ v.req = Req(c) /\ v.acquiring = "cached"
    BY <1>2 DEF Call, Pc
  <2>2. calls' = [calls EXCEPT ![c] = v] /\ calls[c].acquiring = "creating"
    BY <1>6 DEF SignerCreated
  <2>3. calls'[c] = v /\ Pc(c)' = Pc(c) /\ Req(c)' = Req(c)
    BY <2>1, <2>2, StepResult
  <2> HIDE DEF v
  <2>4. Stage(Req(c), Pc(c)) \in 1..13
    BY StageBounds
  <2>5. Progress(c) = 2 * Stage(Req(c), Pc(c)) - 1
    BY <1>1, <2>2 DEF Progress
  <2>6. Progress(c)' = 2 * Stage(Req(c), Pc(c))
    <3>1. Stage(Req(c), Pc(c))' = Stage(Req(c), Pc(c))
      BY <2>3 DEF Stage
    <3> QED BY <1>1, <2>1, <2>3, <2>4, <3>1 DEF Progress
  <2> QED BY <2>4, <2>5, <2>6
<1>7. ASSUME ~SignerCreated(c)
      PROVE  \E k \in Call : k.message.lifetime <= latest /\ Later(c, k)
  <2> USE <1>2, <1>5 DEF Later
  <2>1. CASE OwnerKnown(c) BY <2>1 DEF OwnerKnown, Stage
  <2>2. CASE ReadOnlyAccountCreated(c) BY <2>2 DEF ReadOnlyAccountCreated
  <2>3. CASE AddressKnown(c)
    <3> DEFINE at == CASE Req(c).form = "spl" -> "ataInfo"
                       [] Req(c).form = "native" -> "blockhash"
                       [] OTHER -> "signer"
    <3>1. at \in Awaits /\ Stage(Req(c), Pc(c)) < Stage(Req(c), at)
      BY <2>3 DEF AddressKnown, Stage
    <3>2. \/ Resolve(c, calls[c]) \/ \E e \in Errors : Reject(c, calls[c], e)
          \/ Suspend(c, calls[c], at)
      BY <2>3 DEF AddressKnown
    <3> HIDE DEF at
    <3> QED BY <3>1, <3>2
  <2>4. CASE SignerKnown(c) BY <2>4 DEF SignerKnown, Stage
  <2>5. CASE AtaInfoAnswered(c) BY <2>5 DEF AtaInfoAnswered, Stage
  <2>6. CASE BlockhashAnswered(c)
    <3> DEFINE k == [calls[c] EXCEPT !.message = [payer |-> "own", lifetime |-> latest]]
               at == CASE Req(c).form = "spl" -> "fee"
                       [] Req(c).form = "native" /\ Quotes(Req(c).op) -> "lifetime"
                       [] OTHER -> "signer"
    <3>1. k \in Call /\ k.req = Req(c) /\ k.message.lifetime <= latest
      BY DEF Call, Message, Lifetimes
    <3>2. at \in Awaits /\ Stage(Req(c), Pc(c)) < Stage(Req(c), at)
      BY <2>6 DEF BlockhashAnswered, Stage
    <3>3. (\E e \in Errors : Reject(c, k, e)) \/ Suspend(c, k, at)
      BY <2>6 DEF BlockhashAnswered
    <3> HIDE DEF at, k
    <3> QED BY <3>1, <3>2, <3>3
  <2>7. Pc(c) \in {"lifetime", "payer"} => Stage(Req(c), Pc(c)) < Stage(Req(c), Prepared(Req(c)))
    <3>1. CASE Prepared(Req(c)) = "signing" BY <3>1 DEF Stage
    <3>2. CASE Prepared(Req(c)) = "fee" /\ Req(c).op # "transfer"
      BY <1>3, <3>2 DEF OnRoute, Stage
    <3> QED BY <3>1, <3>2 DEF Prepared
  <2>8. CASE LifetimeEnsured(c)
    <3> DEFINE k == [calls[c] EXCEPT !.message.lifetime = IF @ = 0 THEN latest ELSE @]
               n == [k EXCEPT !.message.payer = "own"]
    <3>1. k \in Call /\ k.req = Req(c) /\ k.message.lifetime <= latest
      BY DEF Call, Message
    <3>2. ASSUME NEW m \in Call
          PROVE  LET w == [m EXCEPT !.message.payer = "own"] IN
                 w \in Call /\ w.req = m.req /\ w.message.lifetime = m.message.lifetime
      BY DEF Call, Message
    <3>3. Suspend(c, k, "payer") \/ Suspend(c, n, Prepared(Req(c)))
      BY <2>8 DEF LifetimeEnsured
    <3>4. Pc(c) = "lifetime" /\ Stage(Req(c), "lifetime") < Stage(Req(c), "payer")
          /\ Prepared(Req(c)) \in Awaits
      BY <2>8 DEF LifetimeEnsured, Stage, Prepared
    <3> HIDE DEF k
    <3>5. n \in Call /\ n.req = Req(c) /\ n.message.lifetime <= latest
      BY <3>1, <3>2
    <3> HIDE DEF n
    <3> QED BY <2>7, <3>1, <3>3, <3>4, <3>5
  <2>9. CASE PayerCompared(c)
    <3>1. Pc(c) = "payer" /\ Prepared(Req(c)) \in Awaits
      BY <2>9 DEF PayerCompared, Prepared
    <3> QED BY <2>7, <2>9, <3>1 DEF PayerCompared
  <2>10. CASE FeeAnswered(c)
    <3> DEFINE at == CASE Req(c).form = "spl" -> "signer"
                       [] Req(c).form \in {"serialized", "signed"} -> "broadcast"
                       [] OTHER -> "signing"
    <3>1. PICK fee \in Fees :
            LET k == [calls[c] EXCEPT !.fee = fee] IN
            Resolve(c, k) \/ (\E e \in Errors : Reject(c, k, e)) \/ Suspend(c, k, at)
      BY <2>10 DEF FeeAnswered
    <3> DEFINE k == [calls[c] EXCEPT !.fee = fee]
    <3>2. k \in Call /\ k.req = Req(c) /\ k.message.lifetime <= latest
      BY DEF Call
    <3>3. at \in Awaits /\ Stage(Req(c), Pc(c)) < Stage(Req(c), at)
      <4>1. Pc(c) = "fee" /\ Req(c).form \in {"spl", "native", "message", "serialized", "signed"}
        BY <1>4, <2>10 DEF FeeAnswered, IsRequest
      <4> QED BY <4>1 DEF Stage
    <3> HIDE DEF at, k
    <3> QED BY <3>1, <3>2, <3>3 DEF k
  <2>11. CASE FeeUnknown(c) BY <2>11 DEF FeeUnknown
  <2>12. CASE Signature(c)
    <3>1. /\ Stage(Req(c), "signing") < Stage(Req(c), "broadcast") /\ Pc(c) = "signing"
          /\ Req(c).form = "serialized" => Stage(Req(c), "signing") < Stage(Req(c), "fee")
      BY <2>12 DEF Signature, Stage
    <3> QED BY <2>12, <3>1 DEF Signature
  <2>13. CASE Broadcast(c) BY <2>13 DEF Broadcast
  <2>14. CASE RpcFails(c) BY <2>14 DEF RpcFails
  <2> HIDE DEF Later
  <2> QED BY <1>7, <2>1, <2>2, <2>3, <2>4, <2>5, <2>6, <2>8, <2>9, <2>10, <2>11, <2>12, <2>13, <2>14
          DEF Resume
<1> QED BY <1>1, <1>6, <1>7, LaterAdvances

\* No step sets a call back.
LEMMA NothingSetsBack ==
  ASSUME SpendInv, [Next]_vars, NEW c \in Calls
  PROVE  Progress(c) <= Progress(c)'
<1>1. Progress(c) \in Nat /\ Progress(c)' \in Nat
  <2>1. Progress(c) \in Nat
    BY ProgressOf
  <2>2. Stage(calls'[c].req, calls'[c].pc) \in 1..13
    BY StageBounds
  <2> QED BY <2>1, <2>2 DEF Progress, Pc, Req
<1>2. calls'[c] = calls[c] => Progress(c)' = Progress(c)
  BY DEF Progress, Pc, Req
<1>3. ASSUME NEW d \in Calls, Invoke(d) PROVE Progress(c) <= Progress(c)'
  <2>1. OneCall(d) /\ Pc(d) = "idle"
    BY <1>3, InvokeIsOneCall DEF SpendInv
  <2>2. CASE c = d BY <1>1, <2>1, <2>2, ProgressOf
  <2>3. CASE c # d
    <3>1. calls'[c] = calls[c]
      BY <2>1, <2>3 DEF OneCall, SpendInv, TypeOK
    <3> QED BY <1>1, <1>2, <3>1
  <2> QED BY <2>2, <2>3
<1>4. ASSUME NEW d \in Calls, Resume(d) PROVE Progress(c) <= Progress(c)'
  <2>1. CASE c = d BY <1>1, <1>4, <2>1, ResumeAdvances
  <2>2. CASE c # d
    <3>1. calls'[c] = calls[c]
      BY <1>4, <2>2, ResumeIsOneCall DEF OneCall, SpendInv, TypeOK
    <3> QED BY <1>1, <1>2, <3>1
  <2> QED BY <2>1, <2>2
<1>5. CASE Dispose \/ DisposeAgain \/ NewBlock \/ UNCHANGED vars
  <2>1. calls' = calls
    BY <1>5 DEF Dispose, DisposeAgain, NewBlock, vars
  <2> QED BY <1>1, <1>2, <2>1
<1> QED BY <1>3, <1>4, <1>5 DEF Next

\* Whatever the node answers, whatever other calls do and whenever the account is disposed, a call
\* goes through its awaits in one order, without ever coming back to one.
THEOREM CallsAdvance == Spec => EveryStepAdvances
<1>1. SpendInv /\ [Next]_vars =>
        \A c \in Calls : Progress(c) <= Progress(c)' /\ (Resume(c) => Progress(c) < Progress(c)')
  BY NothingSetsBack, ResumeAdvances
<1> QED BY <1>1, SpendInvariant, PTL DEF Spec, EveryStepAdvances

=============================================================================
