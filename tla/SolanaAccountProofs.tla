------------------------- MODULE SolanaAccountProofs ------------------------
(***************************************************************************)
(* Theorems about the states of SolanaAccount, for every set of calls and  *)
(* requests, every fee and cap, and any number of blockhashes: the types,  *)
(* that an erasure is final, and the safety properties of signing and      *)
(* sending, which follow from the inductive invariant SpendInv.            *)
(***************************************************************************)
EXTENDS SolanaAccount, TLAPS

-----------------------------------------------------------------------------
(* What a step does to the continuation of the call that takes it. *)

\* A continuation that has its type, waits for _getSigner exactly where it must, and carries no
\* blockhash newer than `newest'.
WellFormed(k, newest) ==
  /\ k \in Call
  /\ k.pc \in SignerAwaits <=> k.acquiring \in {"cached", "creating"}
  /\ k.message.lifetime <= newest

\* v is k moved to another await or settled; what the call has learnt is kept.
Moved(v, k) ==
  v.req = k.req /\ v.message = k.message /\ v.fee = k.fee /\ v.late = k.late

CallsOK ==
  /\ calls \in [Calls -> {Idle} \cup Call]
  /\ \A c \in Calls : Pc(c) # "idle" => WellFormed(calls[c], latest)

\* A call that suspends, from a continuation k, is left with k at the new await, or rejected
\* because the account has no private key.
LEMMA SuspendMoves ==
  ASSUME NEW c \in Calls, NEW k \in Call, NEW at \in Awaits,
         k.message.lifetime <= latest, latest \in Nat, Suspend(c, k, at)
  PROVE  \E v \in Call :
           /\ calls' = [calls EXCEPT ![c] = v]
           /\ WellFormed(v, latest)
           /\ Moved(v, k)
           /\ \/ v.pc = at
              \/ v.pc = "rejected" /\ v.error = "noKey"
<1> DEFINE w == [k EXCEPT !.pc = at, !.acquiring = "no"]
           v == IF at \in SignerAwaits THEN GetSigner(w) ELSE w
<1>1. calls' = [calls EXCEPT ![c] = v]
  BY DEF Suspend
<1>2. w \in Call /\ w.pc = at /\ w.acquiring = "no" /\ Moved(w, k) /\ w.error = k.error
  BY DEF Call, Moved, Awaits
<1>3. /\ v \in Call
      /\ WellFormed(v, latest)
      /\ Moved(v, k)
      /\ v.pc = at \/ (v.pc = "rejected" /\ v.error = "noKey")
  <2>1. CASE at \notin SignerAwaits
    BY <1>2, <2>1 DEF WellFormed, Moved
  <2>2. CASE at \in SignerAwaits /\ signer = "live"
    <3>1. v = [w EXCEPT !.acquiring = "cached"]
      BY <2>2 DEF GetSigner
    <3> QED BY <3>1, <1>2, <2>2 DEF WellFormed, Moved, Call
  <2>3. CASE at \in SignerAwaits /\ signer # "live" /\ rawPrivateKey = "key"
    <3>1. v = [w EXCEPT !.acquiring = "creating"]
      BY <2>3 DEF GetSigner
    <3> QED BY <3>1, <1>2, <2>3 DEF WellFormed, Moved, Call
  <2>4. CASE at \in SignerAwaits /\ signer # "live" /\ rawPrivateKey # "key"
    <3>1. v = [w EXCEPT !.pc = "rejected", !.error = "noKey"]
      BY <2>4 DEF GetSigner
    <3> QED BY <3>1, <1>2, <2>4 DEF WellFormed, Moved, Call, Settled, Errors, SignerAwaits
  <2> QED BY <2>1, <2>2, <2>3, <2>4
<1> QED BY <1>1, <1>3

\* A call that settles keeps what it has learnt.
LEMMA ResolveMoves ==
  ASSUME NEW c \in Calls, NEW k \in Call,
         k.message.lifetime <= latest, latest \in Nat, Resolve(c, k)
  PROVE  \E v \in Call :
           /\ calls' = [calls EXCEPT ![c] = v]
           /\ WellFormed(v, latest)
           /\ Moved(v, k)
           /\ v.pc = "resolved"
<1> DEFINE v == [k EXCEPT !.pc = "resolved", !.acquiring = "no"]
<1>1. v \in Call /\ WellFormed(v, latest) /\ Moved(v, k) /\ v.pc = "resolved"
  BY DEF Call, WellFormed, Moved, Settled, SignerAwaits
<1> QED BY <1>1 DEF Resolve

\* A call that is rejected keeps what it has learnt, and gets the reason.
LEMMA RejectMoves ==
  ASSUME NEW c \in Calls, NEW k \in Call, NEW e \in Errors,
         k.message.lifetime <= latest, latest \in Nat, Reject(c, k, e)
  PROVE  \E v \in Call :
           /\ calls' = [calls EXCEPT ![c] = v]
           /\ WellFormed(v, latest)
           /\ Moved(v, k)
           /\ v.pc = "rejected" /\ v.error = e
<1> DEFINE v == [k EXCEPT !.pc = "rejected", !.acquiring = "no", !.error = e]
<1>1. v \in Call /\ WellFormed(v, latest) /\ Moved(v, k) /\ v.pc = "rejected" /\ v.error = e
  BY DEF Call, WellFormed, Moved, Settled, SignerAwaits
<1> QED BY <1>1 DEF Reject

\* What the three ways to end a step have in common.
Steps(c, k) ==
  \/ \E at \in Awaits : Suspend(c, k, at)
  \/ Resolve(c, k)
  \/ \E e \in Errors : Reject(c, k, e)

\* A step that ends with a well-typed continuation leaves the calls well typed.
LEMMA StepsKeepType ==
  ASSUME CallsOK, latest \in Nat, latest' = latest,
         NEW c \in Calls, NEW k \in Call, k.message.lifetime <= latest, Steps(c, k)
  PROVE  CallsOK'
<1>1. PICK v \in Call : calls' = [calls EXCEPT ![c] = v] /\ WellFormed(v, latest)
  <2>1. ASSUME NEW at \in Awaits, Suspend(c, k, at)
        PROVE  \E v \in Call : calls' = [calls EXCEPT ![c] = v] /\ WellFormed(v, latest)
    BY <2>1, SuspendMoves
  <2>2. ASSUME NEW e \in Errors, Reject(c, k, e)
        PROVE  \E v \in Call : calls' = [calls EXCEPT ![c] = v] /\ WellFormed(v, latest)
    BY <2>2, RejectMoves
  <2> QED BY <2>1, <2>2, ResolveMoves DEF Steps
<1>2. calls' \in [Calls -> {Idle} \cup Call]
  BY <1>1 DEF CallsOK
<1>3. ASSUME NEW d \in Calls, Pc(d)' # "idle"
      PROVE  WellFormed(calls[d], latest)'
  <2>1. CASE d = c
    BY <1>1, <2>1 DEF CallsOK, WellFormed
  <2>2. CASE d # c
    BY <1>1, <1>3, <2>2 DEF CallsOK, WellFormed, Pc
  <2> QED BY <2>1, <2>2
<1> QED BY <1>2, <1>3 DEF CallsOK

\* The continuation of a call that is just being made has its type.
LEMMA FreshTyped ==
  ASSUME NEW r \in Requests
  PROVE  /\ Fresh(r) \in Call
         /\ Fresh(r).req = r
         /\ Fresh(r).message = [payer |-> r.payer, lifetime |-> r.lifetime]
         /\ Fresh(r).message.payer = r.payer
         /\ Fresh(r).message.lifetime = r.lifetime
         /\ Fresh(r).fee = 0
         /\ Fresh(r).late = (rawPrivateKey # "key")
BY RequestsAssumption DEF Fresh, Call, Message, IsRequest, Settled, Errors

\* A call that is not idle has a continuation of the right type.
LEMMA NotIdle ==
  ASSUME CallsOK, NEW c \in Calls, Pc(c) # "idle"
  PROVE  calls[c] \in Call /\ WellFormed(calls[c], latest)
BY DEF CallsOK, Pc, Idle

\* The type invariant is CallsOK and the types of the other variables.
LEMMA TypeOKCalls == TypeOK => CallsOK /\ latest \in 1..MaxBlock /\ latest \in Nat
<1> SUFFICES ASSUME TypeOK PROVE CallsOK /\ latest \in 1..MaxBlock /\ latest \in Nat
  OBVIOUS
<1>1. ASSUME NEW c \in Calls, Pc(c) # "idle"
      PROVE  WellFormed(calls[c], latest)
  BY <1>1 DEF TypeOK, WellFormed, Pc, Idle
<1> QED BY <1>1 DEF TypeOK, CallsOK

-----------------------------------------------------------------------------
(* Type correctness. *)

\* Making a call keeps the types: each operation ends at an await or settled.
LEMMA InvokeSteps ==
  ASSUME NEW c \in Calls, NEW r \in Requests,
         \/ GetAddress(c, r) \/ ToReadOnlyAccount(c, r) \/ Sign(c, r)
         \/ SignTransaction(c, r) \/ SendTransaction(c, r) \/ QuoteSendTransaction(c, r)
         \/ Transfer(c, r) \/ QuoteTransfer(c, r)
  PROVE  Pc(c) = "idle" /\ Steps(c, Fresh(r))
<1> USE DEF Steps, Made, Awaits, SignerAwaits, RpcAwaits, Errors
<1>1. CASE GetAddress(c, r) BY <1>1 DEF GetAddress
<1>2. CASE ToReadOnlyAccount(c, r) BY <1>2 DEF ToReadOnlyAccount
<1>3. CASE Sign(c, r) BY <1>3 DEF Sign
<1>4. CASE SignTransaction(c, r) BY <1>4 DEF SignTransaction
<1>5. CASE SendTransaction(c, r) BY <1>5 DEF SendTransaction
<1>6. CASE QuoteSendTransaction(c, r) BY <1>6 DEF QuoteSendTransaction
<1>7. CASE Transfer(c, r) BY <1>7 DEF Transfer
<1>8. CASE QuoteTransfer(c, r) BY <1>8 DEF QuoteTransfer
<1> QED BY <1>1, <1>2, <1>3, <1>4, <1>5, <1>6, <1>7, <1>8

\* The parts of the type invariant that say nothing of the calls.
RestOK ==
  /\ config \in [rpc : BOOLEAN, transferMaxFee : Caps, transactionMaxFee : Caps]
  /\ rawPrivateKey \in {"key", "undefined"}
  /\ keyBuffer \in {"secret", "zeroed"}
  /\ seed \in {"seed", "undefined"}
  /\ signer \in {"live", "undefined"}
  /\ readOnlyAccount \in Calls \cup {Undefined}
  /\ latest \in 1..MaxBlock
  /\ quotes \subseteq [call : Calls, message : Message, fee : Fees]
  /\ signed \subseteq [call : Calls, message : Message]
  /\ wire \subseteq [call : Calls, message : Message]

\* The type invariant is CallsOK and RestOK.
LEMMA TypeOKParts == TypeOK <=> CallsOK /\ RestOK
<1>1. ASSUME TypeOK PROVE CallsOK /\ RestOK
  BY <1>1, TypeOKCalls DEF TypeOK, RestOK
<1>2. ASSUME CallsOK, RestOK PROVE TypeOK
  <2>1. ASSUME NEW c \in Calls, Pc(c) # "idle"
        PROVE  /\ Pc(c) \in SignerAwaits <=> calls[c].acquiring \in {"cached", "creating"}
               /\ calls[c].message.lifetime <= latest
    BY <1>2, <2>1, NotIdle DEF WellFormed, Pc
  <2> QED BY <1>2, <2>1 DEF TypeOK, RestOK, CallsOK
<1> QED BY <1>1, <1>2

\* A call that resumes ends its step at an await or settled, with what it had learnt or with the
\* message it has completed, the latest blockhash or a fee added to it.
LEMMA ResumeSteps ==
  ASSUME TypeOK, NEW c \in Calls, Resume(c), ~SignerCreated(c)
  PROVE  \E k \in Call : k.req = Req(c) /\ k.message.lifetime <= latest /\ Steps(c, k)
<1> USE DEF Steps, Awaits, SignerAwaits, RpcAwaits, Errors, Resumes
<1>0. latest \in Lifetimes /\ latest <= latest
  BY DEF TypeOK, Lifetimes
<1>1. Pc(c) # "idle"
  BY DEF Resume, OwnerKnown, ReadOnlyAccountCreated, AddressKnown, SignerKnown, AtaInfoAnswered,
         BlockhashAnswered, LifetimeEnsured, PayerCompared, FeeAnswered, FeeUnknown, Signature,
         Broadcast, RpcFails
<1>2. calls[c] \in Call /\ calls[c].req = Req(c) /\ calls[c].message.lifetime <= latest
  BY <1>1, TypeOKCalls, NotIdle DEF WellFormed, Req
<1>3. CASE OwnerKnown(c) BY <1>2, <1>3 DEF OwnerKnown
<1>4. CASE ReadOnlyAccountCreated(c) BY <1>2, <1>4 DEF ReadOnlyAccountCreated
<1>5. CASE AddressKnown(c) BY <1>2, <1>5 DEF AddressKnown
<1>6. CASE SignerKnown(c) BY <1>2, <1>6 DEF SignerKnown
<1>7. CASE AtaInfoAnswered(c) BY <1>2, <1>7 DEF AtaInfoAnswered
<1>8. CASE BlockhashAnswered(c)
  <2> DEFINE k == [calls[c] EXCEPT !.message = [payer |-> "own", lifetime |-> latest]]
  <2>1. k \in Call /\ k.req = Req(c) /\ k.message.lifetime <= latest
    BY <1>0, <1>2 DEF Call, Message
  <2>2. Steps(c, k)
    BY <1>8 DEF BlockhashAnswered
  <2> QED BY <2>1, <2>2
<1>9. CASE LifetimeEnsured(c)
  <2> DEFINE k == [calls[c] EXCEPT !.message.lifetime = IF @ = 0 THEN latest ELSE @]
             n == [k EXCEPT !.message.payer = "own"]
  <2>1. /\ k \in Call /\ k.req = Req(c) /\ k.message.lifetime <= latest
        /\ n \in Call /\ n.req = Req(c) /\ n.message.lifetime <= latest
    BY <1>0, <1>2 DEF Call, Message
  <2>2. Steps(c, k) \/ Steps(c, n)
    BY <1>9 DEF LifetimeEnsured, Prepared
  <2> QED BY <2>1, <2>2
<1>10. CASE PayerCompared(c) BY <1>2, <1>10 DEF PayerCompared, Prepared
<1>11. CASE FeeAnswered(c)
  <2>1. PICK fee \in Fees : Steps(c, [calls[c] EXCEPT !.fee = fee])
    BY <1>11 DEF FeeAnswered
  <2>2. /\ [calls[c] EXCEPT !.fee = fee] \in Call
        /\ [calls[c] EXCEPT !.fee = fee].req = Req(c)
        /\ [calls[c] EXCEPT !.fee = fee].message.lifetime <= latest
    BY <1>2 DEF Call
  <2> HIDE DEF Steps
  <2> QED BY <2>1, <2>2
<1>12. CASE FeeUnknown(c) BY <1>2, <1>12 DEF FeeUnknown
<1>13. CASE Signature(c) BY <1>2, <1>13 DEF Signature
<1>14. CASE Broadcast(c) BY <1>2, <1>14 DEF Broadcast
<1>15. CASE RpcFails(c) BY <1>2, <1>15 DEF RpcFails
<1> QED BY <1>3, <1>4, <1>5, <1>6, <1>7, <1>8, <1>9, <1>10, <1>11, <1>12, <1>13, <1>14, <1>15
        DEF Resume

\* Every step keeps the types.
LEMMA TypeStep == TypeOK /\ [Next]_vars => TypeOK'
<1> SUFFICES ASSUME TypeOK, [Next]_vars PROVE TypeOK'
  OBVIOUS
<1> USE DEF accountVars, historyVars
<1>0. CallsOK /\ RestOK /\ latest \in Nat
  BY TypeOKParts, TypeOKCalls
<1>1. SUFFICES CallsOK' /\ RestOK'
  <2>1. TypeOK' <=> CallsOK' /\ RestOK'
    BY TypeOKParts, PTL
  <2> QED BY <2>1
<1>2. ASSUME NEW c \in Calls, Invoke(c) PROVE CallsOK' /\ RestOK'
  <2>1. UNCHANGED <<config, accountVars, latest, historyVars>>
    BY <1>2 DEF Invoke
  <2>2. PICK r \in Requests : r.lifetime <= latest /\ Steps(c, Fresh(r))
    BY <1>2, InvokeSteps DEF Invoke
  <2>3. Fresh(r) \in Call /\ Fresh(r).message.lifetime <= latest
    BY <2>2, FreshTyped
  <2>4. CallsOK'
    BY <1>0, <2>1, <2>2, <2>3, StepsKeepType
  <2> QED BY <1>0, <2>1, <2>4 DEF RestOK
<1>3. ASSUME NEW c \in Calls, SignerCreated(c) PROVE CallsOK' /\ RestOK'
  <2>1. calls[c] \in Call /\ WellFormed(calls[c], latest)
    BY <1>0, <1>3, NotIdle DEF SignerCreated, SignerAwaits
  <2>2. /\ [calls[c] EXCEPT !.acquiring = "cached"] \in Call
        /\ WellFormed([calls[c] EXCEPT !.acquiring = "cached"], latest)
    BY <1>3, <2>1 DEF SignerCreated, Call, WellFormed, Pc
  <2>3. calls' = [calls EXCEPT ![c] = [calls[c] EXCEPT !.acquiring = "cached"]] /\ latest' = latest
    BY <1>3 DEF SignerCreated
  <2>4. CallsOK'
    <3>1. ASSUME NEW d \in Calls, Pc(d)' # "idle"
          PROVE  WellFormed(calls[d], latest)'
      <4>1. CASE d = c BY <1>0, <2>2, <2>3, <4>1 DEF CallsOK, WellFormed
      <4>2. CASE d # c BY <1>0, <2>3, <3>1, <4>2 DEF CallsOK, WellFormed, Pc
      <4> QED BY <4>1, <4>2
    <3>2. calls' \in [Calls -> {Idle} \cup Call]
      BY <1>0, <2>2, <2>3 DEF CallsOK
    <3> QED BY <3>1, <3>2 DEF CallsOK
  <2> QED BY <1>0, <1>3, <2>4 DEF SignerCreated, RestOK
<1>4. ASSUME NEW c \in Calls, Resume(c), ~SignerCreated(c) PROVE CallsOK' /\ RestOK'
  <2>1. PICK k \in Call : k.message.lifetime <= latest /\ Steps(c, k)
    BY <1>4, ResumeSteps
  <2>2. latest' = latest
    BY <1>4 DEF Resume, OwnerKnown, ReadOnlyAccountCreated, AddressKnown, SignerKnown,
                AtaInfoAnswered, BlockhashAnswered, LifetimeEnsured, PayerCompared, FeeAnswered,
                FeeUnknown, Signature, Broadcast, RpcFails
  <2>3. CallsOK'
    BY <1>0, <2>1, <2>2, StepsKeepType
  <2>4. calls[c].message \in Message
    <3>1. Pc(c) # "idle"
      BY <1>4 DEF Resume, OwnerKnown, ReadOnlyAccountCreated, AddressKnown, SignerKnown,
                  AtaInfoAnswered, BlockhashAnswered, LifetimeEnsured, PayerCompared, FeeAnswered,
                  FeeUnknown, Signature, Broadcast, RpcFails, Resumes, RpcAwaits
    <3> QED BY <1>0, <3>1, NotIdle DEF Call
  <2>5. RestOK'
    <3> USE <1>0 DEF RestOK
    <3>1. CASE ReadOnlyAccountCreated(c) BY <3>1 DEF ReadOnlyAccountCreated
    <3>2. CASE FeeAnswered(c)
      <4>1. PICK fee \in Fees :
              quotes' = quotes \cup {[call |-> c, message |-> calls[c].message, fee |-> fee]}
        BY <3>2 DEF FeeAnswered
      <4> QED BY <2>4, <3>2, <4>1 DEF FeeAnswered
    <3>3. CASE Signature(c) BY <2>4, <3>3 DEF Signature
    <3>4. CASE Broadcast(c) BY <2>4, <3>4 DEF Broadcast
    <3>5. CASE OwnerKnown(c) \/ AddressKnown(c) \/ SignerKnown(c) \/ AtaInfoAnswered(c)
      BY <3>5 DEF OwnerKnown, AddressKnown, SignerKnown, AtaInfoAnswered
    <3>6. CASE BlockhashAnswered(c) \/ LifetimeEnsured(c) \/ PayerCompared(c)
      BY <3>6 DEF BlockhashAnswered, LifetimeEnsured, PayerCompared
    <3>7. CASE FeeUnknown(c) \/ RpcFails(c)
      BY <3>7 DEF FeeUnknown, RpcFails
    <3> QED BY <1>4, <3>1, <3>2, <3>3, <3>4, <3>5, <3>6, <3>7 DEF Resume
  <2> QED BY <2>3, <2>5
<1>5. CASE Dispose \/ DisposeAgain
  BY <1>0, <1>5 DEF Dispose, DisposeAgain, CallsOK, RestOK, Pc, WellFormed
<1>6. CASE NewBlock
  <2>1. latest' \in 1..MaxBlock /\ latest <= latest' /\ latest' \in Nat
    BY <1>0, <1>6, BlockAssumption DEF NewBlock, RestOK
  <2>2. ASSUME NEW c \in Calls, Pc(c) # "idle" PROVE WellFormed(calls[c], latest')
    <3>1. calls[c].message.lifetime \in Nat /\ WellFormed(calls[c], latest)
      BY <1>0, <2>2, NotIdle, BlockAssumption DEF Call, Message, Lifetimes
    <3> QED BY <1>0, <2>1, <3>1 DEF WellFormed
  <2> QED BY <1>0, <1>6, <2>1, <2>2 DEF NewBlock, CallsOK, RestOK, Pc
<1>7. CASE UNCHANGED vars
  BY <1>0, <1>7 DEF vars, CallsOK, RestOK, Pc, WellFormed
<1> QED BY <1>2, <1>3, <1>4, <1>5, <1>6, <1>7 DEF Next

\* Initially every variable has its type.
LEMMA TypeInit == Init => TypeOK
BY BlockAssumption DEF Init, TypeOK, Pc, Idle

\* The state of the account and of its calls is well typed in every behaviour: in particular a
\* call waits for the creation of a signer only where the code awaits _getSigner.
THEOREM TypeCorrect == Spec => []TypeOK
<1> QED BY TypeInit, TypeStep, PTL DEF Spec

-----------------------------------------------------------------------------
(* Erasure is final. *)

\* While the account is erased, no call that ends a step waits for a signer to be created: there
\* is no key to create it from.
LEMMA StepsCreateNothing ==
  ASSUME Erased, CallsOK, NEW c \in Calls, NEW k \in Call, Steps(c, k)
  PROVE  \A d \in Calls : Pc(d)' \in SignerAwaits => calls'[d].acquiring # "creating"
<1>1. PICK v : /\ calls' = [calls EXCEPT ![c] = v]
               /\ v.pc \in SignerAwaits => v.acquiring # "creating"
  <2>1. ASSUME NEW at \in Awaits, Suspend(c, k, at)
        PROVE  \E v : /\ calls' = [calls EXCEPT ![c] = v]
                      /\ v.pc \in SignerAwaits => v.acquiring # "creating"
    <3> DEFINE w == [k EXCEPT !.pc = at, !.acquiring = "no"]
               v == IF at \in SignerAwaits THEN GetSigner(w) ELSE w
    <3>1. calls' = [calls EXCEPT ![c] = v]
      BY <2>1 DEF Suspend
    <3>2. w \in Call /\ w.acquiring = "no"
      BY DEF Call, Awaits
    <3>3. v = w \/ v = [w EXCEPT !.pc = "rejected", !.error = "noKey"]
      BY DEF Erased, GetSigner
    <3>4. [w EXCEPT !.pc = "rejected", !.error = "noKey"].acquiring = "no"
      BY <3>2 DEF Call
    <3>5. v.acquiring = "no"
      BY <3>2, <3>3, <3>4
    <3> QED BY <3>1, <3>5
  <2>2. CASE Resolve(c, k)
    <3> DEFINE v == [k EXCEPT !.pc = "resolved", !.acquiring = "no"]
    <3>1. v.acquiring = "no"
      BY DEF Call
    <3> QED BY <2>2, <3>1 DEF Resolve
  <2>3. ASSUME NEW e \in Errors, Reject(c, k, e)
        PROVE  \E v : /\ calls' = [calls EXCEPT ![c] = v]
                      /\ v.pc \in SignerAwaits => v.acquiring # "creating"
    <3> DEFINE v == [k EXCEPT !.pc = "rejected", !.acquiring = "no", !.error = e]
    <3>1. v.acquiring = "no"
      BY DEF Call
    <3> QED BY <2>3, <3>1 DEF Reject
  <2> QED BY <2>1, <2>2, <2>3 DEF Steps
<1> QED BY <1>1 DEF CallsOK, Pc, Erased

\* After dispose() the key does not come back, unless the creation of a signer was under way:
\* neither the calls still in flight nor new calls put a signer into the account.
THEOREM ErasureFinal == Spec => ErasureIsFinal
<1>1. TypeOK /\ [Next]_vars => (Erased => Erased')
  <2> SUFFICES ASSUME TypeOK, [Next]_vars, Erased PROVE Erased'
    OBVIOUS
  <2> USE DEF accountVars
  <2>0. CallsOK
    BY TypeOKCalls
  <2>1. ASSUME NEW c \in Calls, Invoke(c) PROVE Erased'
    <3>1. PICK r \in Requests : Steps(c, Fresh(r))
      BY <2>1, InvokeSteps DEF Invoke
    <3>2. \A d \in Calls : Pc(d)' \in SignerAwaits => calls'[d].acquiring # "creating"
      BY <2>0, <3>1, FreshTyped, StepsCreateNothing
    <3> QED BY <2>1, <3>2 DEF Invoke, Erased
  <2>2. ASSUME NEW c \in Calls, Resume(c) PROVE Erased'
    <3>1. ~SignerCreated(c)
      BY DEF SignerCreated, Erased
    <3>2. PICK k \in Call : Steps(c, k)
      BY <2>2, <3>1, ResumeSteps
    <3>3. \A d \in Calls : Pc(d)' \in SignerAwaits => calls'[d].acquiring # "creating"
      BY <2>0, <3>2, StepsCreateNothing
    <3>4. UNCHANGED <<rawPrivateKey, keyBuffer, seed, signer>>
      BY <2>2, <3>1 DEF Resume, OwnerKnown, ReadOnlyAccountCreated, AddressKnown, SignerKnown,
           AtaInfoAnswered, BlockhashAnswered, LifetimeEnsured, PayerCompared, FeeAnswered,
           FeeUnknown, Signature, Broadcast, RpcFails
    <3> QED BY <3>3, <3>4 DEF Erased
  <2>3. ~Dispose
    BY DEF Dispose, Erased
  <2>4. CASE NewBlock \/ DisposeAgain
    BY <2>4 DEF NewBlock, DisposeAgain, Erased, Pc
  <2>5. CASE UNCHANGED vars
    BY <2>5 DEF vars, Erased, Pc
  <2> QED BY <2>1, <2>2, <2>3, <2>4, <2>5 DEF Next
<1> QED BY <1>1, TypeCorrect, PTL DEF Spec, ErasureIsFinal

-----------------------------------------------------------------------------
(***************************************************************************)
(* SpendInv is inductive: one lemma per action.                            *)
(***************************************************************************)

(* What a step of one call leaves alone. *)

\* What the invariant says of a call that has been made, with the types it rests on.
LEMMA CallFacts ==
  ASSUME SpendInv, NEW c \in Calls, Pc(c) # "idle"
  PROVE  /\ CallInv(c)
         /\ calls[c] \in Call /\ calls[c].message.lifetime <= latest
         /\ Req(c) \in Requests /\ IsRequest(Req(c))
         /\ latest \in Nat /\ latest # 0 /\ latest \in Lifetimes
<1>1. TypeOK /\ CallInv(c)
  BY DEF SpendInv
<1>2. calls[c] \in Call /\ WellFormed(calls[c], latest) /\ latest \in 1..MaxBlock
  BY <1>1, NotIdle, TypeOKCalls
<1>3. Req(c) \in Requests
  BY <1>2 DEF Req, Call
<1>4. IsRequest(Req(c))
  BY <1>3, RequestsAssumption
<1> QED BY <1>1, <1>2, <1>3, <1>4 DEF WellFormed, Lifetimes

\* A step of one call, in which the histories only grow, keeps the invariant if it makes it true
\* of that call and of what is new in the histories.
LEMMA OneCallSteps ==
  ASSUME SpendInv, TypeOK', NEW c \in Calls, NEW v \in Call,
         calls' = [calls EXCEPT ![c] = v],
         Pc(c) \notin Settled,
         Pc(c) # "idle" => v.req = Req(c) /\ v.late = calls[c].late,
         config' = config,
         quotes \subseteq quotes', signed \subseteq signed', wire \subseteq wire',
         CallInv(c)',
         \A s \in signed' : s \in signed \/ SignedInv(s)',
         \A tx \in wire' : tx \in wire \/ WireInv(tx)'
  PROVE  SpendInv'
<1>0. /\ calls'[c] = v
      /\ \A d \in Calls : d # c => calls'[d] = calls[d]
      /\ v.pc # "idle"
  BY DEF SpendInv, TypeOK, Call, Awaits, SignerAwaits, RpcAwaits, Settled
<1>1. ASSUME NEW d \in Calls, Pc(d)' # "idle" PROVE CallInv(d)'
  <2>1. CASE d = c
    BY <2>1
  <2>2. CASE d # c
    <3>1. calls'[d] = calls[d] /\ CallInv(d)
      BY <1>0, <1>1, <2>2 DEF SpendInv, Pc
    <3> QED BY <3>1 DEF CallInv, PastFeeCheck, PastCompletion, PastSignature, FeeChecked, SentBy,
              AsksFee, Cap, Pc, Req
  <2> QED BY <2>1, <2>2
<1>2. ASSUME NEW s \in signed' PROVE SignedInv(s)'
  <2>1. CASE s \in signed
    <3>1. s.call \in Calls /\ SignedInv(s)
      BY <2>1 DEF SpendInv, TypeOK
    <3>2. CASE s.call = c
      BY <1>0, <3>1, <3>2 DEF SignedInv, Pc, Req
    <3>3. CASE s.call # c
      BY <1>0, <3>1, <3>3 DEF SignedInv, Pc, Req
    <3> QED BY <3>2, <3>3
  <2> QED BY <1>2, <2>1
<1>3. ASSUME NEW tx \in wire' PROVE WireInv(tx)'
  <2>1. CASE tx \in wire
    <3>1. tx.call \in Calls /\ WireInv(tx)
      BY <2>1 DEF SpendInv, TypeOK
    <3>2. tx.call # c
      BY <3>1 DEF WireInv
    <3> QED BY <1>0, <2>1, <3>1, <3>2 DEF WireInv, FeeChecked, SentBy, Cap, Pc, Req
  <2> QED BY <1>3, <2>1
<1> QED BY <1>1, <1>2, <1>3 DEF SpendInv

\* A call that is rejected is subject to nothing but what holds of its message.
LEMMA RejectedCall ==
  ASSUME NEW c \in Calls, NEW v \in Call, calls \in [Calls -> {Idle} \cup Call],
         calls' = [calls EXCEPT ![c] = v], v.pc = "rejected",
         v.req.payer = "other" => v.message.payer = "other",
         v.req.form = "serialized" => v.message.lifetime # 0
  PROVE  CallInv(c)'
BY DEF CallInv, PastFeeCheck, PastCompletion, PastSignature, Pc, Req, Settled

\* k is a continuation call c can go on with: it names the same request, and the message it
\* carries has not lost the payer or the lifetime the caller gave it.
Continues(c, k) ==
  /\ k \in Call /\ k.message.lifetime <= latest
  /\ Pc(c) \notin Settled
  /\ Pc(c) # "idle" => k.req = Req(c) /\ k.late = calls[c].late
  /\ k.req.payer = "other" => k.message.payer = "other"
  /\ k.req.form = "serialized" => k.message.lifetime # 0

\* The step only adds to the histories, and what it adds to the signatures and to the wire
\* satisfies the invariant.
HistoriesGrow ==
  /\ config' = config
  /\ quotes \subseteq quotes' /\ signed \subseteq signed' /\ wire \subseteq wire'
  /\ \A s \in signed' : s \in signed \/ SignedInv(s)'
  /\ \A tx \in wire' : tx \in wire \/ WireInv(tx)'

\* A call that suspends keeps the invariant if it may wait at the await it reaches.
LEMMA SuspendedCall ==
  ASSUME SpendInv, TypeOK', HistoriesGrow, NEW c \in Calls, NEW k, Continues(c, k),
         NEW at \in Awaits, Suspend(c, k, at),
         ASSUME NEW v \in Call, calls' = [calls EXCEPT ![c] = v], Moved(v, k), v.pc = at
         PROVE  CallInv(c)'
  PROVE  SpendInv'
<1>1. latest \in Nat /\ calls \in [Calls -> {Idle} \cup Call]
  BY TypeOKCalls DEF SpendInv, CallsOK
<1>2. PICK v \in Call : /\ calls' = [calls EXCEPT ![c] = v] /\ Moved(v, k)
                        /\ v.pc = at \/ v.pc = "rejected"
  BY <1>1, SuspendMoves DEF Continues
<1>3. CallInv(c)'
  <2>1. CASE v.pc = at BY <1>2, <2>1
  <2>2. CASE v.pc = "rejected"
    <3>1. /\ v.req.payer = "other" => v.message.payer = "other"
          /\ v.req.form = "serialized" => v.message.lifetime # 0
      BY <1>2 DEF Moved, Continues
    <3> QED BY <1>1, <1>2, <2>2, <3>1, RejectedCall
  <2> QED BY <1>2, <2>1, <2>2
<1> QED BY <1>2, <1>3, OneCallSteps DEF Continues, Moved, HistoriesGrow

\* A call that is rejected keeps the invariant.
LEMMA RejectedKeeps ==
  ASSUME SpendInv, TypeOK', HistoriesGrow, NEW c \in Calls, NEW k, Continues(c, k),
         NEW e \in Errors, Reject(c, k, e)
  PROVE  SpendInv'
<1>1. latest \in Nat /\ calls \in [Calls -> {Idle} \cup Call]
  BY TypeOKCalls DEF SpendInv, CallsOK
<1>2. PICK v \in Call : calls' = [calls EXCEPT ![c] = v] /\ Moved(v, k) /\ v.pc = "rejected"
  BY <1>1, RejectMoves DEF Continues
<1>3. CallInv(c)'
  <2>1. /\ v.req.payer = "other" => v.message.payer = "other"
        /\ v.req.form = "serialized" => v.message.lifetime # 0
    BY <1>2 DEF Moved, Continues
  <2> QED BY <1>1, <1>2, <2>1, RejectedCall
<1> QED BY <1>2, <1>3, OneCallSteps DEF Continues, Moved, HistoriesGrow

\* A call that resolves keeps the invariant if its operation may resolve.
LEMMA ResolvedCall ==
  ASSUME SpendInv, TypeOK', HistoriesGrow, NEW c \in Calls, NEW k, Continues(c, k), Resolve(c, k),
         ASSUME NEW v \in Call, calls' = [calls EXCEPT ![c] = v], Moved(v, k), v.pc = "resolved"
         PROVE  CallInv(c)'
  PROVE  SpendInv'
<1>1. latest \in Nat
  BY TypeOKCalls DEF SpendInv
<1>2. PICK v \in Call : calls' = [calls EXCEPT ![c] = v] /\ Moved(v, k) /\ v.pc = "resolved"
  BY <1>1, ResolveMoves DEF Continues
<1>3. CallInv(c)'
  BY <1>2
<1> QED BY <1>2, <1>3, OneCallSteps DEF Continues, Moved, HistoriesGrow

\* A step that leaves the configuration and the histories alone.
LEMMA QuietGrow == UNCHANGED <<config, historyVars>> => HistoriesGrow
BY DEF HistoriesGrow, historyVars

-----------------------------------------------------------------------------
(* One lemma per action. *)

\* A call that has just been made waits at the first await of its operation.
LEMMA InvokeKeeps ==
  ASSUME SpendInv, TypeOK', NEW c \in Calls, Invoke(c)
  PROVE  SpendInv'
<1>1. PICK r \in Requests :
        /\ r.lifetime <= latest
        /\ \/ GetAddress(c, r) \/ ToReadOnlyAccount(c, r) \/ Sign(c, r)
           \/ SignTransaction(c, r) \/ SendTransaction(c, r) \/ QuoteSendTransaction(c, r)
           \/ Transfer(c, r) \/ QuoteTransfer(c, r)
  BY DEF Invoke
<1>2. HistoriesGrow
  BY QuietGrow DEF Invoke, accountVars
<1>3. IsRequest(r) /\ Pc(c) = "idle" /\ Pc(c) \notin Settled
  BY <1>1, InvokeSteps, RequestsAssumption DEF Settled
<1>4. Continues(c, Fresh(r))
  BY <1>1, <1>3, FreshTyped DEF Continues, IsRequest
<1>5. ASSUME NEW at \in Awaits, Suspend(c, Fresh(r), at), OnRoute(r, at), at \notin {"broadcast", "payer"},
             Spends(r.op) => \/ at = "address"
                             \/ at = "fee" /\ r.form = "signed"
                             \/ at = "signer" /\ r.form = "message",
             Spends(r.op) \/ r.op = "sign" => rawPrivateKey = "key"
      PROVE  SpendInv'
  <2>1. ASSUME NEW v \in Call, calls' = [calls EXCEPT ![c] = v], Moved(v, Fresh(r)), v.pc = at
        PROVE  CallInv(c)'
    <3>1. Pc(c)' = at /\ calls'[c] = v /\ Req(c)' = r
      BY <2>1, FreshTyped DEF SpendInv, TypeOK, Pc, Req, Moved
    <3>2. /\ v.message.payer = r.payer /\ v.message.lifetime = r.lifetime
          /\ v.late = (rawPrivateKey # "key")
      BY <2>1, FreshTyped DEF Moved
    <3>3. ~PastSignature(c)'
      BY <1>5, <3>1 DEF PastSignature
    <3>4. ~PastFeeCheck(c)'
      BY <1>3, <1>5, <3>1 DEF PastFeeCheck, IsRequest, Forms, Awaits, SignerAwaits, RpcAwaits, Spends, Sends
    <3>5. ~PastCompletion(c)'
      BY <1>3, <1>5, <3>1 DEF PastCompletion
    <3> QED BY <1>3, <1>5, <3>1, <3>2, <3>3, <3>4, <3>5
            DEF CallInv, IsRequest, Awaits, SignerAwaits, RpcAwaits
  <2> QED BY <1>2, <1>4, <1>5, <2>1, SuspendedCall
<1>6. ASSUME Resolve(c, Fresh(r)), r.op = "toReadOnlyAccount" PROVE SpendInv'
  <2>1. ASSUME NEW v \in Call, calls' = [calls EXCEPT ![c] = v], Moved(v, Fresh(r)), v.pc = "resolved"
        PROVE  CallInv(c)'
    <3>1. Pc(c)' = "resolved" /\ calls'[c] = v /\ Req(c)' = r
      BY <2>1, FreshTyped DEF SpendInv, TypeOK, Pc, Req, Moved
    <3> QED BY <1>4, <1>6, <2>1, <3>1, FreshTyped
            DEF CallInv, PastFeeCheck, PastCompletion, PastSignature, Moved, Continues, Settled,
                Spends, Sends
  <2> QED BY <1>2, <1>4, <1>6, <2>1, ResolvedCall
<1>7. ASSUME NEW e \in Errors, Reject(c, Fresh(r), e) PROVE SpendInv'
  BY <1>2, <1>4, <1>7, RejectedKeeps
<1> USE DEF Made, OnRoute, Spends, Sends, Quotes, Awaits, SignerAwaits, RpcAwaits, Errors
<1> HIDE DEF SpendInv, Fresh
<1>8. CASE GetAddress(c, r) BY <1>3, <1>5, <1>7, <1>8 DEF GetAddress, IsRequest, Forms
<1>9. CASE ToReadOnlyAccount(c, r) BY <1>3, <1>5, <1>6, <1>7, <1>9 DEF ToReadOnlyAccount, IsRequest, Forms
<1>10. CASE Sign(c, r) BY <1>3, <1>5, <1>7, <1>10 DEF Sign, IsRequest, Forms
<1>11. CASE SignTransaction(c, r) BY <1>3, <1>5, <1>7, <1>11 DEF SignTransaction, IsRequest, Forms
<1>12. CASE SendTransaction(c, r) BY <1>3, <1>5, <1>7, <1>12 DEF SendTransaction, IsRequest, Forms
<1>13. CASE QuoteSendTransaction(c, r)
  BY <1>3, <1>5, <1>7, <1>13 DEF QuoteSendTransaction, IsRequest, Forms
<1>14. CASE Transfer(c, r) BY <1>3, <1>5, <1>7, <1>14 DEF Transfer, IsRequest, Forms
<1>15. CASE QuoteTransfer(c, r) BY <1>3, <1>5, <1>7, <1>15 DEF QuoteTransfer, IsRequest, Forms
<1> QED BY <1>1, <1>8, <1>9, <1>10, <1>11, <1>12, <1>13, <1>14, <1>15

\* A call that is waiting can go on with the continuation it has.
LEMMA ContinuesAsIs ==
  ASSUME SpendInv, NEW c \in Calls, Pc(c) \notin Settled, Pc(c) # "idle"
  PROVE  Continues(c, calls[c])
BY CallFacts DEF Continues, CallInv, Req

\* What a step leaves in the record of the call that takes it.
LEMMA StepResult ==
  ASSUME SpendInv, NEW c \in Calls, NEW v, calls' = [calls EXCEPT ![c] = v]
  PROVE  calls'[c] = v /\ Pc(c)' = v.pc /\ Req(c)' = v.req
BY DEF SpendInv, TypeOK, Pc, Req

\* A step keeps the request, the message, the fee and the mark of a late call.
LEMMA StepKeeps ==
  ASSUME SpendInv, NEW c \in Calls, NEW k \in Call, k.message.lifetime <= latest, Steps(c, k)
  PROVE  /\ Pc(c)' # "idle" /\ Req(c)' = k.req
         /\ calls'[c].message = k.message /\ calls'[c].fee = k.fee /\ calls'[c].late = k.late
<1>1. latest \in Nat
  BY TypeOKCalls DEF SpendInv
<1>2. PICK v \in Call : calls' = [calls EXCEPT ![c] = v] /\ Moved(v, k)
  <2>1. ASSUME NEW at \in Awaits, Suspend(c, k, at)
        PROVE  \E v \in Call : calls' = [calls EXCEPT ![c] = v] /\ Moved(v, k)
    BY <1>1, <2>1, SuspendMoves
  <2>2. ASSUME NEW e \in Errors, Reject(c, k, e)
        PROVE  \E v \in Call : calls' = [calls EXCEPT ![c] = v] /\ Moved(v, k)
    BY <1>1, <2>2, RejectMoves
  <2> QED BY <1>1, <2>1, <2>2, ResolveMoves DEF Steps
<1>3. v.pc # "idle"
  BY DEF Call, Awaits, SignerAwaits, RpcAwaits, Settled
<1>4. calls'[c] = v /\ Pc(c)' = v.pc /\ Req(c)' = v.req
  BY <1>2, StepResult
<1> QED BY <1>2, <1>3, <1>4 DEF Moved

\* The creation of a signer changes nothing the invariant speaks of.
LEMMA SignerCreatedKeeps ==
  ASSUME SpendInv, TypeOK', NEW c \in Calls, SignerCreated(c)
  PROVE  SpendInv'
<1>1. Pc(c) # "idle" /\ Pc(c) \notin Settled
  BY DEF SignerCreated, SignerAwaits, Settled
<1> DEFINE v == [calls[c] EXCEPT !.acquiring = "cached"]
<1>2. v \in Call /\ v.req = Req(c) /\ v.message = calls[c].message /\ v.pc = Pc(c)
      /\ v.fee = calls[c].fee /\ v.late = calls[c].late
  BY <1>1, CallFacts DEF Call, Req, Pc
<1>3. calls' = [calls EXCEPT ![c] = v] /\ HistoriesGrow
  BY QuietGrow DEF SignerCreated
<1> HIDE DEF v
<1>4. calls'[c] = v /\ Pc(c)' = Pc(c) /\ Req(c)' = Req(c)
  BY <1>2, <1>3, StepResult
<1>5. CallInv(c)
  BY <1>1, CallFacts
<1>6. UNCHANGED <<config, quotes, signed, wire>>
  BY DEF SignerCreated, historyVars
<1>7. CallInv(c)'
  BY <1>2, <1>4, <1>5, <1>6 DEF CallInv, PastFeeCheck, PastCompletion, PastSignature, FeeChecked, SentBy,
                          AsksFee, Cap
<1> QED BY <1>1, <1>2, <1>3, <1>7, OneCallSteps DEF HistoriesGrow

\* The calls that only collect what they need to build the message.
LEMMA OwnerKnownKeeps ==
  ASSUME SpendInv, TypeOK', NEW c \in Calls, OwnerKnown(c)
  PROVE  SpendInv'
<1> USE DEF OwnerKnown, Resumes
<1>1. Continues(c, calls[c]) /\ HistoriesGrow /\ CallInv(c) /\ IsRequest(Req(c))
  BY ContinuesAsIs, QuietGrow, CallFacts DEF Settled, accountVars
<1>2. Quotes(Req(c).op) /\ Req(c).form \in {"native", "message"}
  BY <1>1 DEF CallInv, Settled, OnRoute
<1>3. ASSUME NEW at \in {"address", "lifetime"}, Suspend(c, calls[c], at), OnRoute(Req(c), at)
      PROVE  SpendInv'
  <2>1. ASSUME NEW v \in Call, calls' = [calls EXCEPT ![c] = v], Moved(v, calls[c]), v.pc = at
        PROVE  CallInv(c)'
    <3>1. calls'[c] = v /\ Pc(c)' = at /\ Req(c)' = Req(c)
      BY <2>1, StepResult DEF Moved, Req
    <3> QED BY <1>1, <1>2, <1>3, <2>1, <3>1 DEF CallInv, PastFeeCheck, PastCompletion, PastSignature,
              Moved, Quotes, Spends, Sends, Settled, Continues
  <2> QED BY <1>1, <1>3, <2>1, SuspendedCall DEF Awaits, SignerAwaits, RpcAwaits
<1> QED BY <1>2, <1>3 DEF OnRoute, Quotes

\* The call that creates the read-only copy spends nothing.
LEMMA ReadOnlyAccountCreatedKeeps ==
  ASSUME SpendInv, TypeOK', NEW c \in Calls, ReadOnlyAccountCreated(c)
  PROVE  SpendInv'
<1> USE DEF ReadOnlyAccountCreated, Resumes
<1>1. Continues(c, calls[c]) /\ HistoriesGrow /\ CallInv(c)
  BY ContinuesAsIs, QuietGrow, CallFacts DEF Settled
<1>2. ASSUME NEW v \in Call, calls' = [calls EXCEPT ![c] = v], Moved(v, calls[c]), v.pc = "resolved"
      PROVE  CallInv(c)'
  <2>1. calls'[c] = v /\ Pc(c)' = "resolved" /\ Req(c)' = Req(c)
    BY <1>2, StepResult DEF Moved, Req
  <2> QED BY <1>1, <1>2, <2>1 DEF CallInv, PastFeeCheck, PastCompletion, PastSignature, Moved,
             Spends, Sends, Settled
<1> QED BY <1>1, <1>2, ResolvedCall

\* With its address known, a call builds its message; a serialized transaction goes on to the
\* signer only when the account pays for it.
LEMMA AddressKnownKeeps ==
  ASSUME SpendInv, TypeOK', NEW c \in Calls, AddressKnown(c)
  PROVE  SpendInv'
<1> USE DEF AddressKnown, Resumes
<1>1. /\ Continues(c, calls[c]) /\ HistoriesGrow /\ CallInv(c) /\ IsRequest(Req(c))
      /\ OnRoute(Req(c), "address")
  BY ContinuesAsIs, QuietGrow, CallFacts DEF Settled, accountVars, CallInv
<1>2. ASSUME NEW at \in {"ataInfo", "blockhash", "signer"}, Suspend(c, calls[c], at),
             OnRoute(Req(c), at),
             at = "signer" => Req(c).form = "serialized" /\ calls[c].message.payer = "own"
      PROVE  SpendInv'
  <2>1. ASSUME NEW v \in Call, calls' = [calls EXCEPT ![c] = v], Moved(v, calls[c]), v.pc = at
        PROVE  CallInv(c)'
    <3>1. calls'[c] = v /\ Pc(c)' = at /\ Req(c)' = Req(c)
      BY <2>1, StepResult DEF Moved, Req
    <3>2. ~PastFeeCheck(c)'
      BY <1>1, <1>2, <3>1 DEF PastFeeCheck, IsRequest, Forms
    <3> QED BY <1>1, <1>2, <2>1, <3>1, <3>2 DEF CallInv, PastCompletion, PastSignature, Moved, Settled
  <2> QED BY <1>1, <1>2, <2>1, SuspendedCall DEF Awaits, SignerAwaits, RpcAwaits
<1>3. CASE Req(c).op = "getAddress"
  <2>1. ASSUME NEW v \in Call, calls' = [calls EXCEPT ![c] = v], Moved(v, calls[c]), v.pc = "resolved"
        PROVE  CallInv(c)'
    <3>1. calls'[c] = v /\ Pc(c)' = "resolved" /\ Req(c)' = Req(c)
      BY <2>1, StepResult DEF Moved, Req
    <3> QED BY <1>1, <1>3, <2>1, <3>1 DEF CallInv, PastFeeCheck, PastCompletion, PastSignature, Moved,
               Spends, Sends, Settled
  <2>2. Resolve(c, calls[c])
    BY <1>3
  <2> QED BY <1>1, <2>1, <2>2, ResolvedCall
<1>4. CASE Req(c).op # "getAddress"
  <2>1. \/ Req(c).form \in {"spl", "native"}
        \/ Req(c).form = "serialized" /\ Spends(Req(c).op)
    BY <1>1, <1>4 DEF OnRoute
  <2>2. \/ \E e \in Errors : Reject(c, calls[c], e)
        \/ Req(c).form = "spl" /\ Suspend(c, calls[c], "ataInfo")
        \/ Req(c).form = "native" /\ Suspend(c, calls[c], "blockhash")
        \/ /\ Req(c).form = "serialized" /\ Spends(Req(c).op) /\ calls[c].message.payer = "own"
           /\ Suspend(c, calls[c], "signer")
    BY <1>4, <2>1 DEF Errors
  <2>3. ASSUME NEW e \in Errors, Reject(c, calls[c], e) PROVE SpendInv'
    BY <1>1, <2>3, RejectedKeeps
  <2> HIDE DEF AddressKnown
  <2> QED BY <1>2, <2>2, <2>3 DEF OnRoute
<1> QED BY <1>3, <1>4

\* A message signature, and the signature of a serialized transaction, need nothing more; any
\* other call ensures the lifetime of its message.
LEMMA SignerKnownKeeps ==
  ASSUME SpendInv, TypeOK', NEW c \in Calls, SignerKnown(c)
  PROVE  SpendInv'
<1> USE DEF SignerKnown, Resumes
<1>1. /\ Continues(c, calls[c]) /\ HistoriesGrow /\ CallInv(c) /\ IsRequest(Req(c))
      /\ OnRoute(Req(c), "signer")
  BY ContinuesAsIs, QuietGrow, CallFacts DEF Settled, accountVars, CallInv
<1>2. Req(c).op = "sign" \/ (Spends(Req(c).op) /\ Req(c).form # "signed")
  BY <1>1 DEF OnRoute
<1>3. ASSUME NEW at \in {"signing", "lifetime"}, Suspend(c, calls[c], at),
             at = "signing" <=> (Req(c).op = "sign" \/ Req(c).form = "serialized")
      PROVE  SpendInv'
  <2>1. OnRoute(Req(c), at)
    BY <1>1, <1>2, <1>3 DEF OnRoute, IsRequest, Forms, Spends, Sends
  <2>2. ASSUME NEW v \in Call, calls' = [calls EXCEPT ![c] = v], Moved(v, calls[c]), v.pc = at
        PROVE  CallInv(c)'
    <3>1. calls'[c] = v /\ Pc(c)' = at /\ Req(c)' = Req(c)
      BY <2>2, StepResult DEF Moved, Req
    <3>2. UNCHANGED <<config, historyVars>>
      OBVIOUS
    <3>3. PastFeeCheck(c)' => PastFeeCheck(c)
      BY <1>1, <1>3, <3>1, <3>2 DEF PastFeeCheck, AsksFee, IsRequest, Forms, Spends, Sends
    <3>4. PastCompletion(c)' => PastCompletion(c)
      BY <1>1, <1>3, <3>1 DEF PastCompletion, IsRequest, Forms, Spends, Sends
    <3>5. FeeChecked(c) => FeeChecked(c)'
      BY <2>2, <3>1, <3>2 DEF FeeChecked, Cap, Moved, historyVars
    <3> QED BY <1>1, <1>3, <2>1, <2>2, <3>1, <3>3, <3>4, <3>5
            DEF CallInv, PastSignature, Moved, Settled
  <2> QED BY <1>1, <1>3, <2>2, SuspendedCall DEF Awaits, SignerAwaits, RpcAwaits
<1> QED BY <1>3

\* The answer about the recipient's token account does not concern the fee or the signature.
LEMMA AtaInfoAnsweredKeeps ==
  ASSUME SpendInv, TypeOK', NEW c \in Calls, AtaInfoAnswered(c)
  PROVE  SpendInv'
<1> USE DEF AtaInfoAnswered, Resumes
<1>1. /\ Continues(c, calls[c]) /\ HistoriesGrow /\ CallInv(c)
      /\ Req(c).form = "spl"
  BY ContinuesAsIs, QuietGrow, CallFacts DEF Settled, accountVars, CallInv, OnRoute
<1>2. ASSUME NEW v \in Call, calls' = [calls EXCEPT ![c] = v], Moved(v, calls[c]), v.pc = "blockhash"
      PROVE  CallInv(c)'
  <2>1. calls'[c] = v /\ Pc(c)' = "blockhash" /\ Req(c)' = Req(c)
    BY <1>2, StepResult DEF Moved, Req
  <2> QED BY <1>1, <1>2, <2>1 DEF CallInv, PastFeeCheck, PastCompletion, PastSignature, Moved,
             Settled, OnRoute
<1> QED BY <1>1, <1>2, SuspendedCall DEF Awaits, SignerAwaits, RpcAwaits

\* The builders return a message that names the account as its payer and has a lifetime.
LEMMA BlockhashAnsweredKeeps ==
  ASSUME SpendInv, TypeOK', NEW c \in Calls, BlockhashAnswered(c)
  PROVE  SpendInv'
<1> USE DEF BlockhashAnswered, Resumes
<1> DEFINE k == [calls[c] EXCEPT !.message = [payer |-> "own", lifetime |-> latest]]
<1>1. /\ Continues(c, calls[c]) /\ HistoriesGrow /\ CallInv(c) /\ IsRequest(Req(c))
      /\ Req(c).form \in {"spl", "native"} /\ latest # 0 /\ latest \in Lifetimes /\ latest \in Nat
      /\ Pc(c) = "blockhash"
  BY ContinuesAsIs, QuietGrow, CallFacts DEF Settled, accountVars, CallInv, OnRoute
<1>2. /\ k \in Call /\ k.req = Req(c) /\ k.late = calls[c].late
      /\ k.message.payer = "own" /\ k.message.lifetime = latest
  BY <1>1 DEF Call, Message, Continues, Req
<1>3. Continues(c, k)
  BY <1>1, <1>2 DEF Continues, IsRequest
<1>4. \/ Reject(c, k, "tooLarge")
      \/ Suspend(c, k, "fee") /\ Req(c).form = "spl"
      \/ Suspend(c, k, "lifetime") /\ Req(c).form = "native"
      \/ Suspend(c, k, "signer") /\ Req(c).form = "native" /\ ~Quotes(Req(c).op)
  BY <1>1
<1> HIDE DEF k, BlockhashAnswered
<1>5. ASSUME NEW at \in {"fee", "lifetime", "signer"}, Suspend(c, k, at),
             at = "fee" => Req(c).form = "spl",
             at # "fee" => Req(c).form = "native",
             at = "signer" => ~Quotes(Req(c).op)
      PROVE  SpendInv'
  <2>1. ASSUME NEW v \in Call, calls' = [calls EXCEPT ![c] = v], Moved(v, k), v.pc = at
        PROVE  CallInv(c)'
    <3>1. calls'[c] = v /\ Pc(c)' = at /\ Req(c)' = Req(c)
      BY <1>2, <2>1, StepResult DEF Moved, Req
    <3>2. OnRoute(Req(c), at)
      BY <1>1, <1>5 DEF OnRoute, IsRequest, Operations, Forms, Quotes, Spends, Sends
    <3>3. v.message.payer = "own" /\ v.message.lifetime # 0 /\ v.late = calls[c].late
      BY <1>1, <1>2, <2>1 DEF Moved
    <3>4. ~PastFeeCheck(c)' /\ ~PastSignature(c)'
      BY <1>1, <1>5, <3>1 DEF PastFeeCheck, PastSignature, IsRequest, Forms
    <3> QED BY <1>1, <1>3, <3>1, <3>2, <3>3, <3>4 DEF CallInv, Settled, IsRequest
  <2> QED BY <1>1, <1>3, <1>5, <2>1, SuspendedCall DEF Awaits, SignerAwaits, RpcAwaits
<1>6. ASSUME Reject(c, k, "tooLarge") PROVE SpendInv'
  BY <1>1, <1>3, <1>6, RejectedKeeps DEF Errors
<1> QED BY <1>4, <1>5, <1>6

\* The awaits that follow a complete message.
LEMMA PreparedCall ==
  ASSUME SpendInv, TypeOK', NEW c \in Calls, Pc(c) \in {"lifetime", "payer"},
         UNCHANGED <<config, historyVars>>,
         NEW k, Continues(c, k), Suspend(c, k, Prepared(Req(c))),
         k.message.payer = "own", k.message.lifetime # 0,
         Req(c).op = "transfer" => k.message = calls[c].message /\ k.fee = calls[c].fee
  PROVE  SpendInv'
<1>0. PICK at : at = Prepared(Req(c))
  OBVIOUS
<1>1. /\ HistoriesGrow /\ CallInv(c) /\ IsRequest(Req(c))
      /\ Req(c).op = "transfer" \/ Req(c).form \in {"native", "message"}
      /\ k.req = Req(c) /\ k.late = calls[c].late
  BY QuietGrow, CallFacts DEF CallInv, OnRoute, Settled, Continues
<1>2. /\ at \in {"fee", "signing"}
      /\ at = "fee" => Req(c).op # "transfer"
      /\ at = "signing" => Req(c).op = "transfer" \/ ~AsksFee(Req(c))
  BY <1>0 DEF Prepared
<1>3. OnRoute(Req(c), at)
  BY <1>1, <1>2 DEF OnRoute, IsRequest, Operations, Forms, Quotes, Spends, Sends, AsksFee
<1>4. ASSUME NEW v \in Call, calls' = [calls EXCEPT ![c] = v], Moved(v, k), v.pc = at
      PROVE  CallInv(c)'
  <2>0. calls'[c] = v /\ Pc(c)' = v.pc /\ Req(c)' = v.req
    BY <1>4, StepResult
  <2>1. /\ calls'[c] = v /\ Pc(c)' = at /\ Req(c)' = Req(c) /\ v.message = k.message
        /\ v.fee = k.fee /\ v.late = calls[c].late
    BY <1>1, <1>4, <2>0 DEF Moved
  <2>2. PastFeeCheck(c)' => FeeChecked(c)'
    <3>1. SUFFICES ASSUME PastFeeCheck(c)' PROVE FeeChecked(c)'
      OBVIOUS
    <3>2. Req(c).op = "transfer"
      BY <1>2, <2>1, <3>1 DEF PastFeeCheck, AsksFee
    <3>3. PastFeeCheck(c)
      BY <3>2 DEF PastFeeCheck, AsksFee, Spends, Sends
    <3>4. FeeChecked(c)
      BY <1>1, <3>3 DEF CallInv
    <3> QED BY <2>1, <3>2, <3>4 DEF FeeChecked, Cap, historyVars
  <2>3. ~PastSignature(c)'
    BY <1>1, <1>2, <2>1 DEF PastSignature, IsRequest, Forms
  <2> QED BY <1>1, <1>2, <1>3, <2>1, <2>2, <2>3 DEF CallInv, Settled, Continues
<1> QED BY <1>0, <1>1, <1>2, <1>4, SuspendedCall DEF Awaits, SignerAwaits, RpcAwaits

\* The lifetime of a message is completed; the message of a transfer has one already.
LEMMA LifetimeEnsuredKeeps ==
  ASSUME SpendInv, TypeOK', NEW c \in Calls, LifetimeEnsured(c)
  PROVE  SpendInv'
<1> USE DEF LifetimeEnsured, Resumes
<1> DEFINE m == calls[c].message
           k == [calls[c] EXCEPT !.message.lifetime = IF @ = 0 THEN latest ELSE @]
           n == [k EXCEPT !.message.payer = "own"]
<1>1. /\ Continues(c, calls[c]) /\ HistoriesGrow /\ CallInv(c) /\ IsRequest(Req(c))
      /\ Req(c).op = "transfer" \/ Req(c).form \in {"native", "message"}
      /\ OnRoute(Req(c), "lifetime")
      /\ latest # 0 /\ latest \in Lifetimes /\ latest \in Nat
      /\ calls[c] \in Call
  BY ContinuesAsIs, QuietGrow, CallFacts DEF Settled, accountVars, CallInv, OnRoute
<1>2. /\ k \in Call /\ k.req = Req(c) /\ k.late = calls[c].late /\ k.fee = calls[c].fee
      /\ k.message.lifetime # 0 /\ k.message.payer = m.payer /\ k.message.lifetime <= latest
      /\ m.lifetime # 0 => k.message = m
  BY <1>1 DEF Call, Message, Continues, Req
<1>3. /\ n \in Call /\ n.req = Req(c) /\ n.late = calls[c].late /\ n.message.payer = "own"
      /\ n.message.lifetime # 0 /\ n.message.lifetime <= latest
  BY <1>2 DEF Call, Message
<1>4. PastCompletion(c) => m.payer = "own" /\ m.lifetime # 0
  BY <1>1 DEF CallInv
<1>5. Req(c).op = "transfer" => PastCompletion(c)
  BY <1>1 DEF PastCompletion, IsRequest, Forms, Spends, Sends
<1>6. IF m.payer # "none" THEN Suspend(c, k, "payer") ELSE Suspend(c, n, Prepared(Req(c)))
  OBVIOUS
<1>7. UNCHANGED <<config, historyVars>>
  OBVIOUS
<1>8. Continues(c, k)
  BY <1>1, <1>2 DEF Continues
<1>9. m.payer = "none" => Continues(c, n)
  BY <1>1, <1>3 DEF Continues, IsRequest
<1>10. Pc(c) = "lifetime"
  OBVIOUS
<1> HIDE DEF LifetimeEnsured, k, n
<1>11. CASE m.payer = "none"
  <2>1. Req(c).op # "transfer"
    BY <1>4, <1>5, <1>11
  <2> QED BY <1>3, <1>6, <1>7, <1>9, <1>10, <1>11, <2>1, PreparedCall
<1>12. CASE m.payer # "none"
  <2>1. ASSUME NEW v \in Call, calls' = [calls EXCEPT ![c] = v], Moved(v, k), v.pc = "payer"
        PROVE  CallInv(c)'
    <3>1. /\ calls'[c] = v /\ Pc(c)' = "payer" /\ Req(c)' = Req(c) /\ v.late = calls[c].late
          /\ v.message = k.message /\ v.fee = calls[c].fee
      BY <1>2, <2>1, StepResult DEF Moved
    <3>2. OnRoute(Req(c), "payer") /\ Req(c).form # "serialized"
      BY <1>1 DEF OnRoute, IsRequest, Forms
    <3>3. PastCompletion(c)' => m.payer = "own"
      BY <1>4, <1>10, <3>1 DEF PastCompletion
    <3>4. PastFeeCheck(c)' => FeeChecked(c)'
      <4>1. SUFFICES ASSUME PastFeeCheck(c)' PROVE FeeChecked(c)'
        OBVIOUS
      <4>2. Req(c).op = "transfer" /\ PastFeeCheck(c)
        BY <1>7, <1>10, <3>1, <4>1 DEF PastFeeCheck, AsksFee, historyVars
      <4>3. FeeChecked(c) /\ k.message = m
        BY <1>1, <1>2, <1>4, <1>5, <4>2 DEF CallInv
      <4> QED BY <1>7, <3>1, <4>3 DEF FeeChecked, Cap, historyVars
    <3>5. ~PastSignature(c)'
      BY <3>1 DEF PastSignature
    <3> QED BY <1>1, <1>2, <1>10, <3>1, <3>2, <3>3, <3>4, <3>5 DEF CallInv, Settled
  <2>2. Suspend(c, k, "payer")
    BY <1>6, <1>12
  <2> QED BY <1>1, <1>8, <2>1, <2>2, SuspendedCall DEF Awaits, SignerAwaits, RpcAwaits
<1> QED BY <1>11, <1>12

\* The payer the message names is the account, or the call is rejected.
LEMMA PayerComparedKeeps ==
  ASSUME SpendInv, TypeOK', NEW c \in Calls, PayerCompared(c)
  PROVE  SpendInv'
<1> USE DEF PayerCompared, Resumes
<1>1. Continues(c, calls[c]) /\ HistoriesGrow /\ calls[c].message.lifetime # 0
  BY ContinuesAsIs, QuietGrow, CallFacts DEF Settled, accountVars, CallInv
<1>2. CASE calls[c].message.payer # "own"
  BY <1>1, <1>2, RejectedKeeps DEF Errors
<1>3. CASE calls[c].message.payer = "own"
  BY <1>1, <1>3, PreparedCall
<1> QED BY <1>2, <1>3

\* A fee within the cap lets the call go on; the fee and the message it was given for are kept.
LEMMA FeeAnsweredKeeps ==
  ASSUME SpendInv, TypeOK', NEW c \in Calls, FeeAnswered(c)
  PROVE  SpendInv'
<1>1. /\ CallInv(c) /\ IsRequest(Req(c)) /\ calls[c] \in Call /\ calls[c].message.lifetime <= latest
      /\ Pc(c) = "fee" /\ OnRoute(Req(c), "fee") /\ UNCHANGED <<config, signed, wire>>
      /\ Continues(c, calls[c])
  BY ContinuesAsIs, CallFacts DEF Settled, CallInv, FeeAnswered, Resumes
<1>2. PICK fee \in Fees :
        LET k == [calls[c] EXCEPT !.fee = fee] IN
        /\ quotes' = quotes \cup {[call |-> c, message |-> k.message, fee |-> fee]}
        /\ IF Exceeds(fee, Cap(Req(c).op)) THEN Reject(c, k, "feeExceeded")
           ELSE IF Quotes(Req(c).op) THEN Resolve(c, k)
           ELSE IF Req(c).op = "signTransaction" /\ Req(c).form = "serialized" THEN Resolve(c, k)
           ELSE Suspend(c, k, CASE Req(c).form = "spl" -> "signer"
                                [] Req(c).form \in {"serialized", "signed"} -> "broadcast"
                                [] OTHER -> "signing")
  BY DEF FeeAnswered
<1> DEFINE k == [calls[c] EXCEPT !.fee = fee]
<1>3. /\ k \in Call /\ k.req = Req(c) /\ k.late = calls[c].late /\ k.message = calls[c].message
      /\ k.fee = fee
  BY <1>1 DEF Call, Req
<1>4. Continues(c, k) /\ HistoriesGrow
  BY <1>1, <1>2, <1>3 DEF Continues, HistoriesGrow
<1>5. [call |-> c, message |-> k.message, fee |-> k.fee] \in quotes'
  BY <1>2, <1>3
<1>6. \/ Reject(c, k, "feeExceeded")
      \/ /\ ~Exceeds(fee, Cap(Req(c).op))
         /\ \/ Quotes(Req(c).op) /\ Resolve(c, k)
            \/ Req(c).op = "signTransaction" /\ Resolve(c, k)
            \/ Req(c).form = "spl" /\ ~Quotes(Req(c).op) /\ Suspend(c, k, "signer")
            \/ /\ Req(c).form \in {"serialized", "signed"} /\ Suspend(c, k, "broadcast")
               /\ ~Quotes(Req(c).op) /\ (Req(c).form = "serialized" => Req(c).op # "signTransaction")
            \/ Req(c).form \notin {"spl", "serialized", "signed"} /\ ~Quotes(Req(c).op) /\ Suspend(c, k, "signing")
  BY <1>2
<1> HIDE DEF k
<1>7. ASSUME NEW at \in {"signer", "broadcast", "signing", "resolved"}, OnRoute(Req(c), at) \/ at = "resolved",
             ~Exceeds(fee, Cap(Req(c).op)), at = "resolved" => ~Sends(Req(c).op),
             at \in {"signer", "signing"} => Req(c).form # "serialized",
             at = "broadcast" => Req(c).form \in {"serialized", "signed"},
             NEW v \in Call, calls' = [calls EXCEPT ![c] = v], Moved(v, k), v.pc = at
      PROVE  CallInv(c)'
  <2>1. calls'[c] = v /\ Pc(c)' = v.pc /\ Req(c)' = v.req
    BY <1>7, StepResult
  <2>2. /\ Pc(c)' = at /\ Req(c)' = Req(c) /\ v.message = calls[c].message
        /\ v.fee = fee /\ v.late = calls[c].late
    BY <1>3, <1>7, <2>1 DEF Moved
  <2>3. FeeChecked(c)'
    BY <1>1, <1>3, <1>5, <1>7, <2>1, <2>2 DEF FeeChecked, Exceeds, Cap
  <2>4. PastCompletion(c)' => PastCompletion(c)
    BY <1>1, <2>2 DEF PastCompletion
  <2>5. PastSignature(c)' => PastSignature(c)
    BY <1>1, <1>7, <2>2 DEF PastSignature, IsRequest, Forms, Spends, Sends, OnRoute
  <2>6. SentBy(c)' = SentBy(c)
    BY <2>1, <2>2 DEF SentBy
  <2> QED BY <1>1, <1>7, <2>1, <2>2, <2>3, <2>4, <2>5, <2>6 DEF CallInv, Settled
<1>8. ASSUME NEW at \in {"signer", "broadcast", "signing"}, Suspend(c, k, at), OnRoute(Req(c), at),
             ~Exceeds(fee, Cap(Req(c).op)),
             at \in {"signer", "signing"} => Req(c).form # "serialized",
             at = "broadcast" => Req(c).form \in {"serialized", "signed"}
      PROVE  SpendInv'
  <2>1. ASSUME NEW v \in Call, calls' = [calls EXCEPT ![c] = v], Moved(v, k), v.pc = at
        PROVE  CallInv(c)'
    BY <1>7, <1>8, <2>1
  <2>2. at \in Awaits
    BY DEF Awaits, SignerAwaits, RpcAwaits
  <2> QED BY <1>4, <1>8, <2>1, <2>2, SuspendedCall
<1>9. ASSUME Resolve(c, k), ~Exceeds(fee, Cap(Req(c).op)), ~Sends(Req(c).op)
      PROVE  SpendInv'
  BY <1>3, <1>4, <1>7, <1>9, ResolvedCall
<1>10. ASSUME Reject(c, k, "feeExceeded") PROVE SpendInv'
  BY <1>3, <1>4, <1>10, RejectedKeeps DEF Errors
<1> QED BY <1>1, <1>6, <1>8, <1>9, <1>10
        DEF OnRoute, Quotes, Spends, Sends, IsRequest, Forms, Operations

\* Without a fee the call is rejected.
LEMMA FeeUnknownKeeps ==
  ASSUME SpendInv, TypeOK', NEW c \in Calls, FeeUnknown(c)
  PROVE  SpendInv'
<1>1. Continues(c, calls[c]) /\ HistoriesGrow
  BY ContinuesAsIs, QuietGrow DEF FeeUnknown, Resumes, Settled
<1> QED BY <1>1, RejectedKeeps DEF FeeUnknown, Errors

\* A request that fails rejects the call.
LEMMA RpcFailsKeeps ==
  ASSUME SpendInv, TypeOK', NEW c \in Calls, RpcFails(c)
  PROVE  SpendInv'
<1>1. Continues(c, calls[c]) /\ HistoriesGrow
  BY ContinuesAsIs, QuietGrow DEF RpcFails, RpcAwaits, Settled
<1> QED BY <1>1, RejectedKeeps DEF RpcFails, Errors

\* The account signs only messages that are complete and that it pays for; only a call whose fee
\* has been checked, or need not be, goes on to send.
LEMMA SignatureKeeps ==
  ASSUME SpendInv, TypeOK', NEW c \in Calls, Signature(c)
  PROVE  SpendInv'
<1> USE DEF Signature, Resumes
<1>1. /\ Continues(c, calls[c]) /\ CallInv(c) /\ IsRequest(Req(c)) /\ calls[c] \in Call
      /\ Pc(c) = "signing" /\ OnRoute(Req(c), "signing")
  BY ContinuesAsIs, CallFacts DEF Settled, CallInv
<1>2. Req(c).op = "sign" \/ (Spends(Req(c).op) /\ Req(c).form # "signed")
  BY <1>1 DEF OnRoute
<1>3. /\ ~calls[c].late
      /\ Req(c).op # "sign" => /\ calls[c].message.payer = "own" /\ calls[c].message.lifetime # 0
                               /\ Req(c).payer # "other"
  BY <1>1, <1>2 DEF CallInv, PastCompletion
<1>4. /\ signed' = signed \cup {SentBy(c)}
      /\ UNCHANGED <<config, quotes, wire>>
  BY DEF SentBy
<1>5. \/ Req(c).op = "sign" /\ Resolve(c, calls[c])
      \/ Reject(c, calls[c], "signaturesMissing")
      \/ Req(c).form = "serialized" /\ AsksFee(Req(c)) /\ Spends(Req(c).op) /\ Suspend(c, calls[c], "fee")
      \/ /\ Req(c).op = "signTransaction" /\ Resolve(c, calls[c])
         /\ Req(c).form = "serialized" => ~AsksFee(Req(c))
      \/ /\ Sends(Req(c).op) /\ Suspend(c, calls[c], "broadcast")
         /\ Req(c).form = "serialized" => ~AsksFee(Req(c))
  BY <1>2 DEF Spends
<1> HIDE DEF Signature
<1>6. HistoriesGrow
  <2>1. Steps(c, calls[c])
    BY <1>5 DEF Steps, Awaits, SignerAwaits, RpcAwaits, Errors
  <2>2. ASSUME NEW s, s = SentBy(c) PROVE SignedInv(s)'
    BY <1>1, <1>3, <2>1, <2>2, StepKeeps DEF SignedInv, SentBy, Continues, Req
  <2> QED BY <1>4, <2>2 DEF HistoriesGrow
<1>7. ASSUME NEW at \in {"fee", "broadcast", "resolved"},
             at = "fee" => Req(c).form = "serialized" /\ Spends(Req(c).op),
             at = "broadcast" => Sends(Req(c).op) /\ (Req(c).form = "serialized" => ~AsksFee(Req(c))),
             at = "resolved" =>
               Req(c).op = "sign" \/ (Req(c).op = "signTransaction" /\ (Req(c).form = "serialized" => ~AsksFee(Req(c)))),
             NEW v \in Call, calls' = [calls EXCEPT ![c] = v], Moved(v, calls[c]), v.pc = at
      PROVE  CallInv(c)'
  <2>1. calls'[c] = v /\ Pc(c)' = v.pc /\ Req(c)' = v.req
    BY <1>7, StepResult
  <2>2. /\ Pc(c)' = at /\ Req(c)' = Req(c) /\ v.message = calls[c].message
        /\ v.fee = calls[c].fee /\ v.late = calls[c].late
    BY <1>7, <2>1 DEF Moved, Req
  <2>3. PastFeeCheck(c)' => PastFeeCheck(c)
    BY <1>1, <1>4, <1>7, <2>2 DEF PastFeeCheck, AsksFee, Spends, Sends
  <2>4. FeeChecked(c) => FeeChecked(c)'
    BY <1>4, <2>1, <2>2 DEF FeeChecked, Cap
  <2>5. PastCompletion(c)' => PastCompletion(c)
    BY <1>1, <2>2 DEF PastCompletion
  <2>6. SentBy(c)' \in signed'
    BY <1>4, <2>1, <2>2 DEF SentBy
  <2> QED BY <1>1, <1>3, <1>7, <2>1, <2>2, <2>3, <2>4, <2>5, <2>6
          DEF CallInv, Settled, OnRoute, Spends, Sends, Continues
<1>8. ASSUME Suspend(c, calls[c], "fee"), Req(c).form = "serialized", Spends(Req(c).op) PROVE SpendInv'
  BY <1>1, <1>6, <1>7, <1>8, SuspendedCall DEF Awaits, SignerAwaits, RpcAwaits
<1>9. ASSUME Suspend(c, calls[c], "broadcast"), Sends(Req(c).op),
             Req(c).form = "serialized" => ~AsksFee(Req(c))
      PROVE  SpendInv'
  BY <1>1, <1>6, <1>7, <1>9, SuspendedCall DEF Awaits, SignerAwaits, RpcAwaits
<1>10. ASSUME Resolve(c, calls[c]),
              \/ Req(c).op = "sign"
              \/ Req(c).op = "signTransaction" /\ (Req(c).form = "serialized" => ~AsksFee(Req(c)))
       PROVE  SpendInv'
  BY <1>1, <1>6, <1>7, <1>10, ResolvedCall
<1>11. ASSUME Reject(c, calls[c], "signaturesMissing") PROVE SpendInv'
  BY <1>1, <1>6, <1>11, RejectedKeeps DEF Errors
<1> QED BY <1>5, <1>8, <1>9, <1>10, <1>11

\* The node receives the transaction of a call whose checks are all behind it, and the call
\* settles: successfully, or with the error of the request.
LEMMA BroadcastKeeps ==
  ASSUME SpendInv, TypeOK', NEW c \in Calls, Broadcast(c)
  PROVE  SpendInv'
<1>1. /\ Continues(c, calls[c]) /\ CallInv(c) /\ IsRequest(Req(c)) /\ calls[c] \in Call
      /\ calls[c].message.lifetime <= latest /\ Pc(c) = "broadcast" /\ Sends(Req(c).op)
  BY ContinuesAsIs, CallFacts DEF Settled, CallInv, OnRoute, Broadcast, Resumes
<1>2. /\ wire' = wire \cup {SentBy(c)}
      /\ UNCHANGED <<config, quotes, signed>>
      /\ Resolve(c, calls[c]) \/ Reject(c, calls[c], "rpc")
  BY DEF Broadcast, SentBy
<1>3. latest \in Nat /\ "rpc" \in Errors
  BY TypeOKCalls DEF SpendInv, Errors
<1>4. PICK v \in Call : /\ calls' = [calls EXCEPT ![c] = v] /\ Moved(v, calls[c])
                        /\ v.pc = "resolved" \/ (v.pc = "rejected" /\ v.error = "rpc")
  BY <1>1, <1>2, <1>3, ResolveMoves, RejectMoves
<1>5. calls'[c] = v /\ Pc(c)' = v.pc /\ Req(c)' = v.req
  BY <1>4, StepResult
<1>6. /\ Req(c)' = Req(c) /\ v.message = calls[c].message /\ v.fee = calls[c].fee
      /\ v.late = calls[c].late
  BY <1>4, <1>5 DEF Moved, Req
<1>7. /\ FeeChecked(c) /\ ~calls[c].late
      /\ Req(c).form # "signed" => SentBy(c) \in signed
  BY <1>1 DEF CallInv, PastFeeCheck, PastSignature, AsksFee, Spends, Sends
<1>8. FeeChecked(c)' /\ SentBy(c)' = SentBy(c)
  BY <1>2, <1>5, <1>6, <1>7 DEF FeeChecked, SentBy, Cap
<1>9. HistoriesGrow
  <2>1. ASSUME NEW tx, tx = SentBy(c) PROVE WireInv(tx)'
    <3>1. tx.call = c
      BY <2>1 DEF SentBy
    <3> QED BY <1>1, <1>2, <1>4, <1>5, <1>6, <1>7, <1>8, <2>1, <3>1 DEF WireInv, Settled
  <2> QED BY <1>2, <2>1 DEF HistoriesGrow
<1>10. CallInv(c)'
  BY <1>1, <1>2, <1>4, <1>5, <1>6, <1>7, <1>8
     DEF CallInv, PastCompletion, PastSignature, Settled, Spends, Continues
<1> QED BY <1>1, <1>4, <1>5, <1>6, <1>9, <1>10, OneCallSteps DEF HistoriesGrow, Continues

-----------------------------------------------------------------------------
(* The invariant and what follows from it. *)

\* Initially no call has been made and the histories are empty.
LEMMA SpendInit == Init => SpendInv
BY TypeInit DEF Init, SpendInv, Pc, Idle

\* Every step keeps the invariant.
LEMMA SpendStep == SpendInv /\ TypeOK' /\ [Next]_vars => SpendInv'
<1> SUFFICES ASSUME SpendInv, TypeOK', [Next]_vars PROVE SpendInv'
  OBVIOUS
<1>1. ASSUME NEW c \in Calls, Invoke(c) PROVE SpendInv'
  BY <1>1, InvokeKeeps
<1>2. ASSUME NEW c \in Calls, Resume(c) PROVE SpendInv'
  BY <1>2, SignerCreatedKeeps, OwnerKnownKeeps, ReadOnlyAccountCreatedKeeps, AddressKnownKeeps,
     SignerKnownKeeps, AtaInfoAnsweredKeeps, BlockhashAnsweredKeeps, LifetimeEnsuredKeeps,
     PayerComparedKeeps, FeeAnsweredKeeps, FeeUnknownKeeps, SignatureKeeps, BroadcastKeeps,
     RpcFailsKeeps
  DEF Resume
<1>3. ASSUME UNCHANGED <<config, calls, historyVars>> PROVE SpendInv'
  <2> USE <1>3 DEF historyVars, Pc, Req
  <2>1. ASSUME NEW c \in Calls, Pc(c) # "idle" PROVE CallInv(c)'
    BY <2>1 DEF SpendInv, CallInv, PastFeeCheck, PastCompletion, PastSignature, FeeChecked, SentBy,
       AsksFee, Cap
  <2>2. ASSUME NEW s \in signed PROVE SignedInv(s)'
    BY <2>2 DEF SpendInv, SignedInv
  <2>3. ASSUME NEW tx \in wire PROVE WireInv(tx)'
    BY <2>3 DEF SpendInv, WireInv, FeeChecked, SentBy, Cap
  <2> QED BY <2>1, <2>2, <2>3 DEF SpendInv
<1> QED BY <1>1, <1>2, <1>3 DEF Next, Dispose, DisposeAgain, NewBlock, vars

\* Whatever the calls, their order and the answers of the node, and whenever the account is
\* disposed, a call reaches a signature or the wire only through the checks of its operation.
THEOREM SpendInvariant == Spec => []SpendInv
<1>1. SpendInv => TypeOK
  BY DEF SpendInv
<1>2. SpendInv /\ [Next]_vars => SpendInv'
  BY <1>1, TypeStep, SpendStep
<1> QED BY <1>2, SpendInit, PTL DEF Spec

\* No transaction leaves the account, sent or handed to the caller of signTransaction, unless the
\* node quoted a fee within the cap for this very message.
THEOREM FeeCapHolds == Spec => []ReleasedWithinCap
<1>1. SpendInv => ReleasedWithinCap
  <2> SUFFICES ASSUME SpendInv, NEW tx \in Released, Cap(Req(tx.call).op) # Undefined
               PROVE  \E q \in quotes : /\ q.call = tx.call /\ q.message = tx.message
                                        /\ q.fee <= Cap(Req(tx.call).op)
    BY DEF ReleasedWithinCap
  <2>1. tx.call \in Calls /\ Pc(tx.call) # "idle" /\ tx = SentBy(tx.call) /\ FeeChecked(tx.call)
    <3>1. CASE tx \in wire
      BY <3>1 DEF SpendInv, TypeOK, WireInv, Settled
    <3>2. CASE tx \notin wire
      <4>1. PICK c \in Calls : tx = SentBy(c) /\ Pc(c) = "resolved" /\ Req(c).op = "signTransaction"
        BY <3>2 DEF Released, SentBy
      <4>2. tx.call = c
        BY <4>1 DEF SentBy
      <4>3. AsksFee(Req(c)) /\ Spends(Req(c).op)
        BY <4>1, <4>2 DEF AsksFee, Cap, Spends
      <4> QED BY <4>1, <4>2, <4>3 DEF SpendInv, CallInv, PastFeeCheck
    <3> QED BY <3>1, <3>2
  <2>2. calls[tx.call].fee \in Nat
    <3>1. calls[tx.call] \in Call
      BY <2>1, CallFacts
    <3>2. calls[tx.call].fee \in {0} \cup Fees
      BY <3>1 DEF Call
    <3>3. \A fee \in Fees : fee \in Nat
      BY FeesAssumption
    <3> QED BY <3>2, <3>3
  <2>3. Cap(Req(tx.call).op) \in Nat
    BY CapsAssumption DEF SpendInv, TypeOK, Cap
  <2>4. calls[tx.call].fee <= Cap(Req(tx.call).op)
    BY <2>1, <2>2, <2>3 DEF FeeChecked, Exceeds
  <2> QED BY <2>1, <2>4 DEF FeeChecked, SentBy
<1> QED BY <1>1, SpendInvariant, PTL

\* The account signs only transactions it pays for itself.
THEOREM PayerHolds == Spec => []SignsOnlyAsOwnPayer
<1>1. SpendInv => SignsOnlyAsOwnPayer
  BY DEF SpendInv, SignedInv, SignsOnlyAsOwnPayer
<1> QED BY <1>1, SpendInvariant, PTL

\* What the node receives is what the account signed.
THEOREM WireHolds == Spec => []WireIsSigned
<1>1. SpendInv => WireIsSigned
  BY DEF SpendInv, WireInv, WireIsSigned
<1> QED BY <1>1, SpendInvariant, PTL

\* A call made after dispose() neither signs nor sends, whatever the earlier calls do.
THEOREM LateCallsHold == Spec => []LateCallsNeverSpend
<1>1. SpendInv => LateCallsNeverSpend
  BY DEF SpendInv, SignedInv, WireInv, LateCallsNeverSpend
<1> QED BY <1>1, SpendInvariant, PTL

\* A rejection that is not the node's means that nothing was sent.
THEOREM RejectionHolds == Spec => []RejectionMeansNotSent
<1>1. SpendInv => RejectionMeansNotSent
  BY DEF SpendInv, WireInv, RejectionMeansNotSent
<1> QED BY <1>1, SpendInvariant, PTL

\* A successful sendTransaction or transfer did send, at the fee it returns.
THEOREM ResultsHold == Spec => []ResultsAreTrue
<1>1. SpendInv => ResultsAreTrue
  <2> SUFFICES ASSUME SpendInv, NEW c \in Calls, Pc(c) = "resolved", Sends(Req(c).op)
               PROVE  /\ SentBy(c) \in wire
                      /\ [call |-> c, message |-> calls[c].message, fee |-> calls[c].fee] \in quotes
    BY DEF ResultsAreTrue, Sends, SentBy
  <2>1. CallInv(c)
    BY DEF SpendInv
  <2>2. PastFeeCheck(c)
    BY DEF PastFeeCheck, AsksFee, Spends, Sends
  <2> QED BY <2>1, <2>2 DEF CallInv, FeeChecked
<1> QED BY <1>1, SpendInvariant, PTL
=============================================================================
