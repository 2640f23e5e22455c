--------------------------- MODULE SolanaAccount ---------------------------
(***************************************************************************)
(* One signing account (WalletAccountSolana) and the asynchronous calls    *)
(* its owner has in flight on it.                                          *)
(*                                                                         *)
(* JavaScript runs a call without interruption from one `await' to the     *)
(* next.  A call is therefore a record that says at which await it is      *)
(* suspended, and an action resumes one call and runs it up to its next    *)
(* await.  Everything that lies between two awaits is one step; dispose(), *)
(* which is synchronous, may fall between any two steps.                   *)
(*                                                                         *)
(* The node behind `_rpc' is external: it answers any request with a       *)
(* value of the right kind or with an error, and its latest blockhash      *)
(* moves on by itself.  Blockhashes are numbered in order of production.   *)
(***************************************************************************)
EXTENDS Naturals

CONSTANTS
  Calls,       \* identities of the calls made on the account
  Requests,    \* the requests those calls may carry
  Fees,        \* the fees, in lamports, the node may quote
  Caps,        \* the values the two fee caps of the configuration may have
  MaxBlock,    \* bound on the number of blockhashes the node produces
  Undefined    \* JavaScript's undefined

ASSUME CapsAssumption == \A cap \in Caps : cap = Undefined \/ cap \in Nat
ASSUME FeesAssumption == Fees \subseteq Nat \ {0}
ASSUME BlockAssumption == MaxBlock \in Nat \ {0}

Operations == {"getAddress", "toReadOnlyAccount", "sign", "signTransaction",
               "sendTransaction", "quoteSendTransaction", "transfer", "quoteTransfer"}

\* A lifetime is a blockhash number; 0 stands for a message that carries none.
Lifetimes == 0..MaxBlock

(***************************************************************************)
(* What a caller hands over: `form' is the variant of the transaction      *)
(* argument, `payer' the fee payer it names and `lifetime' the blockhash   *)
(* (or nonce, which the code treats alike) it carries.  `input' says what  *)
(* the validation of the argument will find: "invalid" fails the amount    *)
(* and memo checks, "malformed" cannot be decoded, "oversized" exceeds the *)
(* transaction size, "partial" misses the signature of another account.    *)
(***************************************************************************)
Forms(op) ==
  CASE op \in {"getAddress", "toReadOnlyAccount", "sign"} -> {"none"}
    [] op \in {"transfer", "quoteTransfer"} -> {"spl"}
    [] op = "signTransaction" -> {"native", "message", "serialized"}
    [] OTHER -> {"native", "message", "serialized", "signed"}

Inputs(form) ==
  {"ok"} \cup (IF form = "spl" THEN {"invalid", "oversized"} ELSE {})
         \cup (IF form \in {"spl", "native", "serialized"} THEN {"malformed"} ELSE {})
         \cup (IF form \in {"message", "serialized"} THEN {"partial"} ELSE {})

IsRequest(r) ==
  /\ r \in [op : Operations,
            form : {"none", "spl", "native", "message", "serialized", "signed"},
            payer : {"none", "own", "other"},
            lifetime : Lifetimes,
            input : {"ok", "invalid", "malformed", "oversized", "partial"}]
  /\ r.form \in Forms(r.op)
  /\ r.input \in Inputs(r.form)
  \* Only compiled messages must name a payer and a lifetime, only message objects may.
  /\ r.form \in {"none", "spl", "native"} => r.payer = "none" /\ r.lifetime = 0
  /\ r.form \in {"serialized", "signed"} => r.payer # "none" /\ r.lifetime # 0

ASSUME RequestsAssumption == \A r \in Requests : IsRequest(r)

VARIABLES
  config,           \* whether _rpc is set, transferMaxFee and transactionMaxFee
  rawPrivateKey,    \* _rawPrivateKey: "key" or "undefined"
  keyBuffer,        \* content of the buffer _rawPrivateKey refers to, shared with keyPair views
  seed,             \* _seed: "seed" or "undefined"
  signer,           \* _signer: "live" or "undefined"
  readOnlyAccount,  \* _solanaReadOnlyAccount: the call that created it, or Undefined
  calls,            \* the calls' continuations
  latest,           \* number of the node's latest blockhash
  quotes,           \* history: every fee answer, with the message it was given for
  signed,           \* history: every use of the private key
  wire              \* history: every transaction that reached the node

accountVars == <<rawPrivateKey, keyBuffer, seed, signer, readOnlyAccount>>
historyVars == <<quotes, signed, wire>>
vars == <<config, accountVars, calls, latest, historyVars>>

\* The awaits inside which the call waits for _getSigner, directly or through getAddress.
SignerAwaits == {"owner", "address", "signer", "payer"}
\* The awaits inside which the call waits for the node.
RpcAwaits == {"ataInfo", "blockhash", "lifetime", "fee", "broadcast"}
Awaits == SignerAwaits \cup RpcAwaits \cup {"signing"}
Settled == {"resolved", "rejected"}

Errors == {"none", "disposed", "providerRequired", "invalid", "malformed", "tooLarge", "noKey",
           "payerMismatch", "signaturesMissing", "feeUnknown", "feeExceeded", "rpc"}

Message == [payer : {"none", "own", "other"}, lifetime : Lifetimes]

(***************************************************************************)
(* A call's continuation.  `acquiring' is the progress of the _getSigner   *)
(* it waits for, `message' the transaction message built so far, `fee' the *)
(* last fee received (0: none) and `late' whether the call was made when   *)
(* the account had been disposed.                                          *)
(***************************************************************************)
Idle == [pc |-> "idle"]
Call == [pc : Awaits \cup Settled,
         req : Requests,
         acquiring : {"no", "cached", "creating"},
         message : Message,
         fee : {0} \cup Fees,
         error : Errors,
         late : BOOLEAN]

Pc(c) == calls[c].pc
Req(c) == calls[c].req

Init ==
  /\ config \in [rpc : BOOLEAN, transferMaxFee : Caps, transactionMaxFee : Caps]
  /\ rawPrivateKey = "key"
  /\ keyBuffer = "secret"
  /\ seed = "seed"
  /\ signer = "undefined"
  /\ readOnlyAccount = Undefined
  /\ calls = [c \in Calls |-> Idle]
  /\ latest = 1
  /\ quotes = {}
  /\ signed = {}
  /\ wire = {}

-----------------------------------------------------------------------------
(* Suspending and settling a call. *)

\* Mutant: without a private key _getSigner starts a creation all the same.
GetSigner_CreatesWithoutKey(k) ==
  IF signer = "live" THEN [k EXCEPT !.acquiring = "cached"]
  ELSE [k EXCEPT !.acquiring = "creating"]

\* Mutant: _getSigner hands out a signer kept outside the account when there is no key.
GetSigner_FromSharedCache(k) ==
  IF signer = "undefined" /\ rawPrivateKey = "key"
  THEN [k EXCEPT !.acquiring = "creating"]
  ELSE [k EXCEPT !.acquiring = "cached"]

\* The synchronous half of _getSigner: a cached signer is used, otherwise one is created from
\* the private key, and without a private key the creation rejects.
GetSigner(k) ==
  IF signer = "live" THEN [k EXCEPT !.acquiring = "cached"]
  ELSE IF rawPrivateKey = "key" THEN [k EXCEPT !.acquiring = "creating"]
  ELSE [k EXCEPT !.pc = "rejected", !.error = "noKey"]

\* Mutant: a call does not await the signer it asks for.
Suspend_SignerNotAwaited(c, k, at) ==
  calls' = [calls EXCEPT ![c] = [k EXCEPT !.pc = at, !.acquiring = "no"]]

\* Call c, with continuation k, runs into the await named `at'.
Suspend(c, k, at) ==
  LET waiting == [k EXCEPT !.pc = at, !.acquiring = "no"] IN
  calls' = [calls EXCEPT ![c] = IF at \in SignerAwaits THEN GetSigner(waiting) ELSE waiting]

Resolve(c, k) ==
  calls' = [calls EXCEPT ![c] = [k EXCEPT !.pc = "resolved", !.acquiring = "no"]]

Reject(c, k, error) ==
  calls' = [calls EXCEPT ![c] = [k EXCEPT !.pc = "rejected", !.acquiring = "no", !.error = error]]

\* Call c is suspended at the await named `at' and what it waits for has arrived.
Resumes(c, at) == Pc(c) = at /\ calls[c].acquiring # "creating"

\* The continuation of a call that is just being made.
Fresh(r) ==
  [pc |-> "resolved", req |-> r, acquiring |-> "no",
   message |-> [payer |-> r.payer, lifetime |-> r.lifetime],
   fee |-> 0, error |-> "none", late |-> rawPrivateKey # "key"]

Quotes(op) == op \in {"quoteSendTransaction", "quoteTransfer"}

\* The cap that limits an operation; quotes and message signatures have none.
Cap(op) ==
  CASE op = "transfer" -> config.transferMaxFee
    [] op \in {"signTransaction", "sendTransaction"} -> config.transactionMaxFee
    [] OTHER -> Undefined

Exceeds(fee, cap) == cap # Undefined /\ fee > cap

\* A serialized transaction is signed before its fee is asked, any other after.
\* Without a cap signTransaction does not ask for the fee.
AsksFee(r) == r.op # "signTransaction" \/ config.transactionMaxFee # Undefined

-----------------------------------------------------------------------------
(* The calls a client makes, each up to its first await. *)

Made(c, r, op) == Pc(c) = "idle" /\ r.op = op

GetAddress(c, r) ==
  /\ Made(c, r, "getAddress")
  /\ Suspend(c, Fresh(r), "address")

ToReadOnlyAccount(c, r) ==
  /\ Made(c, r, "toReadOnlyAccount")
  /\ IF readOnlyAccount # Undefined
     THEN Resolve(c, Fresh(r))
     ELSE Suspend(c, Fresh(r), "address")

Sign(c, r) ==
  /\ Made(c, r, "sign")
  /\ IF rawPrivateKey # "key"
     THEN Reject(c, Fresh(r), "disposed")
     ELSE Suspend(c, Fresh(r), "signer")

SignTransaction(c, r) ==
  /\ Made(c, r, "signTransaction")
  /\ IF rawPrivateKey # "key" THEN Reject(c, Fresh(r), "disposed")
     ELSE IF ~config.rpc THEN Reject(c, Fresh(r), "providerRequired")
     ELSE IF r.form = "serialized" /\ r.input = "malformed" THEN Reject(c, Fresh(r), "malformed")
     ELSE Suspend(c, Fresh(r), IF r.form = "message" THEN "signer" ELSE "address")

SendTransaction(c, r) ==
  /\ Made(c, r, "sendTransaction")
  /\ IF rawPrivateKey # "key" THEN Reject(c, Fresh(r), "disposed")
     ELSE IF ~config.rpc THEN Reject(c, Fresh(r), "providerRequired")
     ELSE IF r.form = "serialized" /\ r.input = "malformed" THEN Reject(c, Fresh(r), "malformed")
     ELSE Suspend(c, Fresh(r), CASE r.form = "message" -> "signer"
                                 [] r.form = "signed" -> "fee"
                                 [] OTHER -> "address")

\* A string is decoded before the provider is looked at.
QuoteSendTransaction(c, r) ==
  /\ Made(c, r, "quoteSendTransaction")
  /\ IF r.form = "serialized" /\ r.input = "malformed" THEN Reject(c, Fresh(r), "malformed")
     ELSE IF ~config.rpc THEN Reject(c, Fresh(r), "providerRequired")
     ELSE Suspend(c, Fresh(r), IF r.form \in {"serialized", "signed"} THEN "fee" ELSE "owner")

\* Mutant: transfer without the check that the account has not been disposed.
Transfer_Unguarded(c, r) ==
  /\ Made(c, r, "transfer")
  /\ config.rpc /\ r.input # "invalid"
  /\ Suspend(c, Fresh(r), "address")

Transfer(c, r) ==
  /\ Made(c, r, "transfer")
  /\ IF rawPrivateKey # "key" THEN Reject(c, Fresh(r), "disposed")
     ELSE IF ~config.rpc THEN Reject(c, Fresh(r), "providerRequired")
     ELSE IF r.input = "invalid" THEN Reject(c, Fresh(r), "invalid")
     ELSE Suspend(c, Fresh(r), "address")

QuoteTransfer(c, r) ==
  /\ Made(c, r, "quoteTransfer")
  /\ IF ~config.rpc THEN Reject(c, Fresh(r), "providerRequired")
     ELSE IF r.input = "invalid" THEN Reject(c, Fresh(r), "invalid")
     ELSE Suspend(c, Fresh(r), "address")

Invoke(c) ==
  /\ \E r \in Requests :
       /\ r.lifetime <= latest   \* the caller got it from the node
       /\ \/ GetAddress(c, r)
          \/ ToReadOnlyAccount(c, r)
          \/ Sign(c, r)
          \/ SignTransaction(c, r)
          \/ SendTransaction(c, r)
          \/ QuoteSendTransaction(c, r)
          \/ Transfer(c, r)
          \/ QuoteTransfer(c, r)
  /\ UNCHANGED <<config, accountVars, latest, historyVars>>

-----------------------------------------------------------------------------
(* Resuming a call that waits for _getSigner. *)

\* Mutant: the continuation of the creation gives up silently on a disposed account.
SignerCreated_DroppedAfterDispose(c) ==
  /\ Pc(c) \in SignerAwaits
  /\ calls[c].acquiring = "creating"
  /\ rawPrivateKey = "key"
  /\ signer' = "live"
  /\ calls' = [calls EXCEPT ![c].acquiring = "cached"]
  /\ UNCHANGED <<config, rawPrivateKey, keyBuffer, seed, readOnlyAccount, latest, historyVars>>

\* The key pair signer has been created: it is cached in the account, whatever happened to the
\* account since the creation began.
SignerCreated(c) ==
  /\ Pc(c) \in SignerAwaits
  /\ calls[c].acquiring = "creating"
  /\ signer' = "live"
  /\ calls' = [calls EXCEPT ![c].acquiring = "cached"]
  /\ UNCHANGED <<config, rawPrivateKey, keyBuffer, seed, readOnlyAccount, latest, historyVars>>

\* quoteSendTransaction of the base class has the account's address.
OwnerKnown(c) ==
  /\ Resumes(c, "owner")
  /\ Suspend(c, calls[c], IF Req(c).form = "native" THEN "address" ELSE "lifetime")
  /\ UNCHANGED <<config, accountVars, latest, historyVars>>

\* toReadOnlyAccount has the address: it creates the copy and caches it.
ReadOnlyAccountCreated(c) ==
  /\ Resumes(c, "address")
  /\ Req(c).op = "toReadOnlyAccount"
  /\ readOnlyAccount' = c
  /\ Resolve(c, calls[c])
  /\ UNCHANGED <<config, rawPrivateKey, keyBuffer, seed, signer, latest, historyVars>>

\* Mutant: the fee payer of a serialized transaction is not compared with the account.
AddressKnown_PayerIgnored(c) ==
  /\ Resumes(c, "address")
  /\ Req(c).op # "toReadOnlyAccount"
  /\ IF Req(c).op = "getAddress" THEN Resolve(c, calls[c])
     ELSE IF Req(c).input = "malformed" THEN Reject(c, calls[c], "malformed")
     ELSE Suspend(c, calls[c], CASE Req(c).form = "spl" -> "ataInfo"
                                 [] Req(c).form = "native" -> "blockhash"
                                 [] OTHER -> "signer")
  /\ UNCHANGED <<config, accountVars, latest, historyVars>>

\* Any other call has the address it asked for.
AddressKnown(c) ==
  /\ Resumes(c, "address")
  /\ Req(c).op # "toReadOnlyAccount"
  /\ IF Req(c).op = "getAddress" THEN Resolve(c, calls[c])
     ELSE IF Req(c).input = "malformed" THEN Reject(c, calls[c], "malformed")
     ELSE IF Req(c).form = "serialized" /\ calls[c].message.payer # "own"
     THEN Reject(c, calls[c], "payerMismatch")
     ELSE Suspend(c, calls[c], CASE Req(c).form = "spl" -> "ataInfo"
                                 [] Req(c).form = "native" -> "blockhash"
                                 [] OTHER -> "signer")
  /\ UNCHANGED <<config, accountVars, latest, historyVars>>

SignerKnown(c) ==
  /\ Resumes(c, "signer")
  /\ Suspend(c, calls[c], IF Req(c).op = "sign" \/ Req(c).form = "serialized"
                          THEN "signing"
                          ELSE "lifetime")
  /\ UNCHANGED <<config, accountVars, latest, historyVars>>

-----------------------------------------------------------------------------
(* Building the message. *)

AtaInfoAnswered(c) ==
  /\ Resumes(c, "ataInfo")
  /\ Suspend(c, calls[c], "blockhash")
  /\ UNCHANGED <<config, accountVars, latest, historyVars>>

\* The two builders set the fee payer and the lifetime of the message they return.
BlockhashAnswered(c) ==
  /\ Resumes(c, "blockhash")
  /\ LET k == [calls[c] EXCEPT !.message = [payer |-> "own", lifetime |-> latest]] IN
     IF Req(c).input = "oversized" THEN Reject(c, k, "tooLarge")
     ELSE Suspend(c, k, CASE Req(c).form = "spl" -> "fee"
                          [] Req(c).form = "native" /\ Quotes(Req(c).op) -> "lifetime"
                          [] OTHER -> "signer")
  /\ UNCHANGED <<config, accountVars, latest, historyVars>>

\* Mutant: the fee of a transfer is asked again when its message is signed.
Prepared_AsksAgain(r) == IF AsksFee(r) THEN "fee" ELSE "signing"

\* Where a call goes once its message is complete.  The fee of a transfer has been checked.
Prepared(r) == IF r.op # "transfer" /\ AsksFee(r) THEN "fee" ELSE "signing"

\* Mutant: the message is always given the latest blockhash.
LifetimeEnsured_AlwaysRefreshed(c) ==
  /\ Resumes(c, "lifetime")
  /\ LET k == [calls[c] EXCEPT !.message.lifetime = latest] IN
     IF k.message.payer # "none"
     THEN Suspend(c, k, "payer")
     ELSE Suspend(c, [k EXCEPT !.message.payer = "own"], Prepared(Req(c)))
  /\ UNCHANGED <<config, accountVars, latest, historyVars>>

\* The lifetime is ensured; a message that names no fee payer is given the account.
LifetimeEnsured(c) ==
  /\ Resumes(c, "lifetime")
  /\ LET message == calls[c].message
         k == [calls[c] EXCEPT !.message.lifetime = IF @ = 0 THEN latest ELSE @] IN
     IF message.payer # "none"
     THEN Suspend(c, k, "payer")
     ELSE Suspend(c, [k EXCEPT !.message.payer = "own"], Prepared(Req(c)))
  /\ UNCHANGED <<config, accountVars, latest, historyVars>>

\* Mutant: the message's fee payer is replaced without having been compared.
PayerCompared_Overwritten(c) ==
  /\ Resumes(c, "payer")
  /\ Suspend(c, [calls[c] EXCEPT !.message.payer = "own"], Prepared(Req(c)))
  /\ UNCHANGED <<config, accountVars, latest, historyVars>>

\* The fee payer the message names is compared with the account's address.
PayerCompared(c) ==
  /\ Resumes(c, "payer")
  /\ IF calls[c].message.payer # "own"
     THEN Reject(c, calls[c], "payerMismatch")
     ELSE Suspend(c, calls[c], Prepared(Req(c)))
  /\ UNCHANGED <<config, accountVars, latest, historyVars>>

-----------------------------------------------------------------------------
(* Fee, signature, broadcast. *)

FeeAnswered(c) ==
  /\ Resumes(c, "fee")
  /\ \E fee \in Fees :
       LET k == [calls[c] EXCEPT !.fee = fee] IN
       /\ quotes' = quotes \cup {[call |-> c, message |-> k.message, fee |-> fee]}
       /\ IF Exceeds(fee, Cap(Req(c).op)) THEN Reject(c, k, "feeExceeded")
          ELSE IF Quotes(Req(c).op) THEN Resolve(c, k)
          ELSE IF Req(c).op = "signTransaction" /\ Req(c).form = "serialized" THEN Resolve(c, k)
          ELSE Suspend(c, k, CASE Req(c).form = "spl" -> "signer"
                               [] Req(c).form \in {"serialized", "signed"} -> "broadcast"
                               [] OTHER -> "signing")
  /\ UNCHANGED <<config, accountVars, latest, signed, wire>>

\* The node has no fee for the message, or the fee is zero, which the code does not tell apart.
FeeUnknown(c) ==
  /\ Resumes(c, "fee")
  /\ Reject(c, calls[c], "feeUnknown")
  /\ UNCHANGED <<config, accountVars, latest, historyVars>>

\* The signature is made with the signer the call obtained earlier.
Signature(c) ==
  /\ Resumes(c, "signing")
  /\ signed' = signed \cup {[call |-> c, message |-> calls[c].message]}
  /\ IF Req(c).op = "sign" THEN Resolve(c, calls[c])
     ELSE IF Req(c).input = "partial" THEN Reject(c, calls[c], "signaturesMissing")
     ELSE IF Req(c).form = "serialized" /\ AsksFee(Req(c)) THEN Suspend(c, calls[c], "fee")
     ELSE IF Req(c).op = "signTransaction" THEN Resolve(c, calls[c])
     ELSE Suspend(c, calls[c], "broadcast")
  /\ UNCHANGED <<config, accountVars, latest, quotes, wire>>

\* Mutant: the transaction is given a newer blockhash on its way out.
Broadcast_Restamped(c) ==
  /\ Resumes(c, "broadcast")
  /\ wire' = wire \cup {[call |-> c, message |-> [calls[c].message EXCEPT !.lifetime = latest]]}
  /\ \/ Resolve(c, calls[c])
     \/ Reject(c, calls[c], "rpc")
  /\ UNCHANGED <<config, accountVars, latest, quotes, signed>>

\* Mutant: the check for a disposed account is repeated after the node has answered.
Broadcast_CheckedAfterwards(c) ==
  /\ Resumes(c, "broadcast")
  /\ wire' = wire \cup {[call |-> c, message |-> calls[c].message]}
  /\ \/ rawPrivateKey = "key" /\ Resolve(c, calls[c])
     \/ rawPrivateKey # "key" /\ Reject(c, calls[c], "disposed")
     \/ Reject(c, calls[c], "rpc")
  /\ UNCHANGED <<config, accountVars, latest, quotes, signed>>

\* The node takes the transaction; its answer may be lost on the way back.
Broadcast(c) ==
  /\ Resumes(c, "broadcast")
  /\ wire' = wire \cup {[call |-> c, message |-> calls[c].message]}
  /\ \/ Resolve(c, calls[c])
     \/ Reject(c, calls[c], "rpc")
  /\ UNCHANGED <<config, accountVars, latest, quotes, signed>>

\* Mutant: a failed broadcast is reported as a success.
RpcFails_Swallowed(c) ==
  /\ Pc(c) \in RpcAwaits
  /\ Pc(c) = "lifetime" => calls[c].message.lifetime = 0
  /\ IF Pc(c) = "broadcast" THEN Resolve(c, calls[c]) ELSE Reject(c, calls[c], "rpc")
  /\ UNCHANGED <<config, accountVars, latest, historyVars>>

\* A request to the node fails without having had an effect there.  A message that has a
\* lifetime sends no request at the lifetime await.
RpcFails(c) ==
  /\ Pc(c) \in RpcAwaits
  /\ Pc(c) = "lifetime" => calls[c].message.lifetime = 0
  /\ Reject(c, calls[c], "rpc")
  /\ UNCHANGED <<config, accountVars, latest, historyVars>>

-----------------------------------------------------------------------------
Dispose ==
  /\ rawPrivateKey = "key"
  /\ keyBuffer' = "zeroed"
  /\ rawPrivateKey' = "undefined"
  /\ signer' = "undefined"
  /\ seed' = "undefined"
  /\ UNCHANGED <<config, readOnlyAccount, calls, latest, historyVars>>

\* dispose() of an account that has no key any more.  Whether sodium_memzero(undefined) throws is
\* up to the library: if it does, nothing changes, which needs no action; if not, this.
DisposeAgain ==
  /\ rawPrivateKey # "key"
  /\ signer' = "undefined"
  /\ seed' = "undefined"
  /\ UNCHANGED <<config, rawPrivateKey, keyBuffer, readOnlyAccount, calls, latest, historyVars>>

NewBlock ==
  /\ latest < MaxBlock
  /\ latest' = latest + 1
  /\ UNCHANGED <<config, accountVars, calls, historyVars>>

Resume(c) ==
  \/ SignerCreated(c)
  \/ OwnerKnown(c)
  \/ ReadOnlyAccountCreated(c)
  \/ AddressKnown(c)
  \/ SignerKnown(c)
  \/ AtaInfoAnswered(c)
  \/ BlockhashAnswered(c)
  \/ LifetimeEnsured(c)
  \/ PayerCompared(c)
  \/ FeeAnswered(c)
  \/ FeeUnknown(c)
  \/ Signature(c)
  \/ Broadcast(c)
  \/ RpcFails(c)

Next ==
  \/ \E c \in Calls : Invoke(c) \/ Resume(c)
  \/ Dispose
  \/ DisposeAgain
  \/ NewBlock

Spec == Init /\ [][Next]_vars

\* Every promise a call awaits settles: the runtime runs the continuations that are ready and
\* a request to the node is answered or fails.
FairSpec == Spec /\ \A c \in Calls : WF_vars(Resume(c))

-----------------------------------------------------------------------------
(* Correctness. *)

\* Every variable has its type; a call waits for _getSigner exactly at the awaits that need the
\* signer, and carries only blockhashes the node has produced.
TypeOK ==
  /\ config \in [rpc : BOOLEAN, transferMaxFee : Caps, transactionMaxFee : Caps]
  /\ rawPrivateKey \in {"key", "undefined"}
  /\ keyBuffer \in {"secret", "zeroed"}
  /\ seed \in {"seed", "undefined"}
  /\ signer \in {"live", "undefined"}
  /\ readOnlyAccount \in Calls \cup {Undefined}
  /\ calls \in [Calls -> {Idle} \cup Call]
  /\ \A c \in Calls :
       Pc(c) # "idle" => /\ Pc(c) \in SignerAwaits <=> calls[c].acquiring \in {"cached", "creating"}
                        /\ calls[c].message.lifetime <= latest
  /\ latest \in 1..MaxBlock
  /\ quotes \subseteq [call : Calls, message : Message, fee : Fees]
  /\ signed \subseteq [call : Calls, message : Message]
  /\ wire \subseteq [call : Calls, message : Message]

\* The transactions that have left the account: those that reached the node, and those that
\* signTransaction has handed to its caller.
Released ==
  wire \cup {[call |-> c, message |-> calls[c].message] :
               c \in {d \in Calls : Pc(d) = "resolved" /\ Req(d).op = "signTransaction"}}

\* A transaction leaves the account only when the node quoted, for this very message, a fee
\* within the cap that governs the operation: no later step of the call changes the message
\* whose fee was checked.
ReleasedWithinCap ==
  \A tx \in Released :
    LET cap == Cap(Req(tx.call).op) IN
    cap # Undefined =>
      \E q \in quotes : q.call = tx.call /\ q.message = tx.message /\ q.fee <= cap

\* The private key signs no transaction another account would pay for, not even when the caller
\* named that account, and none that could stay valid for lack of a lifetime.
SignsOnlyAsOwnPayer ==
  \A s \in signed :
    Req(s.call).op # "sign" =>
      s.message.payer = "own" /\ s.message.lifetime # 0 /\ Req(s.call).payer # "other"

\* Unless the caller brought the signatures, what the node receives from a call is exactly what
\* that call signed.
WireIsSigned ==
  \A tx \in wire : Req(tx.call).form # "signed" => tx \in signed

\* A call made after dispose() never signs and never sends, even while an earlier call brings a
\* signer back into the account.
LateCallsNeverSpend ==
  \A tx \in signed \cup wire : ~calls[tx.call].late

\* A call that is rejected for any reason but a failed request to the node has sent nothing: its
\* caller may repeat it without paying twice.
RejectionMeansNotSent ==
  \A tx \in wire : Pc(tx.call) = "rejected" => calls[tx.call].error = "rpc"

\* When sendTransaction or transfer resolves, the transaction did reach the node and the fee it
\* returns is the one the node quoted for exactly that transaction.
ResultsAreTrue ==
  \A c \in Calls :
    Pc(c) = "resolved" /\ Req(c).op \in {"sendTransaction", "transfer"} =>
      /\ [call |-> c, message |-> calls[c].message] \in wire
      /\ [call |-> c, message |-> calls[c].message, fee |-> calls[c].fee] \in quotes

\* Nothing of the key is left, and no creation of a signer is under way.
Erased ==
  /\ rawPrivateKey = "undefined"
  /\ keyBuffer = "zeroed"
  /\ seed = "undefined"
  /\ signer = "undefined"
  /\ \A c \in Calls : Pc(c) \in SignerAwaits => calls[c].acquiring # "creating"

\* Once the key is gone and no creation of a signer is under way, no later call or continuation
\* brings the key back.
ErasureIsFinal == [][Erased => Erased']_vars

\* The call holds the signer it will sign with, and will not ask the account for it again.
Armed(c) ==
  LET unnamed == Req(c).form = "message" /\ calls[c].message.payer = "none" IN
  \/ Pc(c) = "signing"
  \/ /\ Pc(c) \in {"signer", "payer"}
     /\ calls[c].acquiring = "cached"
     /\ \/ Pc(c) = "signer" /\ (Req(c).op = "sign" \/ Req(c).form = "serialized" \/ unnamed)
        \/ Pc(c) = "payer" /\ ~Quotes(Req(c).op)
  \/ Pc(c) = "lifetime" /\ unnamed /\ ~Quotes(Req(c).op)
  \/ /\ Pc(c) = "fee"
     /\ Req(c).op \in {"signTransaction", "sendTransaction"}
     /\ Req(c).form \in {"native", "message"}

\* After the erasure only the calls that hold a signer already can still sign: no other call
\* gets into their position.
NoCallIsArmedAfterErasure ==
  [][Erased => \A c \in Calls : Armed(c)' => Armed(c)]_vars

\* What dispose() is documented to do: "Disposes the wallet account, erasing the private key
\* from the memory".  A signer holds the private key.
DisposeErasesSigner == rawPrivateKey = "undefined" => signer = "undefined"

\* Every call settles, whether or not the account is disposed under it.
EveryCallSettles ==
  \A c \in Calls : Pc(c) \in Awaits ~> Pc(c) \in Settled

\* The order in which a request passes through its awaits.  A transfer has its fee checked before
\* it asks for the signer, a signed transaction after its signature.
Stage(r, at) ==
  CASE at = "owner" -> 1
    [] at = "address" -> 2
    [] at = "ataInfo" -> 3
    [] at = "blockhash" -> 4
    [] at = "fee" /\ r.form = "spl" -> 5
    [] at = "signer" -> 6
    [] at = "lifetime" -> 7
    [] at = "payer" -> 8
    [] at = "fee" /\ r.form \in {"native", "message"} -> 9
    [] at = "signing" -> 10
    [] at = "fee" /\ r.form \in {"serialized", "signed"} -> 11
    [] at = "broadcast" -> 12
    [] OTHER -> 13

\* Where call c stands: the creation of a signer comes before the await that needs the signer.
Progress(c) ==
  IF Pc(c) = "idle" THEN 0
  ELSE 2 * Stage(Req(c), Pc(c)) - (IF calls[c].acquiring = "creating" THEN 1 ELSE 0)

\* A call only moves forward: no call is set back, by its own continuations or by anything that
\* happens to the account meanwhile, and each of its continuations brings it nearer its end.  It
\* never waits twice for the same thing, and settles after at most 25 of them.
EveryStepAdvances ==
  [][\A c \in Calls : Progress(c) <= Progress(c)' /\ (Resume(c) => Progress(c) < Progress(c)')]_vars

-----------------------------------------------------------------------------
(***************************************************************************)
(* The inductive invariant behind the safety properties.  It says, for     *)
(* each await, what the call that waits there has already been through.    *)
(***************************************************************************)

Sends(op) == op \in {"sendTransaction", "transfer"}
Spends(op) == Sends(op) \/ op = "signTransaction"

\* The request r passes through the await named `at'.
OnRoute(r, at) ==
  \/ at = "owner" /\ Quotes(r.op) /\ r.form \in {"native", "message"}
  \/ /\ at = "address"
     /\ \/ r.op \in {"getAddress", "toReadOnlyAccount"}
        \/ r.form \in {"spl", "native"}
        \/ r.form = "serialized" /\ Spends(r.op)
  \/ at = "ataInfo" /\ r.form = "spl"
  \/ at = "blockhash" /\ r.form \in {"spl", "native"}
  \/ at \in {"signer", "signing"} /\ (r.op = "sign" \/ (Spends(r.op) /\ r.form # "signed"))
  \/ at \in {"lifetime", "payer"} /\ (r.op = "transfer" \/ r.form \in {"native", "message"})
  \/ at = "fee" /\ (Quotes(r.op) \/ Spends(r.op))
  \/ at = "broadcast" /\ Sends(r.op)

SentBy(c) == [call |-> c, message |-> calls[c].message]

\* The node quoted the fee the call holds for the message the call holds, within its cap.
FeeChecked(c) ==
  /\ [call |-> c, message |-> calls[c].message, fee |-> calls[c].fee] \in quotes
  /\ ~Exceeds(calls[c].fee, Cap(Req(c).op))

PastFeeCheck(c) ==
  /\ Spends(Req(c).op) /\ AsksFee(Req(c))
  /\ \/ Pc(c) \in {"broadcast", "resolved"}
     \/ Pc(c) = "signing" /\ Req(c).form # "serialized"
     \/ Pc(c) \in {"signer", "lifetime", "payer"} /\ Req(c).op = "transfer"

\* The message names its payer and its lifetime, and neither will change any more.
PastCompletion(c) ==
  /\ Spends(Req(c).op) /\ Req(c).form # "signed"
  /\ \/ Pc(c) \in {"fee", "signing"}
     \/ Pc(c) \in {"signer", "lifetime", "payer"} /\ Req(c).form \in {"spl", "serialized"}

PastSignature(c) ==
  /\ Spends(Req(c).op) /\ Req(c).form # "signed"
  /\ \/ Pc(c) = "broadcast"
     \/ Pc(c) = "fee" /\ Req(c).form = "serialized"

CallInv(c) ==
  /\ Pc(c) \in Settled \/ OnRoute(Req(c), Pc(c))
  /\ Req(c).payer = "other" => calls[c].message.payer = "other"
  /\ Req(c).form = "serialized" \/ Pc(c) = "payer" => calls[c].message.lifetime # 0
  /\ PastCompletion(c) => calls[c].message.payer = "own" /\ calls[c].message.lifetime # 0
  /\ PastFeeCheck(c) => FeeChecked(c)
  /\ PastSignature(c) => SentBy(c) \in signed
  /\ Pc(c) = "resolved" /\ Sends(Req(c).op) => SentBy(c) \in wire
  /\ calls[c].late /\ (Spends(Req(c).op) \/ Req(c).op = "sign") => Pc(c) = "rejected"

SignedInv(s) ==
  /\ Pc(s.call) # "idle"
  /\ ~calls[s.call].late
  /\ Req(s.call).op # "sign" =>
       s.message.payer = "own" /\ s.message.lifetime # 0 /\ Req(s.call).payer # "other"

WireInv(tx) ==
  /\ Pc(tx.call) \in Settled
  /\ Pc(tx.call) = "rejected" => calls[tx.call].error = "rpc"
  /\ Sends(Req(tx.call).op) /\ ~calls[tx.call].late
  /\ tx = SentBy(tx.call) /\ FeeChecked(tx.call)
  /\ Req(tx.call).form # "signed" => tx \in signed

\* A call reaches a signature or the wire only through all the checks its operation asks for.
SpendInv ==
  /\ TypeOK
  /\ \A c \in Calls : Pc(c) # "idle" => CallInv(c)
  /\ \A s \in signed : SignedInv(s)
  /\ \A tx \in wire : WireInv(tx)

=============================================================================
