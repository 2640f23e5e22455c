# Verification of wdk-wallet-solana in TLA+

This directory holds TLA+ models of `@tetherto/wdk-wallet-solana`, the TLC
configurations that check them on small instances, and theorems about them that
TLAPS checks for every instance. Paths below are relative to the repository;
the three files with behaviour are

- **A** `src/wallet-account-solana.js`
- **R** `src/wallet-account-read-only-solana.js`
- **M** `src/wallet-manager-solana.js`

`index.js`, `bare.js` and `types/` only re-export. The base classes
(`@tetherto/wdk-wallet`), the failover provider, `@solana/*` and libsodium are not in
the repository: they are *external* and modelled from how the code above uses
them.

## 1. Inventory

| component | state | operations |
|---|---|---|
| signing account (A) | `_rawPrivateKey`, `_signer`, `_seed`, `_solanaReadOnlyAccount`; fixed: `_config`, `_rpc`, `_commitment` | `getAddress`, `toReadOnlyAccount`, `sign`, `signTransaction`, `sendTransaction`, `quoteSendTransaction`, `transfer`, `quoteTransfer`, `dispose`; getters `index`, `path`, `keyPair` |
| message building, fee and payer checks (R) | none | `_buildNativeTransferTransactionMessage`, `_buildSPLTransferTransactionMessage`, `_ensureLifetime`, `_assertFeePayer`, `_getFeeForBase64Message`, inherited by A |
| queries (R) | none | `getBalance`, `getTokenBalance(s)`, `getTransactionReceipt`, `getTransaction`, `waitForTransaction`, `verify` |
| manager (M) | `_accounts`, `_rpc`, `_config` | `getAccount`, `getAccountByPath`, `getFeeRates`, `dispose` (inherited) |
| client selection (R `_buildRpc`) | none | a url, a client, or a list of either that fails over |

**Interactions.** The manager creates accounts, caches them by derivation path
and passes its client on through their configuration (`_accountConfig`). An
account creates its read-only copy the same way. Accounts and copies talk to
the node through `_rpc`. The owner of an account calls it, and may dispose it,
at any time; so may the manager's `dispose()`. The calls of one account share
`_signer`, `_rawPrivateKey` and `_solanaReadOnlyAccount`.

**What is hard.** JavaScript never interrupts code between two awaits, but every
operation that spends has up to eight of them, and `dispose()` is synchronous: it
falls between any two.

- `_getSigner` checks and assigns `_signer` on the two sides of an await, so a
  `dispose()` in between is followed by the assignment (A:499-505).
- The guard on `_rawPrivateKey` is read once, when a call is made, and never again
  (A:223, 246, 314, 447).
- A serialized transaction is signed *before* its fee is asked (A:254), any
  other after; `transfer` checks the fee of a message and then prepares it a
  second time (A:458-464).
- The fee payer of a message is overwritten with the account's signer
  (A:429), so a comparison has to come before it on every route.
- An answer to a broadcast can be lost (A:359).
- A disposed account stays in the manager's cache, and a second `dispose()` of it
  passes `undefined` to `sodium_memzero`, which may throw (A:487), in the middle of
  the disposal of all accounts.
- Queries combine the answers of two requests (R:402, R:200), which a failover
  may send to different nodes, poll against a timeout (R:457) and cut long lists
  into batches (R:265).
- What a transfer was built on goes stale before it executes: whether the
  recipient has a token account (R:509), and the blockhash (R:545).

**What makes each component correct.** *Account*: nothing leaves it that was
not quoted within its cap, it signs only what it pays for itself, it sends what
it signed, calls after `dispose()` do not spend, an erased key does not come
back, a result tells the truth about the node, every call settles. *Transfers*:
they fail on the chain only for a reason the caller could not be told of, and
never execute later than their blockhash allows. *Manager*: no account with a
key escapes its disposal, one client serves all accounts, and fee rates cover the
fees they are derived from. *Queries*: a receipt describes one transaction, and
what it says of a settled one stays true; a balance belongs to the token it is
listed under; every query settles.

## 2. Modules

| module | what it is |
|---|---|
| `SolanaAccount` | one signing account and the calls in flight on it (A, and the part of R it inherits) |
| `MCSolanaAccount` | the sets of requests for TLC |
| `SolanaAccountProofs` | theorems about the account's states: lemmas on the steps of a call, type correctness, finality of the erasure, the inductive invariant and the safety properties |
| `SpendGate` | abstract specification: what the calls that spend promise, seen from outside |
| `SolanaAccountGate`, `MCSolanaAccountGate` | the refinement mapping from `SolanaAccount` to `SpendGate` |
| `SolanaAccountSteps` | theorems about the account's steps: no call gets hold of a signer after an erasure, the refinement, no call is set back |
| `PaymentLedger` | `SolanaAccount` composed with the chain that executes its transfers |
| `MCPaymentLedger` | transfers of one and the same payment |
| `PaymentLedgerProofs` | the ledger's invariant and theorems |
| `Receipts` | `getTransactionReceipt`, `getTransaction`, `waitForTransaction` (R) |
| `ReceiptsProofs` | the receipts' invariant and theorems |
| `TokenQueries`, `MCTokenQueries` | `getBalance`, `getTokenBalance`, `getTokenBalances` (R) |
| `TokenQueriesProofs` | the queries' invariant and theorems |
| `WalletManager` | the manager, its accounts and their clients (M, `_buildRpc`, `toReadOnlyAccount`) |
| `MCWalletManager` | symmetry of the paths for TLC |
| `WalletManagerProofs` | the manager's invariant and theorems |
| `FeeRates` | `getFeeRates` (M) |
| `FeeRatesProofs` | the fee rates' invariant and theorems |
| `Scans` | lemmas about loops over a list, and the inductions they rest on |

### SolanaAccount

A call is a record: the await it is suspended at (`pc`), its request, the
message built so far, the last fee, how it ended. An action resumes one call and
runs it to its next await; everything between two awaits, all guards and early
returns included, is one step. `Dispose` may fall between any two steps.

| await (`pc`) | the code waits for | resumed by |
|---|---|---|
| `owner` | `getAddress` in `quoteSendTransaction` (R) | `OwnerKnown` |
| `address` | `getAddress` in builders, `toReadOnlyAccount`, the payer check of a serialized transaction | `AddressKnown`, `ReadOnlyAccountCreated` |
| `ataInfo`, `blockhash` | the two requests of the builders | `AtaInfoAnswered`, `BlockhashAnswered` |
| `signer` | `_getSigner` in `sign`, `_prepareTransactionMessage`, `_signSerializedTransaction` | `SignerKnown` |
| `lifetime`, `payer` | `_ensureLifetime`, `_assertFeePayer` | `LifetimeEnsured`, `PayerCompared` |
| `fee` | `_getFeeForBase64Message` | `FeeAnswered`, `FeeUnknown` |
| `signing` | the signature | `Signature` |
| `broadcast` | `_broadcastSignedTransaction` | `Broadcast` |

At the awaits of `SignerAwaits` the call waits for `_getSigner`: `acquiring` says
whether it found a cached signer or waits for the creation of one, which
`SignerCreated` finishes by assigning `_signer`, whatever happened since. The
creation reads the bytes of the key before it first awaits, so a `dispose()`
during it does not make it fail. `RpcFails` is a request that failed without an
effect; `Broadcast` may take effect and still reject, its answer lost.
`DisposeAgain` is a second `dispose()` in case `sodium_memzero(undefined)` does
not throw; if it throws nothing changes.

*Abstractions.* A request has an operation and a `form` (SPL transfer, native
transfer, message object, serialized or fully signed transaction), the payer it
names (`own`, `other`, `none`), the lifetime it carries (a blockhash number, 0 for
none; a nonce counts as a blockhash, as in the code) and what validation will
find in it. Instructions, amounts and encodings are left out: no property tells
them apart. An argument that is neither a native transfer nor a message with
instructions, which the type `SolanaTransaction` excludes, is left out. Fees the node may quote are positive; a
quote of zero and a missing quote are one case in the code (`!fee.value`) and in
the model (`FeeUnknown`). `quotes`, `signed` and `wire` are history variables:
what the node quoted, what the key signed, what the node received.

### SpendGate and its refinement

`SpendGate` knows no awaits: an admitted call is, in one step, either released,
with a message that was quoted within its limit, or declined; once the gate is
closed nothing is admitted; a caller who is told "sent" or "not sent" is told the
truth, and "unsure" is the third answer. `SolanaAccountGate` maps an account to
it: a call has released its message when it is in `wire` or `signTransaction`
has resolved with it, and a call that failed with a node's error is unsure.
Quotes may be heard at any step, since a call that is declined for its fee has
heard one.

### PaymentLedger

Adds to `SolanaAccount` the recipient's token account (`recipient`, with the block of
its last change and, as a history, those of its closings), what each
call was told of it and when (`lookup`), and the transactions executed (`ledger`).
`AccountStep` is any step of the account; the step that leaves the `ataInfo`
await records an answer. The code asks at the configured commitment (R:510-513), and a
failover may ask a node that is behind, so the answer may be old: what changed in the last
`Lag` blocks may be known to the node or not (`Answers`), whatever is older it knows.
Without a bound on the lag a node could report any state the account ever had, and no transfer
could be said to fail for a reason. `Execute` is the chain: it executes a transaction it has
received, at most once per identity (the signature, which the bytes signed
determine), while its blockhash is at most `MaxAge` old. The creation
instruction is the idempotent one (R:515), so `Outcome` is a failure only without it
and without the account. The recipient, or anybody, opens and closes the
account at any time, also several times in one block. The recipients of all calls are one: two different
accounts do not interact. The module asks that all requests are transfers
(`TransfersOnly`).

### Receipts

The chain processes, drops, reprocesses, confirms and finalizes one transaction;
each node's view (`views`) is the chain at some earlier moment, and any node may
answer any request. A query is a record, as in `SolanaAccount`. `StatusAnswered`
and `TransactionAnswered` are the two requests of `getTransaction`;
`getTransactionReceipt` makes only the second. `getTransaction` of a node knows no
commitment below `confirmed`, so with `processed` that request can only fail. `waitForTransaction` delegates
to the base class, which is external: `Poll`, `Expire` and `TimesOut` are modelled
from the comment R:444-456 (an unknown transaction counts as pending, a dropped one
ends in a timeout). Whether it survives a failed request is left open.
A confirmed transaction is taken to stay: that is what the commitment promises.

### TokenQueries

`history` is the list of the owner's balances at each moment so far, one for each
change, and a request is answered with those of any of the last moments (`Recent`): a
node may be behind by `MaxLag` changes, and consecutive requests may go to different
nodes. A query remembers the moment it was made, so that a property can speak of the moments
it may have been told of (`MomentsFrom`). The second request of `getTokenBalance` fails for
a token account that is missing by then (`Throw` with the error `missing`). `BatchAnswered` pairs the
accounts of a batch with the names of a batch by position, as the loop R:276-297
does; `Slice`, `NamesOfBatch`, `AskedAll` and `NextOffset` are the expressions of
that loop. A malformed address rejects the query before its first request.

### FeeRates

One call of `getFeeRates`: the node reports any list of fees, `NonZeroFees` is the
`filter` and `LargestFee` the `reduce` of the code, each as a function of the number
of fees it has gone through, `Rate` divides as `BigInt` does. The two properties
state what the result is by a reference definition over sets.

### WalletManager

Account objects are numbered in order of creation. `GetAccountByPath` is one
step: its body has no await. `AccountClient` and `CopyClient` compute the client
an account and a read-only copy end up with by running `BuildRpc` on the
configuration they are given. The base class's `dispose()` is external:
`DisposeReturns` erases every cached account and may or may not empty the
cache; `DisposeThrows` erases those before the first account whose second disposal
throws. `DisposeAccount` is the owner disposing an account behind the manager's
back. A list of urls counts as one client; the failover inside it is external.

## 3. What the runs check

| run | bounds | properties |
|---|---|---|
| `account_spending` | 1 call, every request the code distinguishes, fees 1 and 2, caps 1 or none, 2 blockhashes, `dispose()` anywhere (16,192 states) | `TypeOK`, `SpendInv`, `ReleasedWithinCap`, `SignsOnlyAsOwnPayer`, `WireIsSigned`, `EveryStepAdvances` |
| `account_disposal` | 2 calls, one well-formed request of each kind that spends (145,603) | `LateCallsNeverSpend`, `RejectionMeansNotSent`, `ResultsAreTrue`; the refinement `ImplementsGate` |
| `account_three_calls` | 3 calls that need the signer, from `getAddress` to `transfer`, one blockhash, under fairness (134,408) | `ErasureIsFinal`, `NoCallIsArmedAfterErasure`, `EveryCallSettles` |
| `account_erasure_violated` | 1 call | `DisposeErasesSigner`: violated, see 5 |
| `manager_accounts` | 3 paths, 4 objects, every configuration of `provider` and `rpcUrl` (42,672) | `TypeOK`, `NoOrphans`, `ReturnedMeansErased`, `ClientIsShared` |
| `manager_clients_violated` | 2 paths, 2 objects | `NoSecondClient`: violated, see 5 |
| `ledger_transfers` | 2 transfers of the same payment, 3 blockhashes, age 1, lag 1, no cap (1,495,310) | `LedgerTypeOK`, `FailsOnlyIfClosed`, `ExecutesInTime` |
| `ledger_cost_violated` | the same, rent 2, cap 1 | `CostWithinCap`: violated, see 5 |
| `receipts` | 1 query, 2 nodes, 2 slots, every commitment, under fairness (160,678) | `TypeOK`, `ReceiptsAreDurable`, `ReceiptIsConsistent`, `WaitEndsAtTarget`, `EveryQuerySettles` |
| `receipts_null_violated` | 1 query, 1 node, commitment `finalized` | `NullOnlyWhilePending`: violated, see 5 |
| `token_queries` | 1 query, 3 tokens, batches of 2, 2 changes of balances, lag 1, lists with duplicates across a batch's border, under fairness (621,282) | `TypeOK`, `BalancesWereTrue`, `EveryTokenIsAnswered`, `MissingOnlyIfChanged`, `EveryBalanceSettles` |
| `fee_rates` | every report of at most 4 fees around the edges of the division (1,560) | `RatesCoverEveryFee`, `RatesFollowTheLargestFee` |

**Why the bounds are enough.** What a call is allowed to send depends on its own
checks and on `dispose()`, so one call meets every case of the first run; two
fees and the caps 1 and none give a fee at, above and without a cap, and
two blockhashes tell an old message from a refreshed one. Calls disturb each
other through the signer and the read-only copy only: one creates the signer,
one finds it, one comes late, which needs three. All requests with two calls do not
fit the time of a run; the theorems cover that combination. Four objects on
three paths let the manager recreate an account after its cache was emptied
while two others live. In the ledger, two equal transfers are enough for one to
open the account the other was told is absent, and for both to be the same
transaction; with three blockhashes and age 1 a message can outlive its
blockhash, and with lag 1 a closing in the first block is unknown to some node in the second and known to
all in the third. Caps play no part in what becomes of a transfer once it is sent: that
run sets none. Queries share nothing, so one query meets every case; two nodes can
disagree; two slots tell a reprocessed transaction from the first; a list of
three tokens with batches of two has a full and a partial batch, and with the
duplicates the names and the unique names fall into different batches. Two
changes let an account be opened and closed again during a query, and lag 1 leaves out the oldest of the
three moments. Calls and
queries end and are not made again, and the changes of balances are bounded
(`MaxChanges`), so these runs set `CHECK_DEADLOCK FALSE`: an account on which all
calls have settled has really stopped. `receipts` and `manager_accounts` never stop.

**Fairness.** `FairSpec` assumes weak fairness of `Resume(c)` for each call: the
runtime runs a continuation that is ready, and a request to the node is
answered or fails. The latter is an assumption about the client and the node: the code
itself sets no timeout on a request, and a call that waits for a node that never answers never settles. In `Receipts` a timer fires, too
(`WF(Expire)`); in `TokenQueries` only requests are answered or fail. Nothing is
assumed of `Dispose`, of new calls, of the chain or of the nodes' progress: a
wait ends although the transaction never arrives.

## 4. What is proved

All theorems hold for any set of calls and requests, any
positive fees, any caps, any bound on blockhashes, paths and objects, any
maximal age, rent and lag, any queries, nodes and slots, lists of tokens of any length, any
size of a batch, and any report of fees. They rest on the assumptions about the
constants that the modules name (`CapsAssumption`, `FeesAssumption`, `BlockAssumption`,
`RequestsAssumption`, `ObjectsAssumption`, `LedgerAssumption`, `SlotsAssumption`,
`CommitmentsAssumption`, `BatchAssumption`, `AmountsAssumption`, `LagAssumption`, `ListsAssumption`);
those about the ledger hold where all requests are SPL transfers or quotes of them (`TransfersOnly`). TLC evaluates all of them in the runs.

| theorem | property |
|---|---|
| `TypeCorrect` | `TypeOK` |
| `ErasureFinal` | `ErasureIsFinal` |
| `SpendInvariant` | `SpendInv` |
| `FeeCapHolds`, `PayerHolds`, `WireHolds` | `ReleasedWithinCap`, `SignsOnlyAsOwnPayer`, `WireIsSigned` |
| `LateCallsHold`, `RejectionHolds`, `ResultsHold` | `LateCallsNeverSpend`, `RejectionMeansNotSent`, `ResultsAreTrue` |
| `NobodyArmedLater` | `NoCallIsArmedAfterErasure` |
| `GateImplemented` | `ImplementsGate` |
| `CallsAdvance` | `EveryStepAdvances` |
| `LedgerInvariant`, `LedgerTypes` | `LedgerInv`, `LedgerTypeOK` |
| `FailsOnlyIfClosedHolds`, `ExecutesInTimeHolds` | `FailsOnlyIfClosed`, `ExecutesInTime` |
| `ReceiptInvariant`, `ReceiptTypes` | the receipts' invariant, `TypeOK` |
| `DurableHolds`, `ConsistentHolds`, `WaitHolds` | `ReceiptsAreDurable`, `ReceiptIsConsistent`, `WaitEndsAtTarget` |
| `QueriesInvariant`, `QueriesTypeCorrect` | the queries' invariant `QueriesInv`, `TypeOK` |
| `BalancesWereTrueHolds`, `MissingOnlyIfChangedHolds`, `EveryTokenIsAnsweredHolds` | `BalancesWereTrue`, `MissingOnlyIfChanged`, `EveryTokenIsAnswered` |
| `RatesCoverEveryFeeHolds`, `RatesFollowTheLargestFeeHolds` | `RatesCoverEveryFee`, `RatesFollowTheLargestFee` |
| `ManagerInvariant`, `ManagerTypeCorrect` | `ManagerInv`, `TypeOK` |
| `NoAccountOrphaned`, `DisposalErasesAll`, `ClientShared` | `NoOrphans`, `ReturnedMeansErased`, `ClientIsShared` |

*The account.* None of the safety properties is inductive: that a broadcast is
within the cap depends on what happened several awaits earlier. `SpendInv`
attaches to each await what the call waiting there has been through: it is on
the route of its request (`OnRoute`); past the point where the message is complete, the
payer is the account and the lifetime is set (`PastCompletion`); past the
fee check, this very message was quoted within the cap (`PastFeeCheck`); past the
signature, it was signed (`PastSignature`); a late spending call is rejected.
`SignedInv` and `WireInv` relate the histories to the calls they came from.
`SolanaAccountProofs` describes what suspending, resolving and rejecting do to a
continuation (`SuspendMoves` and its kin), has one lemma per action, and then the
properties as consequences. `ErasureFinal` rests on
`TypeOK`: a call without a signer can start a creation only with the key.

*The manager.* `ManagerInv` adds to the checked properties that an object has
the path it was made for. `NoOrphans` is what `ReturnedMeansErased` rests on: the
accounts the disposal reaches are all the accounts that have a key. `EraseInv` states once
that taking keys away from any set of objects keeps the rest.

*Arming.* In an erased account a step that would wait for the signer rejects the call
instead (`SuspendArmed`), so a call can only be armed by going on to an await that
needs none; `SpendInv` says which requests get there. One thing it leaves open is
needed beside it: a native transfer that has been built names its payer
(`BuiltInv`). `ResumeSafe` goes through the continuations.

*The refinement.* Each action of `SolanaAccount` is a step of the gate or changes
nothing the gate sees. `SpendInv` supplies what a release needs: the quote that is
the precondition of `Release` was obtained awaits earlier, for this message.

*The ledger.* The composition only takes steps of the account, by its construction (lemma
`LedgerKeepsAccount`), so `SpendInv` is available. `LedgerInv` says that
a call that was told "open" was told the truth, or the account was closed no more than `Lag`
blocks before it was told, or later; that an account that is absent and was not always so is
absent since its last closing, which is what makes an outdated answer a recent one (`ToldOpen`);
that only a call that was told may have sent; and that each entry executed in the life of its
blockhash.
`ExecutesInTime` combines it with `SpendInv`: what was executed is what was quoted.

*The receipts.* What nodes and queries hold is a former state of the chain, and
what is settled in a former state is settled in the present one in the same slot
with the same outcome: that is the invariant, and the three properties are
consequences.

*Progress.* `Stage` orders the awaits on the route of each request; a fee is asked at a
different point of the route of a transfer, of a message and of a signed transaction.
`SpendInv` says which requests are at an await, so that each await that can follow is a
later one (`ResumeAdvances`), and no other step moves a call (`NothingSetsBack`). So a
call needs at most 25 continuations; that they do happen is the fairness that
`EveryCallSettles` assumes.

*Loops over lists.* The code's `filter`, `reduce` and `new Set` are recursive functions on
`0..n`. Every library theorem about recursion or induction takes an operator as its
parameter; `Scans` states them with sets and functions instead. Induction on an
interval (`IntervalInduction`) is derived from the existence of a minimal counterexample
in a well-founded order, and `ScanExists` shows that a loop, given by its first value and
the function that makes each next one, has a result that satisfies the loop's
equations. From these follow what the loops compute: the largest element (`LargestFeeIsLargest`),
exactly the elements that are not zero (`NonZeroFeesKeeps`), the same elements without
duplicates (`UniqueKeeps`).

*The balance queries.* `QueriesInv` says what a query in its loop holds: a balance
for each of the tokens before its offset and for nothing else, and each of them the
account's own at a moment that a node may have answered with since the query was made.
Where a query waits for the balance of a token account it has been told that the account is there,
which is what `MissingOnlyIfChanged` needs when the second answer is that it is not. A batch keeps that (`BatchesAddUp`) because the names it
pairs its accounts with are the accounts of the same positions, and because the list without
duplicates has the elements of the list the caller gave. Moments stay in the
history, so a later change makes no balance untrue.

*The fee rates.* `RatesInv` says that a result was computed from the report it belongs
to. The rest is `BaseFeeIsLargest` and `RateTruncates`, which bounds what the integer
division drops. TLC checked `RatesInv`, `QueriesInv` and `LedgerInv` on the bounds of
`fee_rates`, `token_queries` and `ledger_transfers` before they were proved.

*Only model-checked*: `EveryCallSettles`, `EveryQuerySettles` and `EveryBalanceSettles`.
Liveness under fairness needs `ENABLED`, which is beyond TLAPS here; `EveryStepAdvances` is
the part of the first that can be proved. The four properties of section 5 are
violated, and there is nothing to prove.

## 5. Findings

- **`DisposeErasesSigner`** — A:484 says that `dispose()` erases the private key
  from the memory. A call that is creating the signer when `dispose()` runs
  stores the new signer in the disposed account afterwards. The guards keep later
  calls from spending with it (`LateCallsNeverSpend`, proved), and where no
  creation is under way the erasure is final (`ErasureIsFinal`, proved).
- **`NoSecondClient`** — M:62-63 says that two accounts never open two clients
  for the same endpoint. With an empty `provider` (`''` or `[]`) next to an
  `rpcUrl`, the manager has no client, and every account falls back to `rpcUrl`
  and builds its own. Whenever the manager does have a client it is shared
  (`ClientIsShared`, proved).

- **`CostWithinCap`** — A:443 says that `transfer` throws "If the transfer's cost
  exceeds the maximum transfer fee option". What is compared is the fee of the
  message. When the recipient has no token account the wallet pays its rent as well
  (R:514-521), which is not part of that fee, nor of the `fee` returned.
- **`NullOnlyWhilePending`** — R:64 says that `transaction` is null "while the
  transaction is pending". The status is asked for at whatever level it has, the
  transaction at the configured commitment: with `finalized` a confirmed
  transaction comes with finality `confirmed` and null. What the receipt
  does carry is right (`ReceiptIsConsistent`, proved).

Two equal transfers built on one blockhash are, to the chain, one transaction, and
both calls resolve with its hash. `PaymentLedger` contains this case; no document
of the repository speaks of it, so it is no finding.

## 6. Not modelled

- The account's constructor (seed validation, SLIP-0010 derivation) and the
  getters: pure, or without a change of state. `keyPair` returns views of the key
  buffer, which `keyBuffer` stands for.
- `verify`: a computation of a cryptographic library, without state and without a node.
- The failover between providers: external. A list is one client to `WalletManager`;
  in `Receipts`, `TokenQueries` and, for the recipient's token account, `PaymentLedger` a node
  that is behind may answer any request, which covers its effect on queries; a broadcast it
  repeats adds nothing to the set `wire`. Blockhashes are the latest: an older one only
  expires sooner.
- A request that is never answered: the code sets no timeout, the properties say nothing of such a call.
- A fee of zero is rejected like a missing one (R:636, `FeeUnknown`); no property says whether it should be.
- That a transfer that resolved is executed: its blockhash may expire first, and the code promises
  no more than that the node accepted it.
- Instructions, amounts and balances of the sender: a transfer that fails for want
  of funds says nothing about this code.
- The composition of `WalletManager` with calls in flight: accounts share nothing
  but the client, and the manager disposes each of them as its owner would. The
  theorems about `SolanaAccount` allow `Dispose` at any moment, so they hold of each
  account of a manager that disposes all; `WalletManager` shows which accounts that are.
- `index.js`, `bare.js`, type declarations: re-exports.

## 7. Plan

Done: everything that changes state in A, R and M, with the abstract
specification of spending, the ledger, the queries and the fee rates; proofs of every
safety and action property that a run checks. What is left:

1. A ledger with balances of the sender and several recipients, for the
   composition of `transfer` and `getTokenBalance` of one owner.
2. The retry of a `transfer` that ended with a node's error, as the caller sees it:
   when `waitForTransaction` has timed out and the blockhash has expired, a second
   transfer pays once. It composes `PaymentLedger` with `Receipts`.
3. Progress of the queries: what `EveryStepAdvances` is to a call, for the polling of
   `waitForTransaction` and for the loop over the batches (the number of its requests).
