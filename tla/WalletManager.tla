--------------------------- MODULE WalletManager ---------------------------
(***************************************************************************)
(* The wallet manager (WalletManagerSolana), the accounts it creates and   *)
(* the clients through which they reach the node.                          *)
(*                                                                         *)
(* Account objects are numbered in the order of their creation; the clock  *)
(* of the model is the number of objects created.  getAccountByPath runs   *)
(* without an await, so it is one step.  dispose() of the manager is       *)
(* inherited from an external package: what src/ and its tests rely on is  *)
(* that it disposes the accounts in _accounts one after the other.         *)
(***************************************************************************)
EXTENDS Naturals

CONSTANTS
  Paths,       \* the derivation paths the client asks for
  MaxObjects,  \* bound on the number of account objects
  Undefined    \* JavaScript's undefined

ASSUME ObjectsAssumption == MaxObjects \in Nat

Objects == 1..MaxObjects
None == 0   \* no object is cached under a path

(***************************************************************************)
(* What a configuration may hold under `provider' and `rpcUrl': nothing,   *)
(* the empty string or the empty list, a url or a list of urls (from which *)
(* a client is built), a client that is there already.                     *)
(***************************************************************************)
Targets == {"undefined", "empty", "url", "client"}
UrlTargets == Targets \ {"client"}

\* A client is the one the configuration brought, or one that was built for an object (the
\* manager itself, an account, or the read-only copy of an account).
Given == <<"given">>
Built(role, o) == <<role, o>>
Clients == {Given} \cup {Built(role, o) : role \in {"manager", "account", "copy"}, o \in Objects \cup {None}}
MaybeClient == Clients \cup {Undefined}

VARIABLES
  config,     \* the manager's configuration: provider and rpcUrl
  rpc,        \* the manager's _rpc
  accounts,   \* the manager's _accounts: the object cached under each path, or None
  created,    \* number of account objects created so far
  path,       \* derivation path of each object
  key,        \* _rawPrivateKey of each object: "key" or "undefined"
  client,     \* _rpc of each object
  copy,       \* whether the object has made its read-only copy, and the copy's _rpc
  ended       \* how the manager's dispose() ended, if it was the last step

objectVars == <<created, path, key, client, copy>>
vars == <<config, rpc, accounts, objectVars, ended>>

Live(o) == o <= created /\ key[o] = "key"
Cached == {accounts[p] : p \in Paths} \ {None}

-----------------------------------------------------------------------------
\* _buildRpc: provider takes precedence over rpcUrl unless it is null or undefined.  `given' is
\* the client the configuration holds, `built' the one made from a url.
BuildRpc(provider, rpcUrl, given, built) ==
  LET target == IF provider # "undefined" THEN provider ELSE rpcUrl IN
  CASE target = "client" -> given
    [] target = "url" -> built
    [] OTHER -> Undefined

\* Mutant: the account keeps the manager's provider instead of its client.
AccountClient_OwnProvider(o) ==
  BuildRpc(config.provider, config.rpcUrl, Given, Built("account", o))

\* The client of an account made by the manager: _accountConfig puts the manager's client in the
\* place of the provider and leaves rpcUrl as it is.
AccountClient(o) ==
  BuildRpc(IF rpc = Undefined THEN "undefined" ELSE "client", config.rpcUrl, rpc, Built("account", o))

\* The client of the read-only copy of an account, configured the same way from the account.
CopyClient(o) ==
  BuildRpc(IF client[o] = Undefined THEN "undefined" ELSE "client",
           config.rpcUrl, client[o], Built("copy", o))

Init ==
  /\ config \in [provider : Targets, rpcUrl : UrlTargets]
  /\ rpc = BuildRpc(config.provider, config.rpcUrl, Given, Built("manager", None))
  /\ accounts = [p \in Paths |-> None]
  /\ created = 0
  /\ path = [o \in Objects |-> Undefined]
  /\ key = [o \in Objects |-> "undefined"]
  /\ client = [o \in Objects |-> Undefined]
  /\ copy = [o \in Objects |-> [made |-> FALSE, client |-> Undefined]]
  /\ ended = "no"

-----------------------------------------------------------------------------
\* A new object for path p, with a key of its own and a client, becomes number created + 1.
Create(p) ==
  /\ created < MaxObjects
  /\ created' = created + 1
  /\ path' = [path EXCEPT ![created + 1] = p]
  /\ key' = [key EXCEPT ![created + 1] = "key"]
  /\ client' = [client EXCEPT ![created + 1] = AccountClient(created + 1)]
  /\ UNCHANGED copy

\* Mutant: every call creates a new account.
GetAccountByPath_Uncached(p) ==
  /\ Create(p)
  /\ accounts' = [accounts EXCEPT ![p] = created + 1]
  /\ ended' = "no"
  /\ UNCHANGED <<config, rpc>>

\* Mutant: the account that was created is not stored.
GetAccountByPath_NotStored(p) ==
  /\ accounts[p] = None
  /\ Create(p)
  /\ ended' = "no"
  /\ UNCHANGED <<config, rpc, accounts>>

\* An account that is cached is returned as it is, disposed or not, which changes nothing.
GetAccountByPath(p) ==
  /\ accounts[p] = None
  /\ Create(p)
  /\ accounts' = [accounts EXCEPT ![p] = created + 1]
  /\ ended' = "no"
  /\ UNCHANGED <<config, rpc>>

\* Mutant: the copy is made but not kept.
ToReadOnlyAccount_NotKept(o) ==
  /\ o <= created /\ ~copy[o].made
  /\ copy' = [copy EXCEPT ![o].client = CopyClient(o)]
  /\ ended' = "no"
  /\ UNCHANGED <<config, rpc, accounts, created, path, key, client>>

\* The holder of an account makes the read-only copy of it, which the account keeps.
ToReadOnlyAccount(o) ==
  /\ o <= created /\ ~copy[o].made
  /\ copy' = [copy EXCEPT ![o] = [made |-> TRUE, client |-> CopyClient(o)]]
  /\ ended' = "no"
  /\ UNCHANGED <<config, rpc, accounts, created, path, key, client>>

\* The holder of an account disposes it; the manager does not learn of it.
DisposeAccount(o) ==
  /\ Live(o)
  /\ key' = [key EXCEPT ![o] = "undefined"]
  /\ ended' = "no"
  /\ UNCHANGED <<config, rpc, accounts, created, path, client, copy>>

Erase(erased) == key' = [o \in Objects |-> IF o \in erased THEN "undefined" ELSE key[o]]

\* dispose() of the manager disposes the cached accounts in the order they were cached and
\* returns; whether it also empties the cache is up to the external class.
DisposeReturns ==
  /\ Erase(Cached)
  /\ accounts' \in {accounts, [p \in Paths |-> None]}
  /\ ended' = "returned"
  /\ UNCHANGED <<config, rpc, created, path, client, copy>>

\* It meets an account that has no key any more, whose dispose() throws: the accounts before the
\* first such one are disposed, the accounts after it are not.
DisposeThrows ==
  /\ \E o \in Cached :
       /\ ~Live(o)
       /\ \A d \in Cached : d < o => Live(d)
       /\ Erase({d \in Cached : d < o})
  /\ ended' = "threw"
  /\ UNCHANGED <<config, rpc, accounts, created, path, client, copy>>

Next ==
  \/ \E p \in Paths : GetAccountByPath(p)
  \/ \E o \in Objects : ToReadOnlyAccount(o) \/ DisposeAccount(o)
  \/ DisposeReturns
  \/ DisposeThrows

Spec == Init /\ [][Next]_vars

-----------------------------------------------------------------------------
(* Correctness. *)

\* Every variable has its type; an object that does not exist yet has neither key nor client nor
\* copy, and there is no client of a copy without the copy.
TypeOK ==
  /\ config \in [provider : Targets, rpcUrl : UrlTargets]
  /\ rpc \in MaybeClient
  /\ accounts \in [Paths -> Objects \cup {None}]
  /\ created \in 0..MaxObjects
  /\ path \in [Objects -> Paths \cup {Undefined}]
  /\ key \in [Objects -> {"key", "undefined"}]
  /\ client \in [Objects -> MaybeClient]
  /\ copy \in [Objects -> [made : BOOLEAN, client : MaybeClient]]
  /\ ended \in {"no", "returned", "threw"}
  /\ \A o \in Objects : o > created =>
       key[o] = "undefined" /\ client[o] = Undefined /\ ~copy[o].made
  /\ \A o \in Objects : ~copy[o].made => copy[o].client = Undefined

\* The manager keeps hold of every account it created as long as that account has its key: no
\* account with a key escapes a later dispose() of the manager, not even when an earlier one
\* threw half-way.
NoOrphans ==
  \A o \in Objects : Live(o) => accounts[path[o]] = o

\* When the manager's dispose() has returned, no account it ever created has a key left.
ReturnedMeansErased ==
  ended = "returned" => \A o \in Objects : ~Live(o)

\* Whenever the manager has a client, all its accounts and their read-only copies use that very
\* client: none of them opens one of its own.
ClientIsShared ==
  rpc # Undefined =>
    \A o \in Objects :
      /\ o <= created => client[o] = rpc
      /\ copy[o].made => copy[o].client = rpc

\* What the manager's comment says of its client: "Shared with every account this manager
\* creates, so two accounts never open two clients for the same endpoint".
NoSecondClient ==
  \A o, d \in 1..created :
    client[o] # Undefined /\ client[d] # Undefined => client[o] = client[d]

=============================================================================
