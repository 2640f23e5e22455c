------------------------ MODULE WalletManagerProofs ------------------------
(***************************************************************************)
(* Theorems about WalletManager, for every set of derivation paths, any    *)
(* number of account objects and every configuration of the client.        *)
(***************************************************************************)
EXTENDS WalletManager, TLAPS

\* An object that exists has the path it was created for.
PathKnown == \A o \in Objects : o <= created => path[o] \in Paths

ManagerInv == TypeOK /\ PathKnown /\ NoOrphans /\ ReturnedMeansErased /\ ClientIsShared

USE ObjectsAssumption

-----------------------------------------------------------------------------
(* The client an object gets. *)

\* Whatever the configuration holds, the result is a client or undefined.
LEMMA BuildRpcType ==
  ASSUME NEW provider, NEW rpcUrl, NEW given \in MaybeClient, NEW built \in MaybeClient
  PROVE  BuildRpc(provider, rpcUrl, given, built) \in MaybeClient
BY DEF BuildRpc, MaybeClient, Targets

LEMMA BuiltType ==
  ASSUME NEW o \in Objects \cup {None}, NEW role \in {"manager", "account", "copy"}
  PROVE  Built(role, o) \in MaybeClient
BY DEF MaybeClient, Clients

\* An account gets the client of its manager when there is one.
LEMMA AccountClientShared ==
  ASSUME NEW o \in Objects, TypeOK
  PROVE  /\ AccountClient(o) \in MaybeClient
         /\ rpc # Undefined => AccountClient(o) = rpc
<1>1. AccountClient(o) \in MaybeClient
  BY BuildRpcType, BuiltType DEF AccountClient, TypeOK
<1>2. ASSUME rpc # Undefined PROVE AccountClient(o) = rpc
  BY <1>2 DEF AccountClient, BuildRpc
<1> QED BY <1>1, <1>2

\* A read-only copy gets the client of its account when there is one.
LEMMA CopyClientShared ==
  ASSUME NEW o \in Objects, TypeOK
  PROVE  /\ CopyClient(o) \in MaybeClient
         /\ client[o] # Undefined => CopyClient(o) = client[o]
<1>1. client[o] \in MaybeClient
  BY DEF TypeOK
<1>2. CopyClient(o) \in MaybeClient
  BY <1>1, BuildRpcType, BuiltType DEF CopyClient
<1>3. ASSUME client[o] # Undefined PROVE CopyClient(o) = client[o]
  BY <1>3 DEF CopyClient, BuildRpc
<1> QED BY <1>2, <1>3

-----------------------------------------------------------------------------
(* One lemma per action. *)

LEMMA InitInv == Init => ManagerInv
<1> SUFFICES ASSUME Init PROVE ManagerInv
  OBVIOUS
<1>1. rpc \in MaybeClient
  <2>1. Given \in MaybeClient
    BY DEF MaybeClient, Clients
  <2> QED BY <2>1, BuildRpcType, BuiltType DEF Init
<1>2. \A o \in Objects : o > created
  BY DEF Init, Objects
<1>3. TypeOK
  BY <1>1 DEF Init, TypeOK, MaybeClient
<1>4. PathKnown /\ NoOrphans
  BY <1>2 DEF Init, PathKnown, NoOrphans, Live, Objects
<1>5. ReturnedMeansErased /\ ClientIsShared
  BY <1>2 DEF Init, ReturnedMeansErased, ClientIsShared, Objects
<1> QED BY <1>3, <1>4, <1>5 DEF ManagerInv

LEMMA GetAccountByPathInv ==
  ASSUME ManagerInv, NEW p \in Paths, GetAccountByPath(p)
  PROVE  ManagerInv'
<1> USE DEF ManagerInv
<1> DEFINE n == created + 1
<1>1. /\ n \in Objects /\ created \in Nat
      /\ \A o \in Objects : o <= created' <=> o <= created \/ o = n
  BY DEF GetAccountByPath, Create, TypeOK, Objects
<1>2. AccountClient(n) \in MaybeClient /\ (rpc # Undefined => AccountClient(n) = rpc)
  BY <1>1, AccountClientShared
<1>3. /\ \A o \in Objects \ {n} : path'[o] = path[o] /\ key'[o] = key[o] /\ client'[o] = client[o]
      /\ path'[n] = p /\ key'[n] = "key" /\ client'[n] = AccountClient(n)
  BY <1>1 DEF GetAccountByPath, Create, TypeOK
<1>4. TypeOK'
  <2>1. /\ config' \in [provider : Targets, rpcUrl : UrlTargets] /\ rpc' \in MaybeClient
        /\ accounts' \in [Paths -> Objects \cup {None}]
        /\ path' \in [Objects -> Paths \cup {Undefined}]
        /\ key' \in [Objects -> {"key", "undefined"}]
        /\ copy' \in [Objects -> [made : BOOLEAN, client : MaybeClient]]
        /\ ended' \in {"no", "returned", "threw"}
    BY <1>1 DEF GetAccountByPath, Create, TypeOK
  <2>2. created' \in 0..MaxObjects
    BY <1>1 DEF GetAccountByPath, Create, Objects
  <2>3. client' \in [Objects -> MaybeClient]
    BY <1>1, <1>2 DEF GetAccountByPath, Create, TypeOK
  <2>4. \A o \in Objects : o > created' =>
          key'[o] = "undefined" /\ client'[o] = Undefined /\ ~copy'[o].made
    BY <1>1, <1>3 DEF GetAccountByPath, Create, TypeOK, Objects
  <2>5. \A o \in Objects : ~copy'[o].made => copy'[o].client = Undefined
    BY DEF GetAccountByPath, Create, TypeOK
  <2> QED BY <2>1, <2>2, <2>3, <2>4, <2>5 DEF TypeOK
<1>5. PathKnown'
  BY <1>1, <1>3 DEF PathKnown
<1>6. NoOrphans'
  <2> SUFFICES ASSUME NEW o \in Objects, Live(o)' PROVE accounts'[path'[o]] = o
    BY DEF NoOrphans
  <2>1. CASE o = n
    BY <2>1, <1>3 DEF GetAccountByPath, TypeOK
  <2>2. CASE o # n
    <3>1. Live(o) /\ path'[o] = path[o] /\ path[o] \in Paths
      BY <2>2, <1>1, <1>3 DEF Live, PathKnown
    <3>2. accounts[path[o]] = o /\ path[o] # p
      BY <3>1 DEF NoOrphans, GetAccountByPath, Objects, None
    <3> QED BY <3>1, <3>2 DEF GetAccountByPath, TypeOK
  <2> QED BY <2>1, <2>2
<1>7. ReturnedMeansErased'
  BY DEF GetAccountByPath, ReturnedMeansErased
<1>8. ClientIsShared'
  <2>1. rpc' = rpc /\ copy' = copy
    BY DEF GetAccountByPath, Create
  <2> QED BY <2>1, <1>1, <1>2, <1>3 DEF ClientIsShared
<1> QED BY <1>4, <1>5, <1>6, <1>7, <1>8

LEMMA ToReadOnlyAccountInv ==
  ASSUME ManagerInv, NEW o \in Objects, ToReadOnlyAccount(o)
  PROVE  ManagerInv'
<1> USE DEF ManagerInv
<1>1. UNCHANGED <<config, rpc, accounts, created, path, key, client>> /\ ended' = "no"
  BY DEF ToReadOnlyAccount
<1>2. CopyClient(o) \in MaybeClient /\ (client[o] # Undefined => CopyClient(o) = client[o])
  BY CopyClientShared
<1>3. /\ copy' \in [Objects -> [made : BOOLEAN, client : MaybeClient]]
      /\ copy'[o].made /\ copy'[o].client = CopyClient(o)
      /\ \A d \in Objects \ {o} : copy'[d] = copy[d]
      /\ o <= created
  BY <1>2 DEF ToReadOnlyAccount, TypeOK
<1>4. TypeOK'
  BY <1>1, <1>3 DEF TypeOK, Objects
<1>5. PathKnown' /\ NoOrphans' /\ ReturnedMeansErased'
  BY <1>1 DEF PathKnown, NoOrphans, ReturnedMeansErased, Live
<1>6. ClientIsShared'
  BY <1>1, <1>2, <1>3 DEF ClientIsShared
<1> QED BY <1>4, <1>5, <1>6

\* Whatever set of objects loses its keys, the manager's knowledge of the others stays right.
LEMMA EraseInv ==
  ASSUME ManagerInv, NEW erased,
         UNCHANGED <<config, rpc, accounts, created, path, client, copy>>, Erase(erased)
  PROVE  /\ key' \in [Objects -> {"key", "undefined"}]
         /\ \A o \in Objects : Live(o)' <=> Live(o) /\ o \notin erased
         /\ ended' \in {"no", "returned", "threw"} => TypeOK'
         /\ PathKnown' /\ NoOrphans' /\ ClientIsShared'
<1> USE DEF ManagerInv
<1>1. /\ key' \in [Objects -> {"key", "undefined"}]
      /\ \A o \in Objects : key'[o] = IF o \in erased THEN "undefined" ELSE key[o]
  BY DEF Erase, TypeOK
<1>2. \A o \in Objects : Live(o)' <=> Live(o) /\ o \notin erased
  BY <1>1 DEF Live
<1>3. ASSUME ended' \in {"no", "returned", "threw"} PROVE TypeOK'
  BY <1>1, <1>3 DEF TypeOK
<1>4. PathKnown' /\ ClientIsShared'
  BY DEF PathKnown, ClientIsShared
<1>5. NoOrphans'
  BY <1>2 DEF NoOrphans
<1> QED BY <1>1, <1>2, <1>3, <1>4, <1>5

LEMMA DisposeAccountInv ==
  ASSUME ManagerInv, NEW o \in Objects, DisposeAccount(o)
  PROVE  ManagerInv'
<1>1. Erase({o})
  BY DEF DisposeAccount, Erase, ManagerInv, TypeOK
<1>2. TypeOK' /\ PathKnown' /\ NoOrphans' /\ ClientIsShared'
  BY <1>1, EraseInv DEF DisposeAccount
<1> QED BY <1>2 DEF ManagerInv, DisposeAccount, ReturnedMeansErased

\* This is where NoOrphans is needed: the accounts that are erased are all there are.
LEMMA DisposeReturnsInv ==
  ASSUME ManagerInv, DisposeReturns
  PROVE  ManagerInv'
<1> USE DEF ManagerInv
<1>1. UNCHANGED <<config, rpc, created, path, client, copy>> /\ ended' = "returned"
  BY DEF DisposeReturns
<1>2. /\ key' \in [Objects -> {"key", "undefined"}]
      /\ \A o \in Objects : Live(o)' => Live(o) /\ o \notin Cached
      /\ \A o \in Objects : key[o] = "undefined" => key'[o] = "undefined"
  BY <1>1 DEF DisposeReturns, Erase, TypeOK, Live
<1>3. \A o \in Objects : ~Live(o)'
  <2> SUFFICES ASSUME NEW o \in Objects, Live(o) PROVE o \in Cached
    BY <1>2
  <2>1. path[o] \in Paths /\ accounts[path[o]] = o
    BY DEF NoOrphans, PathKnown, Live
  <2> QED BY <2>1 DEF Cached, Objects, None
<1>4. accounts' \in [Paths -> Objects \cup {None}]
  BY DEF DisposeReturns, TypeOK
<1>5. TypeOK'
  BY <1>1, <1>2, <1>4 DEF TypeOK
<1>6. PathKnown' /\ ClientIsShared'
  BY <1>1 DEF PathKnown, ClientIsShared
<1>7. NoOrphans' /\ ReturnedMeansErased'
  BY <1>3 DEF NoOrphans, ReturnedMeansErased
<1> QED BY <1>5, <1>6, <1>7

LEMMA DisposeThrowsInv ==
  ASSUME ManagerInv, DisposeThrows
  PROVE  ManagerInv'
<1>1. PICK o \in Cached : Erase({d \in Cached : d < o})
  BY DEF DisposeThrows
<1>2. TypeOK' /\ PathKnown' /\ NoOrphans' /\ ClientIsShared'
  BY <1>1, EraseInv DEF DisposeThrows
<1> QED BY <1>2 DEF ManagerInv, DisposeThrows, ReturnedMeansErased

LEMMA StutterInv ==
  ASSUME ManagerInv, UNCHANGED vars
  PROVE  ManagerInv'
BY DEF ManagerInv, vars, objectVars, TypeOK, PathKnown, NoOrphans, ReturnedMeansErased,
       ClientIsShared, Live

-----------------------------------------------------------------------------
(* The theorems. *)

\* ManagerInv is inductive: getAccountByPath, the disposal of one account and the disposal of all
\* of them, complete or cut short, keep it.
THEOREM ManagerInvariant == Spec => []ManagerInv
<1>1. ManagerInv /\ [Next]_vars => ManagerInv'
  BY GetAccountByPathInv, ToReadOnlyAccountInv, DisposeAccountInv, DisposeReturnsInv,
     DisposeThrowsInv, StutterInv DEF Next
<1> QED BY InitInv, <1>1, PTL DEF Spec

\* Every variable of the manager has its type.
THEOREM ManagerTypeCorrect == Spec => []TypeOK
<1>1. ManagerInv => TypeOK
  BY DEF ManagerInv
<1> QED BY ManagerInvariant, <1>1, PTL

\* The manager's cache reaches every account that has its key (getAccountByPath, dispose).
THEOREM NoAccountOrphaned == Spec => []NoOrphans
<1>1. ManagerInv => NoOrphans
  BY DEF ManagerInv
<1> QED BY ManagerInvariant, <1>1, PTL

\* A disposal of the manager that returns leaves no key behind in any account it ever created.
THEOREM DisposalErasesAll == Spec => []ReturnedMeansErased
<1>1. ManagerInv => ReturnedMeansErased
  BY DEF ManagerInv
<1> QED BY ManagerInvariant, <1>1, PTL

\* The accounts and their read-only copies use the manager's client (_accountConfig,
\* toReadOnlyAccount), whenever the manager has one.
THEOREM ClientShared == Spec => []ClientIsShared
<1>1. ManagerInv => ClientIsShared
  BY DEF ManagerInv
<1> QED BY ManagerInvariant, <1>1, PTL

=============================================================================
