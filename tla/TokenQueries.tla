---------------------------- MODULE TokenQueries ----------------------------
(***************************************************************************)
(* The balance queries: getBalance, getTokenBalance and getTokenBalances.  *)
(*                                                                         *)
(* getTokenBalance asks for the token account and then for its balance;    *)
(* getTokenBalances cuts its tokens into batches and asks for one batch    *)
(* after the other.  Between two requests every balance may change, and a  *)
(* token account may be opened or closed.  The chain and its nodes are     *)
(* external; a node may be behind the chain by MaxLag of its changes, and  *)
(* two requests may be answered by different nodes.                        *)
(***************************************************************************)
EXTENDS Naturals, Sequences, SequencesExt

CONSTANTS
  Queries,    \* identities of the queries
  Tokens,     \* the tokens
  Native,     \* the account's own balance of SOL
  Lists,      \* the lists of tokens getTokenBalances may be asked for
  Amounts,    \* the balances an account may have
  BatchSize,  \* BATCH_SIZE: how many accounts one request may ask for
  MaxLag,     \* by how many changes the moment a node answers with may be behind the chain
  MaxChanges  \* bound: how often the chain changes

ASSUME BatchAssumption == BatchSize \in Nat \ {0}
ASSUME AmountsAssumption == 0 \in Amounts /\ Amounts \subseteq Nat
ASSUME ChangesAssumption == MaxChanges \in Nat
ASSUME LagAssumption == MaxLag \in Nat
ASSUME ListsAssumption == \A list \in Lists : list \in Seq(Tokens)

VARIABLES
  rpc,      \* whether _rpc is set
  history,  \* the balances so far: what the accounts held at each moment, the present one last
  queries   \* the queries' continuations

vars == <<rpc, history, queries>>

Accounts == Tokens \cup {Native}

\* The balances of one moment, and the tokens the owner has an account for; an absent one is empty.
Moment ==
  {m \in [amount : [Accounts -> Amounts], present : SUBSET Tokens] :
     \A t \in Tokens \ m.present : m.amount[t] = 0}

Moments == {history[i] : i \in DOMAIN history}

\* The moments that some node may still have answered with at the n-th moment, and those since.
MomentsFrom(n) == {history[i] : i \in {j \in DOMAIN history : n <= j + MaxLag}}

\* The moments a node may answer with.
Recent == MomentsFrom(Len(history))

(***************************************************************************)
(* A query's continuation.  `tokens' are the unique tokens it asks for,    *)
(* `offset' how many of them have been asked for, `balances' the result so *)
(* far, as a function on the accounts answered, `error' what a request has *)
(* failed with.  `made' is a history: the moment the query was made.       *)
(***************************************************************************)
Idle == [pc |-> "idle"]
Pc(q) == queries[q].pc

Begun(pc, names) ==
  [pc |-> pc, names |-> names, tokens |-> <<>>, offset |-> 0, balances |-> <<>>,
   error |-> "none", made |-> Len(history)]

Init ==
  /\ rpc \in BOOLEAN
  /\ history \in {<<m>> : m \in Moment}
  /\ queries = [q \in Queries |-> Idle]

-----------------------------------------------------------------------------
(* The chain. *)

\* The balance of an account changes; a token account may be opened, or closed when it is empty.
Change(a) ==
  /\ Len(history) <= MaxChanges
  /\ \E m \in Moment :
       /\ m.present \cup {a} = Last(history).present \cup {a}
       /\ \A x \in Accounts \ {a} : m.amount[x] = Last(history).amount[x]
       /\ history' = Append(history, m)
  /\ UNCHANGED <<rpc, queries>>

-----------------------------------------------------------------------------
(* The queries. *)

\* Query q is made and continues with k.
Make(q, k) ==
  /\ Pc(q) = "idle"
  /\ queries' = [queries EXCEPT ![q] = IF rpc THEN k ELSE [k EXCEPT !.pc = "rejected"]]
  /\ UNCHANGED <<rpc, history>>

GetBalance(q) == Make(q, Begun("balance", <<Native>>))

\* A token or a list that holds an address that is none is rejected before the first request.
GetTokenBalance(q, token, wellFormed) ==
  Make(q, Begun(IF wellFormed THEN "account" ELSE "rejected", <<token>>))

\* [...new Set(list)]: each token once, in the order of its first occurrence.
Unique(list) ==
  LET seen[n \in 0..Len(list)] ==
        IF n = 0 THEN <<>>
        ELSE IF list[n] \in Range(seen[n-1]) THEN seen[n-1] ELSE Append(seen[n-1], list[n]) IN
  seen[Len(list)]

GetTokenBalances(q, list, wellFormed) ==
  LET k == Begun("batch", list) IN
  Make(q, IF list = <<>> THEN [k EXCEPT !.pc = "resolved"]
          ELSE IF ~wellFormed THEN [k EXCEPT !.pc = "rejected"]
          ELSE [k EXCEPT !.tokens = Unique(list)])

Settle(q, pc, balances) ==
  /\ queries' = [queries EXCEPT ![q].pc = pc, ![q].balances = balances]
  /\ UNCHANGED <<rpc, history>>

Throw(q, error) ==
  /\ queries' = [queries EXCEPT ![q].pc = "rejected", ![q].balances = <<>>, ![q].error = error]
  /\ UNCHANGED <<rpc, history>>

\* Mutant: the balance is asked for whether or not the account is there.
AccountAnswered_Unchecked(q) == Pc(q) = "account" /\ Settle(q, "balance", <<>>)

\* The first answer of getTokenBalance: without an account the balance is zero.
AccountAnswered(q) ==
  LET token == queries[q].names[1] IN
  /\ Pc(q) = "account"
  /\ \E m \in Recent :
       IF token \in m.present THEN Settle(q, "balance", <<>>)
       ELSE Settle(q, "resolved", [a \in {token} |-> 0])

\* The balance of an account is answered; for a token account that is not there, although it was
\* at the first answer, the node has an error.
BalanceAnswered(q) ==
  LET a == queries[q].names[1] IN
  /\ Pc(q) = "balance"
  /\ \E m \in Recent :
       IF a \in m.present \cup {Native} THEN Settle(q, "resolved", [x \in {a} |-> m.amount[a]])
       ELSE Throw(q, "missing")

\* slice(offset, offset + BATCH_SIZE)
Slice(list, offset) ==
  LET rest == Len(list) - offset IN SubSeq(list, offset + 1, offset + IF rest < BatchSize THEN rest ELSE BatchSize)

\* Mutant: the names of a batch are cut from the list as it was passed.
NamesOfBatch_WithDuplicates(q) == Slice(queries[q].names, queries[q].offset)

\* The names the answer is paired with, by position.
NamesOfBatch(q) == Slice(queries[q].tokens, queries[q].offset)

\* Mutant: only full batches are asked for.
AskedAll_FullBatches(q, offset) == Len(queries[q].tokens) < offset + BatchSize

\* Mutant: one request too many.
AskedAll_OffByOne(q, offset) == Len(queries[q].tokens) < offset

\* Whether the loop over the batches ends at an offset.
AskedAll(q, offset) == Len(queries[q].tokens) <= offset

\* Mutant: a batch is asked for again and again.
NextOffset_Same(q) == queries[q].offset

NextOffset(q) == queries[q].offset + BatchSize

\* One batch is answered, with the balances of its accounts at one moment; an account that is
\* missing counts as empty.
BatchAnswered(q) ==
  /\ Pc(q) = "batch"
  /\ \E m \in Recent :
       LET k == queries[q]
           asked == Slice(k.tokens, k.offset)
           names == NamesOfBatch(q)
           found(i) == IF i \in DOMAIN asked THEN m.amount[asked[i]] ELSE 0
           balances == [t \in DOMAIN k.balances \cup Range(names) |->
                          IF t \in Range(names) THEN found(CHOOSE i \in DOMAIN names : names[i] = t)
                          ELSE k.balances[t]] IN
       queries' = [queries EXCEPT ![q] =
         [k EXCEPT !.offset = NextOffset(q), !.balances = balances,
                   !.pc = IF AskedAll(q, NextOffset(q)) THEN "resolved" ELSE "batch"]]
  /\ UNCHANGED <<rpc, history>>

RequestFails(q) == Pc(q) \in {"balance", "account", "batch"} /\ Throw(q, "rpc")

Resume(q) == AccountAnswered(q) \/ BalanceAnswered(q) \/ BatchAnswered(q) \/ RequestFails(q)

Next ==
  \/ \E a \in Accounts : Change(a)
  \/ \E q \in Queries :
       \/ GetBalance(q)
       \/ \E t \in Tokens, wellFormed \in BOOLEAN : GetTokenBalance(q, t, wellFormed)
       \/ \E list \in Lists, wellFormed \in BOOLEAN : GetTokenBalances(q, list, wellFormed)
       \/ Resume(q)

Spec == Init /\ [][Next]_vars

\* Every request is answered or fails.
FairSpec == Spec /\ \A q \in Queries : WF_vars(Resume(q))

-----------------------------------------------------------------------------
(* Correctness. *)

Resolved(q) == Pc(q) = "resolved"

\* Every variable has its type; a query in its loop has a batch left to ask for.
TypeOK ==
  /\ rpc \in BOOLEAN
  /\ history # <<>> /\ Moments \subseteq Moment
  /\ \A q \in Queries :
       Pc(q) # "idle" =>
         /\ Pc(q) \in {"balance", "account", "batch", "resolved", "rejected"}
         /\ DOMAIN queries[q].balances \subseteq Accounts
         /\ \A a \in DOMAIN queries[q].balances : queries[q].balances[a] \in Amounts
         /\ Pc(q) = "batch" => queries[q].offset < Len(queries[q].tokens)

\* Whatever opens, closes and changes between the requests, and whichever nodes answer them: each
\* balance of a result is one that this very account had while the query was under way, or so
\* shortly before that a node could still answer with it.  The missing account that counts as
\* empty was empty then, and no batch gives one token the balance of another.
BalancesWereTrue ==
  \A q \in Queries : Resolved(q) =>
    \A a \in DOMAIN queries[q].balances :
      \E m \in MomentsFrom(queries[q].made) : queries[q].balances[a] = m.amount[a]

\* A token whose account does not come or go around the query is never answered with the error of
\* an account that is missing: that takes an account that one of its two requests could see and
\* the other could not, because it was closed between them or the second node was behind.
MissingOnlyIfChanged ==
  \A q \in Queries : Pc(q) = "rejected" /\ queries[q].error = "missing" =>
    \E before, after \in MomentsFrom(queries[q].made) :
      queries[q].names[1] \in before.present \ after.present

\* A result holds every account asked for, however many batches that took, and no other.
EveryTokenIsAnswered ==
  \A q \in Queries : Resolved(q) => DOMAIN queries[q].balances = Range(queries[q].names)

\* However the tokens are cut into batches, every query settles.
EveryBalanceSettles ==
  \A q \in Queries : Pc(q) # "idle" ~> Pc(q) \in {"resolved", "rejected"}
=============================================================================
