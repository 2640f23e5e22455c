------------------------- MODULE TokenQueriesProofs -------------------------
(***************************************************************************)
(* Theorems about TokenQueries, for every set of tokens, lists of any      *)
(* length, every size of a batch and any number of queries and changes.    *)
(***************************************************************************)
EXTENDS TokenQueries, Scans, SequenceTheorems

-----------------------------------------------------------------------------
(* The unique tokens of a list. *)

\* The set's insertion order goes through the list as the definition of Unique says.
LEMMA UniqueScans ==
  ASSUME NEW list \in Seq(Tokens)
  PROVE  \E seen :
           /\ Unique(list) = seen[Len(list)]
           /\ seen[0] = <<>>
           /\ \A n \in 1..Len(list) :
                seen[n] = IF list[n] \in Range(seen[n-1]) THEN seen[n-1] ELSE Append(seen[n-1], list[n])
<1> DEFINE N == Len(list)
           step == [p \in Seq(Tokens) \X (1..N) |->
                      IF list[p[2]] \in Range(p[1]) THEN p[1] ELSE Append(p[1], list[p[2]])]
           Recursion(f) == [n \in 0..N |->
                              IF n = 0 THEN <<>>
                              ELSE IF list[n] \in Range(f[n-1]) THEN f[n-1] ELSE Append(f[n-1], list[n])]
           seen == CHOOSE f : f = Recursion(f)
<1>1. N \in Nat /\ \A i \in 1..N : list[i] \in Tokens
  OBVIOUS
<1>2. PICK f : IsScan(f, Seq(Tokens), N, <<>>, step)
  <2>1. step \in StepFunctions(Seq(Tokens), N)
    <3>1. ASSUME NEW p \in Seq(Tokens) \X (1..N)
          PROVE  (IF list[p[2]] \in Range(p[1]) THEN p[1] ELSE Append(p[1], list[p[2]])) \in Seq(Tokens)
      <4>1. p[1] \in Seq(Tokens) /\ list[p[2]] \in Tokens
        BY <1>1
      <4> QED BY <4>1
    <3> QED BY <3>1 DEF StepFunctions
  <2>2. <<>> \in Seq(Tokens)
    OBVIOUS
  <2> HIDE DEF step, N
  <2> QED BY <1>1, <2>1, <2>2, ScanExists
<1>3. f \in [0..N -> Seq(Tokens)] /\ f[0] = <<>>
  BY <1>2 DEF IsScan
<1>4. ASSUME NEW n \in 1..N
      PROVE  f[n] = IF list[n] \in Range(f[n-1]) THEN f[n-1] ELSE Append(f[n-1], list[n])
  <2>1. <<f[n-1], n>> \in Seq(Tokens) \X (1..N)
    <3>1. n - 1 \in 0..N
      BY <1>1
    <3> HIDE DEF N
    <3> QED BY <1>3, <3>1
  <2>2. f[n] = step[<<f[n-1], n>>]
    BY <1>2 DEF IsScan
  <2> QED BY <2>1, <2>2
<1>5. f = Recursion(f)
  <2>1. ASSUME NEW n \in 0..N
        PROVE  f[n] = IF n = 0 THEN <<>>
                      ELSE IF list[n] \in Range(f[n-1]) THEN f[n-1] ELSE Append(f[n-1], list[n])
    <3>1. CASE n = 0
      BY <1>3, <3>1
    <3>2. CASE n \in 1..N
      BY <1>4, <3>2
    <3> QED BY <1>1, <3>1, <3>2
  <2> HIDE DEF N
  <2> QED BY <1>3, <2>1
<1>6. seen = Recursion(seen)
  BY <1>5
<1>7. Unique(list) = seen[N]
  BY DEF Unique
<1> HIDE DEF seen
<1>8. \A n \in 0..N : seen[n] = IF n = 0 THEN <<>>
                                ELSE IF list[n] \in Range(seen[n-1]) THEN seen[n-1] ELSE Append(seen[n-1], list[n])
  BY <1>6
<1>9. /\ seen[0] = <<>>
      /\ \A n \in 1..N : seen[n] = IF list[n] \in Range(seen[n-1]) THEN seen[n-1] ELSE Append(seen[n-1], list[n])
  BY <1>1, <1>8
<1> QED BY <1>7, <1>9

\* The unique tokens are those of the list, each of them once.
LEMMA UniqueKeeps ==
  ASSUME NEW list \in Seq(Tokens)
  PROVE  /\ Unique(list) \in Seq(Tokens)
         /\ Range(Unique(list)) = Range(list)
         /\ \A i, j \in 1..Len(Unique(list)) : Unique(list)[i] = Unique(list)[j] => i = j
<1> DEFINE N == Len(list)
           Distinct(s) == \A i, j \in 1..Len(s) : s[i] = s[j] => i = j
<1>1. N \in Nat /\ \A i \in 1..N : list[i] \in Tokens
  OBVIOUS
<1>2. Range(list) = {list[i] : i \in 1..N}
  BY DEF Range
<1> HIDE DEF N
<1>3. PICK seen : /\ Unique(list) = seen[N]
                  /\ seen[0] = <<>>
                  /\ \A n \in 1..N : seen[n] = IF list[n] \in Range(seen[n-1]) THEN seen[n-1]
                                               ELSE Append(seen[n-1], list[n])
  BY UniqueScans DEF N
<1> DEFINE Seen(n) == /\ seen[n] \in Seq(Tokens)
                      /\ Range(seen[n]) = {list[i] : i \in 1..n}
                      /\ Distinct(seen[n])
           T == {n \in Nat : Seen(n)}
<1>4. 0 \in T
  <2>1. Range(seen[0]) = {}
    BY <1>3 DEF Range
  <2>2. {list[i] : i \in 1..0} = {}
    OBVIOUS
  <2>3. seen[0] \in Seq(Tokens) /\ Distinct(seen[0])
    BY <1>3
  <2> HIDE DEF Distinct
  <2> QED BY <2>1, <2>2, <2>3
<1>5. ASSUME NEW n \in 0..N - 1, n \in T PROVE n + 1 \in T
  <2>1. Seen(n)
    BY <1>5
  <2>2. n + 1 \in 1..N /\ (n + 1) - 1 = n /\ n \in Nat
    BY <1>1
  <2>3. seen[n + 1] = IF list[n + 1] \in Range(seen[n]) THEN seen[n] ELSE Append(seen[n], list[n + 1])
    BY <1>3, <2>2
  <2>4. list[n + 1] \in Tokens
    BY <1>1, <2>2
  <2>5. {list[i] : i \in 1..n + 1} = {list[i] : i \in 1..n} \cup {list[n + 1]}
    BY <2>2
  <2>6. CASE list[n + 1] \in Range(seen[n])
    <3>1. seen[n + 1] = seen[n] /\ {list[i] : i \in 1..n + 1} = Range(seen[n + 1])
      BY <2>1, <2>3, <2>5, <2>6
    <3> HIDE DEF Distinct
    <3>2. Seen(n + 1)
      BY <2>1, <3>1
    <3>3. n + 1 \in Nat
      BY <2>2
    <3> HIDE DEF Seen
    <3> QED BY <3>2, <3>3
  <2>7. CASE list[n + 1] \notin Range(seen[n])
    <3> DEFINE s == seen[n]
               t == list[n + 1]
    <3>1. s \in Seq(Tokens) /\ t \in Tokens /\ Distinct(s) /\ t \notin Range(s)
      BY <2>1, <2>4, <2>7
    <3>2. seen[n + 1] = Append(s, t)
      BY <2>3, <2>7
    <3> HIDE DEF s, t
    <3>3. Append(s, t) \in Seq(Tokens) /\ Range(Append(s, t)) = Range(s) \cup {t}
      BY <3>1, RangeOfAppend
    <3>4. Distinct(Append(s, t))
      <4>1. \A i \in 1..Len(s) : s[i] # t
        BY <3>1 DEF Range
      <4> QED BY <3>1, <4>1
    <3> HIDE DEF Distinct
    <3>5. seen[n + 1] \in Seq(Tokens) /\ Distinct(seen[n + 1])
      BY <3>2, <3>3, <3>4
    <3>6. Range(seen[n + 1]) = {list[i] : i \in 1..n} \cup {list[n + 1]}
      BY <2>1, <3>2, <3>3 DEF s, t
    <3>7. Seen(n + 1)
      <4>1. Range(seen[n + 1]) = {list[i] : i \in 1..n + 1}
        BY <2>5, <3>6
      <4> QED BY <3>5, <4>1
    <3>8. n + 1 \in Nat
      BY <2>2
    <3> HIDE DEF Seen
    <3> QED BY <3>7, <3>8
  <2> QED BY <2>6, <2>7
<1>6. N \in T
  <2>1. N \in Nat
    BY <1>1
  <2>2. 0..N \subseteq T
    <3> HIDE DEF T
    <3> QED BY <1>4, <1>5, <2>1, IntervalInduction
  <2> HIDE DEF T
  <2> QED BY <2>1, <2>2
<1> QED BY <1>2, <1>3, <1>6

-----------------------------------------------------------------------------
(* The batches. *)

\* How many names the batch at an offset has.
BatchLen(list, offset) ==
  LET rest == Len(list) - offset IN IF rest < BatchSize THEN rest ELSE BatchSize

\* A batch holds the names that follow its offset, and after it the next batch begins or nothing
\* is left.
LEMMA SliceIsBatch ==
  ASSUME NEW list \in Seq(Tokens), NEW offset \in Nat, offset < Len(list)
  PROVE  LET n == BatchLen(list, offset) IN
         /\ n \in 1..BatchSize /\ offset + n <= Len(list)
         /\ DOMAIN Slice(list, offset) = 1..n
         /\ \A i \in 1..n : Slice(list, offset)[i] = list[offset + i]
         /\ Len(list) <= offset + BatchSize => offset + n = Len(list)
         /\ offset + BatchSize < Len(list) => n = BatchSize
<1> DEFINE n == BatchLen(list, offset)
<1>1. Len(list) \in Nat /\ BatchSize \in Nat \ {0}
  BY BatchAssumption
<1>2. /\ n \in 1..BatchSize /\ offset + n <= Len(list)
      /\ Len(list) <= offset + BatchSize => offset + n = Len(list)
      /\ offset + BatchSize < Len(list) => n = BatchSize
  BY <1>1 DEF BatchLen
<1>3. Slice(list, offset) = SubSeq(list, offset + 1, offset + n)
  BY DEF Slice, BatchLen
<1> HIDE DEF n
<1>4. /\ DOMAIN SubSeq(list, offset + 1, offset + n) = 1..n
      /\ \A i \in 1..n : SubSeq(list, offset + 1, offset + n)[i] = list[offset + i]
  <2>1. offset + 1 \in 1..Len(list) + 1 /\ offset + n \in offset..Len(list) /\ n \in Nat
    BY <1>1, <1>2
  <2> QED BY <2>1, SubSeqProperties
<1> QED BY <1>2, <1>3, <1>4 DEF n

\* After a batch the names asked for so far are those before the next offset.
LEMMA BatchesAddUp ==
  ASSUME NEW list \in Seq(Tokens), NEW offset \in Nat, offset < Len(list)
  PROVE  {list[i] : i \in 1..offset} \cup Range(Slice(list, offset))
           = {list[i] : i \in 1..offset + BatchLen(list, offset)}
<1> DEFINE n == BatchLen(list, offset)
<1>1. n \in Nat /\ DOMAIN Slice(list, offset) = 1..n
      /\ \A i \in 1..n : Slice(list, offset)[i] = list[offset + i]
  BY SliceIsBatch, BatchAssumption
<1> HIDE DEF n
<1>2. Range(Slice(list, offset)) = {list[offset + i] : i \in 1..n}
  BY <1>1 DEF Range
<1>3. {list[i] : i \in 1..offset} \cup {list[offset + i] : i \in 1..n} = {list[i] : i \in 1..offset + n}
  <2>1. ASSUME NEW x \in {list[i] : i \in 1..offset + n}
        PROVE  x \in {list[i] : i \in 1..offset} \cup {list[offset + i] : i \in 1..n}
    <3>1. PICK i \in 1..offset + n : x = list[i]
      BY <2>1
    <3>2. CASE i \in 1..offset
      BY <3>1, <3>2
    <3>3. CASE i > offset
      <4>1. i - offset \in 1..n /\ offset + (i - offset) = i
        BY <1>1, <3>3
      <4> QED BY <3>1, <4>1
    <3> QED BY <1>1, <3>2, <3>3
  <2>2. \A i \in 1..offset : i \in 1..offset + n
    BY <1>1
  <2>3. \A i \in 1..n : offset + i \in 1..offset + n
    BY <1>1
  <2> QED BY <2>1, <2>2, <2>3
<1> QED BY <1>2, <1>3 DEF n

-----------------------------------------------------------------------------
(* The inductive invariant. *)

Balances == UNION {[D -> Amounts] : D \in SUBSET Accounts}

Continuation ==
  [pc : {"balance", "account", "batch", "resolved", "rejected"},
   names : Seq(Accounts), tokens : Seq(Tokens), offset : Nat, balances : Balances,
   error : {"none", "missing", "rpc"}, made : Nat]

\* The query was told that account a is there, which the owner's own always is.
WasThere(k, a) == a = Native \/ \E m \in MomentsFrom(k.made) : a \in m.present

\* The account the query asks for was there at one moment of the query and not at another.
Vanished(k) == \E before, after \in MomentsFrom(k.made) : k.names[1] \in before.present \ after.present

\* What a query with continuation k has been through: where it waits for a single answer it asks
\* for one account, that was there if it is a token's, in its loop it has the balances of the
\* tokens before its offset, and every balance it holds was the account's at a moment of the query
\* or shortly before.
QueryInv(k) ==
  /\ k \in Continuation
  /\ k.pc = "account" => \E t \in Tokens : k.names = <<t>>
  /\ k.pc = "balance" => \E a \in Accounts : k.names = <<a>> /\ WasThere(k, a)
  /\ k.pc = "batch" =>
       /\ k.offset < Len(k.tokens)
       /\ Range(k.tokens) = Range(k.names)
       /\ DOMAIN k.balances = {k.tokens[i] : i \in 1..k.offset}
  /\ k.pc = "resolved" => DOMAIN k.balances = Range(k.names)
  /\ \A a \in DOMAIN k.balances : \E m \in MomentsFrom(k.made) : k.balances[a] = m.amount[a]
  /\ k.error = "missing" => Vanished(k)
  /\ k.made <= Len(history)

QueriesInv ==
  /\ rpc \in BOOLEAN
  /\ history \in Seq(Moment) /\ history # <<>>
  /\ queries \in [Queries -> {Idle} \cup Continuation]
  /\ \A q \in Queries : Pc(q) # "idle" => QueryInv(queries[q])

\* The moments are the elements of the history, and every balance of one is an amount.
LEMMA MomentsTyped ==
  ASSUME history \in Seq(Moment)
  PROVE  /\ Moments \subseteq Moment
         /\ \A m \in Moments : m.amount \in [Accounts -> Amounts] /\ m.present \subseteq Tokens
BY DEF Moments, Moment

\* The moments nodes answer with are moments, and they are those of every query under way.
LEMMA RecentMoments ==
  ASSUME history \in Seq(Moment), NEW n \in Nat
  PROVE  /\ Recent \subseteq Moments
         /\ n <= Len(history) => Recent \subseteq MomentsFrom(n)
<1>1. Len(history) \in Nat /\ DOMAIN history = 1..Len(history) /\ MaxLag \in Nat
  BY LagAssumption
<1>2. Recent \subseteq Moments
  BY DEF Recent, MomentsFrom, Moments
<1>3. ASSUME n <= Len(history), NEW m \in Recent PROVE m \in MomentsFrom(n)
  <2>1. PICK i \in DOMAIN history : Len(history) <= i + MaxLag /\ m = history[i]
    BY DEF Recent, MomentsFrom
  <2>2. n <= i + MaxLag
    BY <1>1, <1>3, <2>1
  <2> QED BY <2>1, <2>2 DEF MomentsFrom
<1> QED BY <1>2, <1>3

\* One query goes on with a continuation that keeps the invariant, the others stay as they are.
LEMMA OneQuery ==
  ASSUME QueriesInv, NEW q \in Queries, NEW k, QueryInv(k),
         queries' = [queries EXCEPT ![q] = k], UNCHANGED <<rpc, history>>
  PROVE  QueriesInv'
<1>1. \A n : MomentsFrom(n)' = MomentsFrom(n)
  BY DEF MomentsFrom
<1>2. queries' \in [Queries -> {Idle} \cup Continuation]
  BY DEF QueriesInv, QueryInv
<1>3. ASSUME NEW p \in Queries, Pc(p)' # "idle" PROVE QueryInv(queries[p])'
  <2>1. CASE p = q
    <3>1. queries'[p] = k
      BY <2>1 DEF QueriesInv
    <3> QED BY <1>1, <3>1 DEF QueryInv, WasThere, Vanished
  <2>2. CASE p # q
    <3>1. queries'[p] = queries[p]
      BY <2>2 DEF QueriesInv
    <3>2. QueryInv(queries[p])
      BY <1>3, <3>1 DEF QueriesInv, Pc
    <3> QED BY <1>1, <3>1, <3>2 DEF QueryInv, WasThere, Vanished
  <2> QED BY <2>1, <2>2
<1> QED BY <1>2, <1>3 DEF QueriesInv

\* A continuation that has no balance yet.
LEMMA BegunTyped ==
  ASSUME QueriesInv,
         NEW pc \in {"balance", "account", "batch", "resolved", "rejected"}, NEW names \in Seq(Accounts)
  PROVE  /\ Begun(pc, names) \in Continuation
         /\ DOMAIN Begun(pc, names).balances = {}
         /\ Begun(pc, names).error = "none" /\ Begun(pc, names).made <= Len(history)
<1>1. <<>> \in [{} -> Amounts] /\ DOMAIN <<>> = {}
  OBVIOUS
<1>2. <<>> \in Balances
  BY <1>1 DEF Balances
<1>3. Len(history) \in Nat
  BY DEF QueriesInv
<1> QED BY <1>1, <1>2, <1>3 DEF Begun, Continuation

\* Making a query, with or without a client.
LEMMA MakeKeeps ==
  ASSUME QueriesInv, NEW q \in Queries, NEW k, QueryInv(k), DOMAIN k.balances = {}, Make(q, k)
  PROVE  QueriesInv'
<1>1. QueryInv([k EXCEPT !.pc = "rejected"])
  <2> DEFINE v == [k EXCEPT !.pc = "rejected"]
  <2>1. /\ v \in Continuation /\ v.pc = "rejected" /\ v.names = k.names
        /\ v.balances = k.balances /\ v.error = k.error /\ v.made = k.made
    BY DEF QueryInv, Continuation
  <2> HIDE DEF v
  <2>2. QueryInv(v)
    BY <2>1 DEF QueryInv, Vanished
  <2> QED BY <2>2 DEF v
<1> QED BY <1>1, OneQuery DEF Make

LEMMA GetBalanceKeeps ==
  ASSUME QueriesInv, NEW q \in Queries, GetBalance(q) PROVE QueriesInv'
<1> DEFINE k == Begun("balance", <<Native>>)
<1>1. <<Native>> \in Seq(Accounts)
  BY DEF Accounts
<1>2. k \in Continuation /\ DOMAIN k.balances = {}
  BY <1>1, BegunTyped
<1>3. k.pc = "balance" /\ k.names = <<Native>> /\ k.error = "none" /\ k.made <= Len(history)
  BY <1>1, BegunTyped DEF Begun
<1>4. QueryInv(k)
  BY <1>2, <1>3 DEF QueryInv, Accounts, WasThere
<1> QED BY <1>2, <1>4, MakeKeeps DEF GetBalance

LEMMA GetTokenBalanceKeeps ==
  ASSUME QueriesInv, NEW q \in Queries, NEW t \in Tokens, NEW wellFormed \in BOOLEAN,
         GetTokenBalance(q, t, wellFormed)
  PROVE  QueriesInv'
<1> DEFINE pc == IF wellFormed THEN "account" ELSE "rejected"
           k == Begun(pc, <<t>>)
<1>1. <<t>> \in Seq(Accounts)
  BY DEF Accounts
<1>2. k \in Continuation /\ DOMAIN k.balances = {}
  BY <1>1, BegunTyped
<1>3. k.pc \in {"account", "rejected"} /\ k.names = <<t>> /\ k.error = "none" /\ k.made <= Len(history)
  BY <1>1, BegunTyped DEF Begun
<1>4. QueryInv(k)
  BY <1>2, <1>3 DEF QueryInv
<1> QED BY <1>2, <1>4, MakeKeeps DEF GetTokenBalance

\* A list is asked for in batches of its unique tokens; there is one if the list is not empty.
LEMMA GetTokenBalancesKeeps ==
  ASSUME QueriesInv, NEW q \in Queries, NEW list \in Lists, NEW wellFormed \in BOOLEAN,
         GetTokenBalances(q, list, wellFormed)
  PROVE  QueriesInv'
<1> DEFINE k == Begun("batch", list)
           v == IF list = <<>> THEN [k EXCEPT !.pc = "resolved"]
                ELSE IF ~wellFormed THEN [k EXCEPT !.pc = "rejected"]
                ELSE [k EXCEPT !.tokens = Unique(list)]
<1>1. list \in Seq(Tokens) /\ list \in Seq(Accounts)
  BY ListsAssumption DEF Accounts
<1>2. k \in Continuation /\ DOMAIN k.balances = {}
  BY <1>1, BegunTyped
<1>3. k.pc = "batch" /\ k.names = list /\ k.offset = 0 /\ k.error = "none" /\ k.made <= Len(history)
  BY <1>1, BegunTyped DEF Begun
<1>4. Unique(list) \in Seq(Tokens) /\ Range(Unique(list)) = Range(list)
  BY <1>1, UniqueKeeps
<1> HIDE DEF k
<1>5. /\ v \in Continuation /\ DOMAIN v.balances = {} /\ v.names = list
      /\ v.error = "none" /\ v.made <= Len(history)
  BY <1>2, <1>3, <1>4 DEF Continuation
<1>6. CASE list = <<>>
  <2>1. v.pc = "resolved"
    BY <1>2, <1>6 DEF Continuation
  <2>2. Range(list) = {}
    BY <1>6 DEF Range
  <2>3. QueryInv(v)
    BY <1>5, <2>1, <2>2 DEF QueryInv
  <2> QED BY <1>5, <2>3, MakeKeeps DEF GetTokenBalances, k
<1>7. CASE list # <<>> /\ ~wellFormed
  <2>1. v.pc = "rejected"
    BY <1>2, <1>7 DEF Continuation
  <2>2. QueryInv(v)
    BY <1>5, <2>1 DEF QueryInv
  <2> QED BY <1>5, <2>2, MakeKeeps DEF GetTokenBalances, k
<1>8. CASE list # <<>> /\ wellFormed
  <2>1. v.pc = "batch" /\ v.tokens = Unique(list) /\ v.offset = 0
    BY <1>2, <1>3, <1>8 DEF Continuation
  <2>2. 0 < Len(Unique(list))
    <3>1. list[1] \in Range(list)
      BY <1>1, <1>8 DEF Range
    <3>2. Range(Unique(list)) # {}
      BY <1>4, <3>1
    <3> QED BY <1>4, <3>2 DEF Range
  <2>3. {v.tokens[i] : i \in 1..0} = {}
    OBVIOUS
  <2> HIDE DEF v
  <2>4. QueryInv(v)
    BY <1>4, <1>5, <2>1, <2>2, <2>3 DEF QueryInv
  <2> QED BY <1>5, <2>4, MakeKeeps DEF GetTokenBalances, k, v
<1> QED BY <1>6, <1>7, <1>8

\* A query that settles, with balances that each were an account's at a moment of the query.
LEMMA SettleKeeps ==
  ASSUME QueriesInv, NEW q \in Queries, Pc(q) # "idle",
         NEW pc \in {"balance", "resolved", "rejected"}, NEW balances \in Balances,
         Settle(q, pc, balances),
         pc = "balance" => \E a \in Accounts : queries[q].names = <<a>> /\ WasThere(queries[q], a),
         pc = "resolved" => DOMAIN balances = Range(queries[q].names),
         \A a \in DOMAIN balances : \E m \in Recent : balances[a] = m.amount[a]
  PROVE  QueriesInv'
<1> DEFINE k == [queries[q] EXCEPT !.pc = pc, !.balances = balances]
<1>1. queries[q] \in Continuation /\ queries \in [Queries -> {Idle} \cup Continuation]
  BY DEF QueriesInv, QueryInv
<1>2. queries' = [queries EXCEPT ![q] = k]
  BY <1>1 DEF Settle
<1>3. /\ k \in Continuation /\ k.pc = pc /\ k.balances = balances /\ k.names = queries[q].names
      /\ k.error = queries[q].error /\ k.made = queries[q].made
  BY <1>1 DEF Continuation
<1> HIDE DEF k
<1>4. /\ k.made <= Len(history) /\ Recent \subseteq MomentsFrom(k.made)
      /\ k.error = "missing" => Vanished(queries[q])
  <2>1. QueryInv(queries[q]) /\ history \in Seq(Moment)
    BY DEF QueriesInv
  <2>2. k.made \in Nat
    BY <1>3 DEF Continuation
  <2> QED BY <1>3, <2>1, <2>2, RecentMoments DEF QueryInv
<1>5. QueryInv(k)
  BY <1>3, <1>4 DEF QueryInv, WasThere, Vanished
<1> QED BY <1>2, <1>5, OneQuery DEF Settle

\* A query that fails; the error of a missing account takes one that came or went.
LEMMA ThrowKeeps ==
  ASSUME QueriesInv, NEW q \in Queries, Pc(q) # "idle",
         NEW error \in {"missing", "rpc"}, Throw(q, error),
         error = "missing" => Vanished(queries[q])
  PROVE  QueriesInv'
<1> DEFINE k == [queries[q] EXCEPT !.pc = "rejected", !.balances = <<>>, !.error = error]
<1>1. queries[q] \in Continuation /\ queries \in [Queries -> {Idle} \cup Continuation]
  BY DEF QueriesInv, QueryInv
<1>2. <<>> \in Balances /\ DOMAIN <<>> = {}
  <2>1. <<>> \in [{} -> Amounts] /\ DOMAIN <<>> = {}
    OBVIOUS
  <2> QED BY <2>1 DEF Balances
<1>3. queries' = [queries EXCEPT ![q] = k]
  BY <1>1 DEF Throw
<1>4. /\ k \in Continuation /\ k.pc = "rejected" /\ DOMAIN k.balances = {}
      /\ k.names = queries[q].names /\ k.error = error /\ k.made = queries[q].made
  BY <1>1, <1>2 DEF Continuation
<1> HIDE DEF k
<1>5. k.made <= Len(history)
  BY <1>4 DEF QueriesInv, QueryInv
<1>6. QueryInv(k)
  BY <1>4, <1>5 DEF QueryInv, Vanished
<1> QED BY <1>3, <1>6, OneQuery DEF Throw

\* The balance of a single account.
LEMMA SingleBalance ==
  ASSUME NEW a \in Accounts, NEW amount \in Amounts
  PROVE  /\ [x \in {a} |-> amount] \in Balances
         /\ DOMAIN [x \in {a} |-> amount] = Range(<<a>>)
<1>1. [x \in {a} |-> amount] \in [{a} -> Amounts] /\ {a} \in SUBSET Accounts
  OBVIOUS
<1>2. Range(<<a>>) = {a}
  BY DEF Range
<1> QED BY <1>1, <1>2 DEF Balances

\* The missing account that counts as empty was empty at the moment of the answer.
LEMMA AccountAnsweredKeeps ==
  ASSUME QueriesInv, NEW q \in Queries, AccountAnswered(q) PROVE QueriesInv'
<1>1. Pc(q) # "idle" /\ queries[q].pc = "account"
  BY DEF AccountAnswered, Pc
<1>2. PICK t \in Tokens : queries[q].names = <<t>>
  BY <1>1 DEF QueriesInv, QueryInv
<1>3. queries[q].names[1] = t /\ t \in Accounts
  BY <1>2 DEF Accounts
<1>4. PICK m \in Recent : IF t \in m.present THEN Settle(q, "balance", <<>>)
                           ELSE Settle(q, "resolved", [a \in {t} |-> 0])
  BY <1>3 DEF AccountAnswered
<1>7. history \in Seq(Moment) /\ m \in Moments
  BY RecentMoments DEF QueriesInv
<1>8. queries[q].made \in Nat /\ m \in MomentsFrom(queries[q].made)
  <2>1. queries[q] \in Continuation /\ queries[q].made <= Len(history)
    BY <1>1 DEF QueriesInv, QueryInv, Pc
  <2>2. queries[q].made \in Nat
    BY <2>1 DEF Continuation
  <2> QED BY <1>7, <2>1, <2>2, RecentMoments
<1>5. CASE t \in m.present
  <2>2. WasThere(queries[q], t)
    BY <1>5, <1>8 DEF WasThere
  <2>1. <<>> \in Balances /\ DOMAIN <<>> = {}
    <3>1. <<>> \in [{} -> Amounts] /\ DOMAIN <<>> = {}
      OBVIOUS
    <3> QED BY <3>1 DEF Balances
  <2> QED BY <1>1, <1>2, <1>3, <1>4, <1>5, <2>1, <2>2, SettleKeeps
<1>6. CASE t \notin m.present
  <2>1. m.amount[t] = 0
    BY <1>6, <1>7, MomentsTyped DEF Moment
  <2> DEFINE balances == [a \in {t} |-> 0]
  <2>2. balances \in Balances /\ DOMAIN balances = Range(queries[q].names)
    BY <1>2, <1>3, SingleBalance, AmountsAssumption
  <2>3. \A a \in DOMAIN balances : balances[a] = m.amount[a]
    BY <2>1
  <2>4. Settle(q, "resolved", balances)
    BY <1>4, <1>6
  <2> HIDE DEF balances
  <2> QED BY <1>1, <2>2, <2>3, <2>4, SettleKeeps
<1> QED BY <1>5, <1>6

LEMMA BalanceAnsweredKeeps ==
  ASSUME QueriesInv, NEW q \in Queries, BalanceAnswered(q) PROVE QueriesInv'
<1>1. Pc(q) # "idle" /\ queries[q].pc = "balance"
  BY DEF BalanceAnswered, Pc
<1>2. PICK a \in Accounts : queries[q].names = <<a>> /\ WasThere(queries[q], a)
  BY <1>1 DEF QueriesInv, QueryInv
<1>3. queries[q].names[1] = a
  BY <1>2
<1>4. PICK m \in Recent : IF a \in m.present \cup {Native}
                           THEN Settle(q, "resolved", [x \in {a} |-> m.amount[a]])
                           ELSE Throw(q, "missing")
  BY <1>3 DEF BalanceAnswered
<1>7. history \in Seq(Moment) /\ m \in Moments
  BY RecentMoments DEF QueriesInv
<1>5. CASE a \in m.present \cup {Native}
  <2> DEFINE balances == [x \in {a} |-> m.amount[a]]
  <2>1. m.amount[a] \in Amounts
    BY <1>7, MomentsTyped
  <2>2. balances \in Balances /\ DOMAIN balances = Range(queries[q].names)
    BY <1>2, <2>1, SingleBalance
  <2>3. \A x \in DOMAIN balances : balances[x] = m.amount[x]
    OBVIOUS
  <2>4. Settle(q, "resolved", balances)
    BY <1>4, <1>5
  <2> HIDE DEF balances
  <2> QED BY <1>1, <2>2, <2>3, <2>4, SettleKeeps
<1>6. CASE a \notin m.present \cup {Native}
  <2>1. queries[q] \in Continuation /\ queries[q].made <= Len(history)
    BY <1>1 DEF QueriesInv, QueryInv
  <2>2. queries[q].made \in Nat
    BY <2>1 DEF Continuation
  <2>3. m \in MomentsFrom(queries[q].made)
    BY <1>7, <2>1, <2>2, RecentMoments
  <2>4. Vanished(queries[q])
    BY <1>2, <1>3, <1>6, <2>3 DEF WasThere, Vanished
  <2> QED BY <1>1, <1>4, <1>6, <2>4, ThrowKeeps
<1> QED BY <1>5, <1>6

\* A batch adds the balances of its tokens, each paired with its own; the loop ends exactly when
\* no token is left.
LEMMA BatchAnsweredKeeps ==
  ASSUME QueriesInv, NEW q \in Queries, BatchAnswered(q) PROVE QueriesInv'
<1> DEFINE k == queries[q]
           n == BatchLen(k.tokens, k.offset)
           names == NamesOfBatch(q)
           asked == Slice(k.tokens, k.offset)
           found(m, i) == IF i \in DOMAIN asked THEN m.amount[asked[i]] ELSE 0
           balances(m) == [t \in DOMAIN k.balances \cup Range(names) |->
                             IF t \in Range(names) THEN found(m, CHOOSE i \in DOMAIN names : names[i] = t)
                             ELSE k.balances[t]]
           next(m) == [k EXCEPT !.offset = NextOffset(q), !.balances = balances(m),
                                !.pc = IF AskedAll(q, NextOffset(q)) THEN "resolved" ELSE "batch"]
<1>1. PICK m \in Recent : queries' = [queries EXCEPT ![q] = next(m)]
  BY DEF BatchAnswered
<1>2. k.pc = "batch" /\ QueryInv(k)
  BY DEF BatchAnswered, Pc, QueriesInv
<1>3. /\ k \in Continuation /\ k.tokens \in Seq(Tokens) /\ k.offset \in Nat /\ k.offset < Len(k.tokens)
      /\ Range(k.tokens) = Range(k.names) /\ k.made <= Len(history)
      /\ k.error = "missing" => Vanished(k)
      /\ DOMAIN k.balances = {k.tokens[i] : i \in 1..k.offset}
      /\ \A a \in DOMAIN k.balances : \E mm \in MomentsFrom(k.made) : k.balances[a] = mm.amount[a]
  BY <1>2 DEF QueryInv, Continuation
<1>4. m.amount \in [Accounts -> Amounts] /\ m \in MomentsFrom(k.made) /\ k.made <= Len(history)
  <2>1. history \in Seq(Moment) /\ k.made \in Nat /\ k.made <= Len(history)
    BY <1>3 DEF QueriesInv, Continuation
  <2> QED BY <2>1, RecentMoments, MomentsTyped
<1>5. k.balances \in [DOMAIN k.balances -> Amounts] /\ DOMAIN k.balances \subseteq Accounts
  BY <1>3 DEF Continuation, Balances
<1>6. /\ n \in 1..BatchSize /\ k.offset + n <= Len(k.tokens)
      /\ Len(k.tokens) <= k.offset + BatchSize => k.offset + n = Len(k.tokens)
      /\ k.offset + BatchSize < Len(k.tokens) => n = BatchSize
  BY <1>3, SliceIsBatch
<1>7. names = asked /\ Range(names) \subseteq Accounts
  <2>1. names = asked
    BY DEF NamesOfBatch
  <2>2. Range(names) \subseteq {k.tokens[i] : i \in 1..k.offset + n}
    BY <1>3, <2>1, BatchesAddUp
  <2>3. \A i \in 1..k.offset + n : k.tokens[i] \in Tokens
    BY <1>3, <1>6
  <2> QED BY <2>1, <2>2, <2>3 DEF Accounts
<1> DEFINE b == balances(m)
<1>8. /\ DOMAIN b = DOMAIN k.balances \cup Range(names)
      /\ \A t \in Range(names) : b[t] = m.amount[t]
      /\ \A t \in DOMAIN k.balances \ Range(names) : b[t] = k.balances[t]
  <2>1. ASSUME NEW t \in Range(names) PROVE b[t] = m.amount[t]
    <3> DEFINE i == CHOOSE i \in DOMAIN names : names[i] = t
    <3>1. i \in DOMAIN names /\ names[i] = t
      BY DEF Range
    <3>2. found(m, i) = m.amount[t]
      BY <1>7, <3>1
    <3> QED BY <3>2
  <2> QED BY <2>1
<1> HIDE DEF b
<1>9. DOMAIN b = {k.tokens[i] : i \in 1..k.offset + n}
  BY <1>3, <1>7, <1>8, BatchesAddUp
<1>10. b \in Balances /\ \A a \in DOMAIN b : \E mm \in MomentsFrom(k.made) : b[a] = mm.amount[a]
  <2>1. b \in [DOMAIN b -> Amounts]
    <3>1. b = [t \in DOMAIN b |-> b[t]]
      BY DEF b
    <3>2. \A t \in DOMAIN b : b[t] \in Amounts
      BY <1>4, <1>5, <1>7, <1>8
    <3> QED BY <3>1, <3>2
  <2>2. DOMAIN b \in SUBSET Accounts
    BY <1>5, <1>7, <1>8
  <2>3. \A a \in DOMAIN b : \E mm \in MomentsFrom(k.made) : b[a] = mm.amount[a]
    BY <1>3, <1>4, <1>8
  <2> QED BY <2>1, <2>2, <2>3 DEF Balances
<1>11. BatchSize \in Nat \ {0} /\ NextOffset(q) = k.offset + BatchSize
  BY BatchAssumption DEF NextOffset
<1> DEFINE v == next(m)
<1>12. /\ v \in Continuation /\ v.offset = k.offset + BatchSize /\ v.balances = b
       /\ v.names = k.names /\ v.tokens = k.tokens /\ v.error = k.error /\ v.made = k.made
       /\ v.pc = IF Len(k.tokens) <= k.offset + BatchSize THEN "resolved" ELSE "batch"
  <2> DEFINE pc == IF AskedAll(q, NextOffset(q)) THEN "resolved" ELSE "batch"
  <2>1. v = [k EXCEPT !.offset = NextOffset(q), !.balances = b, !.pc = pc]
    BY DEF b
  <2>2. pc = IF Len(k.tokens) <= k.offset + BatchSize THEN "resolved" ELSE "batch"
    BY <1>11 DEF AskedAll
  <2>3. NextOffset(q) \in Nat
    BY <1>3, <1>11
  <2> HIDE DEF pc, v, k
  <2> QED BY <1>3, <1>10, <1>11, <2>1, <2>2, <2>3 DEF Continuation
<1> HIDE DEF v
<1>13. CASE Len(k.tokens) <= k.offset + BatchSize
  <2>1. v.pc = "resolved" /\ k.offset + n = Len(k.tokens)
    BY <1>6, <1>12, <1>13
  <2>2. DOMAIN b = Range(k.names)
    <3>1. Range(k.tokens) = {k.tokens[i] : i \in 1..Len(k.tokens)}
      BY <1>3 DEF Range
    <3> QED BY <1>3, <1>9, <2>1, <3>1
  <2>3. QueryInv(v)
    BY <1>3, <1>10, <1>12, <2>1, <2>2 DEF QueryInv, Vanished
  <2> QED BY <1>1, <2>3, OneQuery DEF BatchAnswered, v
<1>14. CASE k.offset + BatchSize < Len(k.tokens)
  <2>1. v.pc = "batch" /\ n = BatchSize
    BY <1>3, <1>6, <1>11, <1>12, <1>14
  <2>2. DOMAIN v.balances = {v.tokens[i] : i \in 1..v.offset}
    BY <1>9, <1>12, <2>1
  <2>3. QueryInv(v)
    BY <1>3, <1>10, <1>12, <1>14, <2>1, <2>2 DEF QueryInv, Vanished
  <2> QED BY <1>1, <2>3, OneQuery DEF BatchAnswered, v
<1> QED BY <1>3, <1>11, <1>13, <1>14

\* A change of the chain makes one more moment and takes none away.
LEMMA ChangeKeeps ==
  ASSUME QueriesInv, NEW a \in Accounts, Change(a) PROVE QueriesInv'
<1>1. PICK m \in Moment : history' = Append(history, m)
  BY DEF Change
<1>2. history \in Seq(Moment) /\ UNCHANGED <<rpc, queries>>
  BY DEF QueriesInv, Change
<1>3. history' \in Seq(Moment) /\ history' # <<>>
  BY <1>1, <1>2
<1>4. (\A n : MomentsFrom(n) \subseteq MomentsFrom(n)') /\ Len(history) <= Len(history')
  <2>1. \A i \in 1..Len(history) : i \in DOMAIN history' /\ history'[i] = history[i]
    BY <1>1, <1>2
  <2>2. DOMAIN history = 1..Len(history)
    BY <1>2
  <2>3. Len(history) <= Len(history')
    BY <1>1, <1>2
  <2> QED BY <2>1, <2>2, <2>3 DEF MomentsFrom
<1>5. ASSUME NEW q \in Queries, Pc(q) # "idle" PROVE QueryInv(queries[q])'
  <2>1. QueryInv(queries[q])
    BY <1>5 DEF QueriesInv
  <2>2. queries[q].made \in Nat /\ Len(history) \in Nat /\ Len(history') \in Nat
    BY <1>2, <1>3, <2>1 DEF QueryInv, Continuation
  <2> QED BY <1>2, <1>4, <2>1, <2>2 DEF QueryInv, WasThere, Vanished
<1> QED BY <1>2, <1>3, <1>5 DEF QueriesInv, Pc

LEMMA QueriesInit == Init => QueriesInv
<1> SUFFICES ASSUME Init PROVE QueriesInv
  OBVIOUS
<1>1. history \in Seq(Moment) /\ history # <<>>
  <2>1. PICK m \in Moment : history = <<m>>
    BY DEF Init
  <2> HIDE DEF Init
  <2> QED BY <2>1
<1> QED BY <1>1 DEF Init, QueriesInv, Pc, Idle

LEMMA QueriesStep == QueriesInv /\ [Next]_vars => QueriesInv'
<1> SUFFICES ASSUME QueriesInv, [Next]_vars PROVE QueriesInv'
  OBVIOUS
<1>1. ASSUME NEW q \in Queries, RequestFails(q) PROVE QueriesInv'
  <2>1. Pc(q) # "idle" /\ Throw(q, "rpc")
    BY <1>1 DEF RequestFails
  <2> QED BY <2>1, ThrowKeeps
<1>2. ASSUME NEW q \in Queries, Resume(q) PROVE QueriesInv'
  BY <1>1, <1>2, AccountAnsweredKeeps, BalanceAnsweredKeeps, BatchAnsweredKeeps DEF Resume
<1>3. CASE UNCHANGED vars
  <2>1. UNCHANGED <<rpc, history, queries>>
    BY <1>3 DEF vars
  <2> QED BY <2>1 DEF QueriesInv, QueryInv, MomentsFrom, WasThere, Vanished, Pc
<1> QED
  BY <1>2, <1>3, ChangeKeeps, GetBalanceKeeps, GetTokenBalanceKeeps, GetTokenBalancesKeeps DEF Next

\* In every behaviour each query has what its place in the code says it has.
THEOREM QueriesInvariant == Spec => []QueriesInv
BY QueriesInit, QueriesStep, PTL DEF Spec

-----------------------------------------------------------------------------
(* The properties. *)

\* The state is well typed, and a query in its loop has a batch left to ask for.
THEOREM QueriesTypeCorrect == Spec => []TypeOK
<1>1. QueriesInv => TypeOK
  <2> SUFFICES ASSUME QueriesInv PROVE TypeOK
    OBVIOUS
  <2>1. Moments \subseteq Moment
    BY MomentsTyped DEF QueriesInv
  <2>2. ASSUME NEW q \in Queries, Pc(q) # "idle"
        PROVE  /\ Pc(q) \in {"balance", "account", "batch", "resolved", "rejected"}
               /\ DOMAIN queries[q].balances \subseteq Accounts
               /\ \A a \in DOMAIN queries[q].balances : queries[q].balances[a] \in Amounts
               /\ Pc(q) = "batch" => queries[q].offset < Len(queries[q].tokens)
    BY <2>2 DEF QueriesInv, QueryInv, Continuation, Balances, Pc
  <2> QED BY <2>1, <2>2 DEF TypeOK, QueriesInv
<1> QED BY <1>1, QueriesInvariant, PTL

\* Every balance of a result is one that this account had while the query was under way, or at most
\* MaxLag changes before it was made, whichever nodes answer.
THEOREM BalancesWereTrueHolds == Spec => []BalancesWereTrue
<1>1. QueriesInv => BalancesWereTrue
  BY DEF QueriesInv, QueryInv, BalancesWereTrue, Resolved, Pc
<1> QED BY <1>1, QueriesInvariant, PTL

\* A query fails for an account that is missing only if that account came or went around it.
THEOREM MissingOnlyIfChangedHolds == Spec => []MissingOnlyIfChanged
<1>1. QueriesInv => MissingOnlyIfChanged
  BY DEF QueriesInv, QueryInv, Vanished, MissingOnlyIfChanged, Pc
<1> QED BY <1>1, QueriesInvariant, PTL

\* A result holds the accounts asked for and no other, for lists of any length and any size of a
\* batch.
THEOREM EveryTokenIsAnsweredHolds == Spec => []EveryTokenIsAnswered
<1>1. QueriesInv => EveryTokenIsAnswered
  BY DEF QueriesInv, QueryInv, EveryTokenIsAnswered, Resolved, Pc
<1> QED BY <1>1, QueriesInvariant, PTL
=============================================================================
