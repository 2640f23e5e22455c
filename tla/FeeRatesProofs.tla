--------------------------- MODULE FeeRatesProofs ---------------------------
(***************************************************************************)
(* Theorems about FeeRates, for every set of fees a node may report and    *)
(* any number of them.                                                     *)
(***************************************************************************)
EXTENDS FeeRates, Scans

-----------------------------------------------------------------------------
(* The reduce and the filter. *)

\* The reduce of getFeeRates goes through the fees as its definition says.
LEMMA LargestFeeScans ==
  ASSUME NEW fees \in Seq(Nat)
  PROVE  \E max :
           /\ LargestFee(fees) = max[Len(fees)]
           /\ max[0] = 0
           /\ \A n \in 1..Len(fees) : max[n] = IF fees[n] > max[n-1] THEN fees[n] ELSE max[n-1]
<1> DEFINE N == Len(fees)
           step == [p \in Nat \X (1..N) |-> IF fees[p[2]] > p[1] THEN fees[p[2]] ELSE p[1]]
           Recursion(f) == [n \in 0..N |-> IF n = 0 THEN 0
                                           ELSE IF fees[n] > f[n-1] THEN fees[n] ELSE f[n-1]]
           max == CHOOSE f : f = Recursion(f)
<1>1. N \in Nat /\ \A i \in 1..N : fees[i] \in Nat
  OBVIOUS
<1>2. PICK f : IsScan(f, Nat, N, 0, step)
  <2>1. step \in StepFunctions(Nat, N)
    BY <1>1 DEF StepFunctions
  <2> HIDE DEF step, N
  <2> QED BY <1>1, <2>1, ScanExists
<1>3. f \in [0..N -> Nat] /\ f[0] = 0
  BY <1>2 DEF IsScan
<1>4. ASSUME NEW n \in 1..N PROVE f[n] = IF fees[n] > f[n-1] THEN fees[n] ELSE f[n-1]
  <2>1. <<f[n-1], n>> \in Nat \X (1..N)
    <3>1. n - 1 \in 0..N
      BY <1>1
    <3> HIDE DEF N
    <3> QED BY <1>3, <3>1
  <2>2. f[n] = step[<<f[n-1], n>>]
    BY <1>2 DEF IsScan
  <2> QED BY <2>1, <2>2
<1>5. f = Recursion(f)
  BY <1>1, <1>3, <1>4
<1>6. max = Recursion(max)
  BY <1>5
<1>7. LargestFee(fees) = max[N]
  BY DEF LargestFee
<1> HIDE DEF max
<1>8. \A n \in 0..N : max[n] = IF n = 0 THEN 0 ELSE IF fees[n] > max[n-1] THEN fees[n] ELSE max[n-1]
  BY <1>6
<1>9. max[0] = 0 /\ \A n \in 1..N : max[n] = IF fees[n] > max[n-1] THEN fees[n] ELSE max[n-1]
  BY <1>1, <1>8
<1> QED BY <1>7, <1>9

\* The result of the reduce is the largest of the fees, or zero when there is none.
LEMMA LargestFeeIsLargest ==
  ASSUME NEW fees \in Seq(Nat)
  PROVE  /\ LargestFee(fees) \in Nat
         /\ \A i \in 1..Len(fees) : fees[i] <= LargestFee(fees)
         /\ Len(fees) > 0 => \E i \in 1..Len(fees) : fees[i] = LargestFee(fees)
<1> DEFINE N == Len(fees)
<1>1. N \in Nat /\ \A i \in 1..N : fees[i] \in Nat
  OBVIOUS
<1> HIDE DEF N
<1>2. PICK max : /\ LargestFee(fees) = max[N]
                 /\ max[0] = 0
                 /\ \A n \in 1..N : max[n] = IF fees[n] > max[n-1] THEN fees[n] ELSE max[n-1]
  BY LargestFeeScans DEF N
<1> DEFINE Largest(n) == /\ max[n] \in Nat
                         /\ \A i \in 1..n : fees[i] <= max[n]
                         /\ n > 0 => \E i \in 1..n : fees[i] = max[n]
           T == {n \in Nat : Largest(n)}
<1>3. 0 \in T
  BY <1>2
<1>4. ASSUME NEW n \in 0..N - 1, n \in T PROVE n + 1 \in T
  <2>1. Largest(n)
    BY <1>4
  <2>2. n + 1 \in 1..N /\ (n + 1) - 1 = n /\ n \in Nat
    BY <1>1
  <2>3. max[n + 1] = IF fees[n + 1] > max[n] THEN fees[n + 1] ELSE max[n]
    BY <1>2, <2>2
  <2>4. fees[n + 1] \in Nat /\ \A i \in 1..n : fees[i] \in Nat
    BY <1>1, <2>2
  <2>5. max[n + 1] \in Nat /\ max[n] <= max[n + 1] /\ fees[n + 1] <= max[n + 1]
    BY <2>1, <2>3, <2>4
  <2>6. ASSUME NEW i \in 1..n + 1 PROVE fees[i] <= max[n + 1]
    <3>1. CASE i = n + 1
      BY <2>5, <3>1
    <3>2. CASE i \in 1..n
      <4>1. fees[i] \in Nat /\ fees[i] <= max[n]
        BY <2>1, <2>4, <3>2
      <4> QED BY <2>1, <2>5, <4>1
    <3> QED BY <2>2, <3>1, <3>2
  <2>7. \E i \in 1..n + 1 : fees[i] = max[n + 1]
    <3>1. CASE max[n + 1] = fees[n + 1]
      BY <2>2, <3>1
    <3>2. CASE max[n + 1] = max[n] /\ n > 0
      BY <2>1, <2>2, <3>2
    <3>3. CASE max[n + 1] = max[n] /\ n = 0
      BY <1>2, <2>2, <2>3, <2>4, <3>3
    <3> QED BY <2>2, <2>3, <3>1, <3>2, <3>3
  <2> QED BY <2>2, <2>5, <2>6, <2>7
<1>5. N \in T
  <2>1. N \in Nat
    BY <1>1
  <2>2. 0..N \subseteq T
    <3> HIDE DEF T
    <3> QED BY <1>3, <1>4, <2>1, IntervalInduction
  <2> QED BY <2>1, <2>2
<1> QED BY <1>2, <1>5 DEF N

\* The filter of getFeeRates goes through the fees as its definition says.
LEMMA NonZeroFeesScans ==
  ASSUME NEW fees \in Seq(Nat)
  PROVE  \E kept :
           /\ NonZeroFees(fees) = kept[Len(fees)]
           /\ kept[0] = <<>>
           /\ \A n \in 1..Len(fees) :
                kept[n] = IF fees[n] > 0 THEN Append(kept[n-1], fees[n]) ELSE kept[n-1]
<1> DEFINE N == Len(fees)
           step == [p \in Seq(Nat) \X (1..N) |->
                      IF fees[p[2]] > 0 THEN Append(p[1], fees[p[2]]) ELSE p[1]]
           Recursion(f) == [n \in 0..N |-> IF n = 0 THEN <<>>
                                           ELSE IF fees[n] > 0 THEN Append(f[n-1], fees[n]) ELSE f[n-1]]
           kept == CHOOSE f : f = Recursion(f)
<1>1. N \in Nat /\ \A i \in 1..N : fees[i] \in Nat
  OBVIOUS
<1>2. PICK f : IsScan(f, Seq(Nat), N, <<>>, step)
  <2>1. step \in StepFunctions(Seq(Nat), N)
    <3>1. ASSUME NEW p \in Seq(Nat) \X (1..N)
          PROVE  (IF fees[p[2]] > 0 THEN Append(p[1], fees[p[2]]) ELSE p[1]) \in Seq(Nat)
      <4>1. p[1] \in Seq(Nat) /\ fees[p[2]] \in Nat
        BY <1>1
      <4> QED BY <4>1
    <3> QED BY <3>1 DEF StepFunctions
  <2>2. <<>> \in Seq(Nat)
    OBVIOUS
  <2> HIDE DEF step, N
  <2> QED BY <1>1, <2>1, <2>2, ScanExists
<1>3. f \in [0..N -> Seq(Nat)] /\ f[0] = <<>>
  BY <1>2 DEF IsScan
<1>4. ASSUME NEW n \in 1..N PROVE f[n] = IF fees[n] > 0 THEN Append(f[n-1], fees[n]) ELSE f[n-1]
  <2>1. <<f[n-1], n>> \in Seq(Nat) \X (1..N)
    <3>1. n - 1 \in 0..N
      BY <1>1
    <3> HIDE DEF N
    <3> QED BY <1>3, <3>1
  <2>2. f[n] = step[<<f[n-1], n>>]
    BY <1>2 DEF IsScan
  <2> QED BY <2>1, <2>2
<1>5. f = Recursion(f)
  <2>1. ASSUME NEW n \in 0..N
        PROVE  f[n] = IF n = 0 THEN <<>>
                      ELSE IF fees[n] > 0 THEN Append(f[n-1], fees[n]) ELSE f[n-1]
    <3>1. CASE n = 0
      BY <1>3, <3>1
    <3>2. CASE n \in 1..N
      BY <1>4, <3>2
    <3> QED BY <1>1, <3>1, <3>2
  <2> HIDE DEF N
  <2> QED BY <1>3, <2>1
<1>6. kept = Recursion(kept)
  BY <1>5
<1>7. NonZeroFees(fees) = kept[N]
  BY DEF NonZeroFees
<1> HIDE DEF kept
<1>8. \A n \in 0..N : kept[n] = IF n = 0 THEN <<>>
                                ELSE IF fees[n] > 0 THEN Append(kept[n-1], fees[n]) ELSE kept[n-1]
  BY <1>6
<1>9. kept[0] = <<>> /\ \A n \in 1..N : kept[n] = IF fees[n] > 0 THEN Append(kept[n-1], fees[n]) ELSE kept[n-1]
  BY <1>1, <1>8
<1> QED BY <1>7, <1>9

\* The filter keeps the fees that are not zero, all of them and no other.
LEMMA NonZeroFeesKeeps ==
  ASSUME NEW fees \in Seq(Nat)
  PROVE  /\ NonZeroFees(fees) \in Seq(Nat)
         /\ Range(NonZeroFees(fees)) = Range(fees) \ {0}
<1> DEFINE N == Len(fees)
<1>1. N \in Nat /\ \A i \in 1..N : fees[i] \in Nat
  OBVIOUS
<1>2. Range(fees) = {fees[i] : i \in 1..N}
  BY DEF Range
<1> HIDE DEF N
<1>3. PICK kept : /\ NonZeroFees(fees) = kept[N]
                  /\ kept[0] = <<>>
                  /\ \A n \in 1..N : kept[n] = IF fees[n] > 0 THEN Append(kept[n-1], fees[n]) ELSE kept[n-1]
  BY NonZeroFeesScans DEF N
<1> DEFINE Kept(n) == kept[n] \in Seq(Nat) /\ Range(kept[n]) = {fees[i] : i \in 1..n} \ {0}
           T == {n \in Nat : Kept(n)}
<1>4. 0 \in T
  <2>1. Range(kept[0]) = {}
    BY <1>3 DEF Range
  <2>2. {fees[i] : i \in 1..0} = {}
    OBVIOUS
  <2>3. kept[0] \in Seq(Nat)
    BY <1>3
  <2> QED BY <2>1, <2>2, <2>3
<1>5. ASSUME NEW n \in 0..N - 1, n \in T PROVE n + 1 \in T
  <2>1. Kept(n)
    BY <1>5
  <2>2. n + 1 \in 1..N /\ (n + 1) - 1 = n /\ n \in Nat
    BY <1>1
  <2>3. kept[n + 1] = IF fees[n + 1] > 0 THEN Append(kept[n], fees[n + 1]) ELSE kept[n]
    BY <1>3, <2>2
  <2>4. fees[n + 1] \in Nat
    BY <1>1, <2>2
  <2>5. {fees[i] : i \in 1..n + 1} = {fees[i] : i \in 1..n} \cup {fees[n + 1]}
    BY <2>2
  <2>6. CASE fees[n + 1] > 0
    <3>1. kept[n + 1] \in Seq(Nat) /\ Range(kept[n + 1]) = Range(kept[n]) \cup {fees[n + 1]}
      BY <2>1, <2>3, <2>4, <2>6, RangeOfAppend
    <3> QED BY <2>1, <2>2, <2>4, <2>5, <2>6, <3>1
  <2>7. CASE fees[n + 1] = 0
    BY <2>1, <2>2, <2>3, <2>5, <2>7
  <2> QED BY <2>4, <2>6, <2>7
<1>6. N \in T
  <2>1. N \in Nat
    BY <1>1
  <2>2. 0..N \subseteq T
    <3> HIDE DEF T
    <3> QED BY <1>4, <1>5, <2>1, IntervalInduction
  <2> HIDE DEF T
  <2> QED BY <2>1, <2>2
<1> QED BY <1>2, <1>3, <1>6

\* The base fee is the largest fee that is not zero, or the default; it is never zero.
LEMMA BaseFeeIsLargest ==
  ASSUME NEW fees \in Seq(Nat)
  PROVE  LET paid == Range(fees) \ {0} IN
         /\ BaseFee(fees) \in Nat \ {0}
         /\ \A fee \in paid : fee <= BaseFee(fees)
         /\ BaseFee(fees) = IF paid = {} THEN DEFAULT_BASE_FEE ELSE Max(paid)
<1> DEFINE paid == Range(fees) \ {0}
           kept == NonZeroFees(fees)
<1>1. kept \in Seq(Nat) /\ Range(kept) = paid
  BY NonZeroFeesKeeps
<1>2. Len(kept) \in Nat /\ paid = {kept[i] : i \in 1..Len(kept)} /\ paid \subseteq Nat \ {0}
  <2>1. paid \subseteq Nat \ {0}
    BY DEF Range
  <2> HIDE DEF kept, paid
  <2>2. Len(kept) \in Nat /\ DOMAIN kept = 1..Len(kept)
    BY <1>1
  <2>3. paid = {kept[i] : i \in DOMAIN kept}
    BY <1>1 DEF Range
  <2> QED BY <2>1, <2>2, <2>3
<1>3. CASE Len(kept) = 0
  <2>1. paid = {}
    BY <1>2, <1>3
  <2>2. BaseFee(fees) = DEFAULT_BASE_FEE
    BY <1>3 DEF BaseFee
  <2> QED BY <2>1, <2>2 DEF DEFAULT_BASE_FEE
<1>4. CASE Len(kept) > 0
  <2> DEFINE fee == LargestFee(kept)
  <2> HIDE DEF kept
  <2>1. /\ fee \in Nat
        /\ \A i \in 1..Len(kept) : kept[i] <= fee
        /\ \E i \in 1..Len(kept) : kept[i] = fee
    BY <1>1, <1>4, LargestFeeIsLargest
  <2> HIDE DEF fee, paid
  <2>2. fee \in paid /\ \A x \in paid : x <= fee
    BY <1>2, <2>1
  <2>3. Max(paid) = fee
    <3>1. \A x \in paid : fee >= x
      BY <1>2, <2>1, <2>2
    <3>2. \A y \in paid : (\A x \in paid : y >= x) => y = fee
      BY <1>2, <2>1, <2>2
    <3> QED BY <2>2, <3>1, <3>2 DEF Max
  <2>4. BaseFee(fees) = fee
    BY <1>4 DEF BaseFee, kept, fee
  <2> QED BY <1>2, <2>2, <2>3, <2>4 DEF paid
<1> QED BY <1>2, <1>3, <1>4

\* A rate is the exact multiple, less the part of a lamport that the division drops.
LEMMA RateTruncates ==
  ASSUME NEW fee \in Nat, NEW multiplier \in Nat
  PROVE  /\ Rate(fee, multiplier) \in Nat
         /\ Rate(fee, multiplier) * 100 <= fee * multiplier
         /\ fee * multiplier < (Rate(fee, multiplier) + 1) * 100
<1> DEFINE product == fee * multiplier
<1>1. product \in Nat
  OBVIOUS
<1> HIDE DEF product
<1>2. /\ product \div 100 \in Nat
      /\ (product \div 100) * 100 <= product
      /\ product < (product \div 100 + 1) * 100
  BY <1>1
<1> QED BY <1>2 DEF Rate, product

-----------------------------------------------------------------------------
(* The manager's state. *)

\* What is reported are fees; a result was computed from the report.
RatesInv ==
  /\ report \in Seq(Nat)
  /\ Resolved =>
       rates = [normal |-> Rate(BaseFee(report), FEE_RATE_NORMAL_MULTIPLIER),
                fast |-> Rate(BaseFee(report), FEE_RATE_FAST_MULTIPLIER)]

LEMMA RatesInit == Init => RatesInv
BY DEF Init, RatesInv, Resolved

LEMMA RatesStep == RatesInv /\ [Next]_vars => RatesInv'
<1> SUFFICES ASSUME RatesInv, [Next]_vars PROVE RatesInv'
  OBVIOUS
<1>1. CASE GetFeeRates
  BY <1>1 DEF GetFeeRates, RatesInv, Resolved
<1>2. CASE Answered
  <2>1. PICK n \in 0..MaxReports : report' \in [1..n -> Fees]
    BY <1>2 DEF Answered
  <2>2. report' \in Seq(Nat)
    <3>1. n \in Nat
      BY ReportsAssumption
    <3>2. \A i \in 1..n : report'[i] \in Nat
      BY <2>1, FeesAssumption
    <3>3. report' \in [1..n -> Nat]
      BY <2>1, <3>2
    <3> QED BY <3>1, <3>3
  <2> QED BY <1>2, <2>2 DEF Answered, RatesInv, Resolved
<1>3. CASE RequestFails
  BY <1>3 DEF RequestFails, RatesInv, Resolved
<1>4. CASE UNCHANGED vars
  BY <1>4 DEF vars, RatesInv, Resolved
<1> QED BY <1>1, <1>2, <1>3, <1>4 DEF Next

LEMMA RatesInvariant == Spec => []RatesInv
BY RatesInit, RatesStep, PTL DEF Spec

-----------------------------------------------------------------------------
(* The properties. *)

\* Whatever fees the node reports, and however many, no rate is below a fee that was paid, the
\* fast rate is not below the normal one, and neither is zero.
THEOREM RatesCoverEveryFeeHolds == Spec => []RatesCoverEveryFee
<1>1. RatesInv => RatesCoverEveryFee
  <2> SUFFICES ASSUME RatesInv, Resolved
               PROVE  /\ \A i \in DOMAIN report : report[i] <= rates.normal
                      /\ rates.normal <= rates.fast
                      /\ 0 < rates.normal
    BY DEF RatesCoverEveryFee
  <2> DEFINE fee == BaseFee(report)
  <2>1. report \in Seq(Nat)
    BY DEF RatesInv
  <2>2. fee \in Nat \ {0} /\ \A x \in Range(report) \ {0} : x <= fee
    BY <2>1, BaseFeeIsLargest
  <2> HIDE DEF fee
  <2>3. /\ rates.normal = Rate(fee, 110) /\ rates.fast = Rate(fee, 200)
    BY DEF RatesInv, fee, FEE_RATE_NORMAL_MULTIPLIER, FEE_RATE_FAST_MULTIPLIER
  <2>4. /\ rates.normal \in Nat /\ fee * 110 < (rates.normal + 1) * 100 /\ rates.normal * 100 <= fee * 110
        /\ rates.fast \in Nat /\ fee * 200 < (rates.fast + 1) * 100
    <3>1. \A multiplier \in Nat :
            /\ Rate(fee, multiplier) \in Nat
            /\ Rate(fee, multiplier) * 100 <= fee * multiplier
            /\ fee * multiplier < (Rate(fee, multiplier) + 1) * 100
      BY <2>2, RateTruncates
    <3> QED BY <2>3, <3>1
  <2>5. fee <= rates.normal /\ rates.normal <= rates.fast
    BY <2>2, <2>4
  <2>6. ASSUME NEW i \in DOMAIN report PROVE report[i] <= rates.normal
    <3>1. report[i] \in Nat /\ report[i] \in Range(report)
      BY <2>1 DEF Range
    <3>2. report[i] <= fee
      BY <2>2, <3>1
    <3> QED BY <2>2, <2>4, <2>5, <3>1, <3>2
  <2> QED BY <2>2, <2>4, <2>5, <2>6
<1> QED BY <1>1, RatesInvariant, PTL

\* The rates are the multiples of the largest fee that is not zero, rounded down.
THEOREM RatesFollowTheLargestFeeHolds == Spec => []RatesFollowTheLargestFee
<1>1. RatesInv => RatesFollowTheLargestFee
  <2> SUFFICES ASSUME RatesInv, Resolved PROVE RatesFollowTheLargestFee
    BY DEF RatesFollowTheLargestFee
  <2> DEFINE fee == BaseFee(report)
  <2>1. fee \in Nat /\ fee = IF Range(report) \ {0} = {} THEN DEFAULT_BASE_FEE ELSE Max(Range(report) \ {0})
    BY BaseFeeIsLargest DEF RatesInv
  <2>2. /\ rates.normal = Rate(fee, FEE_RATE_NORMAL_MULTIPLIER)
        /\ rates.fast = Rate(fee, FEE_RATE_FAST_MULTIPLIER)
    BY DEF RatesInv
  <2> HIDE DEF fee
  <2>3. FEE_RATE_NORMAL_MULTIPLIER \in Nat /\ FEE_RATE_FAST_MULTIPLIER \in Nat
    BY DEF FEE_RATE_NORMAL_MULTIPLIER, FEE_RATE_FAST_MULTIPLIER
  <2>4. /\ rates.normal * 100 <= fee * FEE_RATE_NORMAL_MULTIPLIER
        /\ fee * FEE_RATE_NORMAL_MULTIPLIER < (rates.normal + 1) * 100
    BY <2>1, <2>2, <2>3, RateTruncates
  <2>5. /\ rates.fast * 100 <= fee * FEE_RATE_FAST_MULTIPLIER
        /\ fee * FEE_RATE_FAST_MULTIPLIER < (rates.fast + 1) * 100
    BY <2>1, <2>2, <2>3, RateTruncates
  <2> QED BY <2>1, <2>4, <2>5 DEF RatesFollowTheLargestFee
<1> QED BY <1>1, RatesInvariant, PTL
=============================================================================
