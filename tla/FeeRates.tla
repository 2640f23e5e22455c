------------------------------ MODULE FeeRates ------------------------------
(***************************************************************************)
(* getFeeRates of the wallet manager: the rates are computed from the      *)
(* largest of the recent prioritization fees that is not zero, or from a   *)
(* default when there is none, in integers.                                *)
(***************************************************************************)
EXTENDS Naturals, Sequences, FiniteSetsExt, SequencesExt

CONSTANTS
  Fees,        \* the prioritization fees a node may report
  MaxReports   \* bound: how many fees a node reports at most

ASSUME FeesAssumption == Fees \subseteq Nat
ASSUME ReportsAssumption == MaxReports \in Nat

VARIABLES
  rpc,      \* whether the manager's _rpc is set
  query,    \* what has become of a call of getFeeRates
  report,   \* the answer of the node
  rates     \* the result

vars == <<rpc, query, report, rates>>

FEE_RATE_NORMAL_MULTIPLIER == 110
FEE_RATE_FAST_MULTIPLIER == 200
DEFAULT_BASE_FEE == 5000

NoRates == [normal |-> 0, fast |-> 0]

Init ==
  /\ rpc \in BOOLEAN
  /\ query = "idle"
  /\ report = <<>>
  /\ rates = NoRates

GetFeeRates ==
  /\ query = "idle"
  /\ query' = IF rpc THEN "requested" ELSE "rejected"
  /\ UNCHANGED <<rpc, report, rates>>

\* Mutant: the last fee instead of the largest.
LargestFee_Last(fees) == Last(fees)

\* reduce((max, fee) => (fee > max ? fee : max), 0n)
LargestFee(fees) ==
  LET max[n \in 0..Len(fees)] ==
        IF n = 0 THEN 0 ELSE IF fees[n] > max[n-1] THEN fees[n] ELSE max[n-1] IN
  max[Len(fees)]

\* filter((fee) => fee.prioritizationFee > 0)
NonZeroFees(fees) ==
  LET kept[n \in 0..Len(fees)] ==
        IF n = 0 THEN <<>> ELSE IF fees[n] > 0 THEN Append(kept[n-1], fees[n]) ELSE kept[n-1] IN
  kept[Len(fees)]

\* Mutant: the default is for an empty report only.
BaseFee_KeepsZeroes(fees) == IF fees = <<>> THEN DEFAULT_BASE_FEE ELSE LargestFee(fees)

BaseFee(fees) ==
  LET nonZeroFees == NonZeroFees(fees) IN
  IF Len(nonZeroFees) > 0 THEN LargestFee(nonZeroFees) ELSE DEFAULT_BASE_FEE

\* Mutant: the division comes first.
Rate_DividesFirst(fee, multiplier) == (fee \div 100) * multiplier

\* Division of BigInts truncates.
Rate(fee, multiplier) == (fee * multiplier) \div 100

Answered ==
  /\ query = "requested"
  /\ report' \in UNION {[1..n -> Fees] : n \in 0..MaxReports}
  /\ query' = "resolved"
  /\ rates' = LET fee == BaseFee(report') IN
              [normal |-> Rate(fee, FEE_RATE_NORMAL_MULTIPLIER), fast |-> Rate(fee, FEE_RATE_FAST_MULTIPLIER)]
  /\ UNCHANGED rpc

RequestFails ==
  /\ query = "requested"
  /\ query' = "rejected"
  /\ UNCHANGED <<rpc, report, rates>>

Next == GetFeeRates \/ Answered \/ RequestFails

Spec == Init /\ [][Next]_vars

-----------------------------------------------------------------------------
(* Correctness. *)

Resolved == query = "resolved"

\* A result is never below what any of the recent transactions paid, the fast rate never below
\* the normal one, and neither is ever zero, whatever zeroes and rounding the fees bring.
RatesCoverEveryFee ==
  Resolved =>
    /\ \A i \in DOMAIN report : report[i] <= rates.normal
    /\ rates.normal <= rates.fast
    /\ 0 < rates.normal

\* The rates are the exact multiples of the largest fee, less the part of a lamport that the
\* division drops; zeroes count as no fee at all.
RatesFollowTheLargestFee ==
  Resolved =>
    LET paid == Range(report) \ {0}
        fee == IF paid = {} THEN DEFAULT_BASE_FEE ELSE Max(paid)
        near(rate, multiplier) == rate * 100 <= fee * multiplier /\ fee * multiplier < (rate + 1) * 100 IN
    /\ near(rates.normal, FEE_RATE_NORMAL_MULTIPLIER)
    /\ near(rates.fast, FEE_RATE_FAST_MULTIPLIER)
=============================================================================
