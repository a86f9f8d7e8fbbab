----------------------------- MODULE MCOffices -----------------------------
(* The services of Offices on small desks.                                 *)
EXTENDS Offices

CONSTANTS a1, a2, a3

(* Variation margin of either sign, and what a dispute may settle on.      *)
MTMset == {-3, 5}
Agreed == {-1, 3, 5}

(* One asset changes its price; the haircuts are all different.            *)
Haircuts == [a \in Assets |-> IF a = a1 THEN 20 ELSE IF a = a2 THEN 50 ELSE 60]
AssetPrices == [a \in Assets |-> IF a = a1 THEN {1, 2} ELSE {1}]

(* Statement lines that may match, that have no reference, that match none. *)
Line(type, amount, our, their) ==
  [type |-> type, amount |-> amount, our |-> our, their |-> their]
Lines == {Line("DEBIT", 1, "A", "B"), Line("CREDIT", 1, "B", "A"), Line("CREDIT", 1, "", "A"),
          Line("CREDIT", 2, "C", "A")}

(* A header, two accounts that sweep and one that does not.                *)
Targets == [a \in 1..4 |-> IF a = 3 THEN 2 ELSE IF a = 2 THEN 1 ELSE 0]
Sweeping == [a \in 1..4 |-> a # 4]
Reported == {-2, 0, 3}
HeaderFloor == -1

(* A daily report and one whose gap is longer than what is remembered.     *)
Gaps == [r \in Reports |-> IF r = "annual" THEN 3 ELSE 1]

(* Model portfolios, and holdings that are empty, off target, and so near  *)
(* a threshold that rounding to basis points decides.                      *)
Split(e, b, c) == [k \in Classes |-> CASE k = "e" -> e [] k = "b" -> b [] OTHER -> c]
ModelTargets == {Split(50, 40, 10), Split(60, 35, 5)}
HoldingSnapshots ==
  {Split(0, 0, 0), Split(551, 349, 101), Split(45005, 45003, 9992), Split(1, 1, 1),
   Split(5500, 3500, 1001), Split(60, 30, 10)}

(* A tight policy, and one whose target does not add up to the whole;      *)
(* holdings that break a band, the single limit or the restriction.        *)
Holding(k, s, v) == [kind |-> k, security |-> s, value |-> v]
Held == {{Holding("eq", "S1", 6), Holding("bd", "S2", 4)},
         {Holding("eq", "S3", 9), Holding("bd", "S2", 1)}}
Policy(t, lo, hi, one) ==
  [target |-> [k \in AssetKinds |-> IF k = "eq" THEN t ELSE 40],
   least |-> [k \in AssetKinds |-> IF k = "eq" THEN lo ELSE 0],
   most |-> [k \in AssetKinds |-> IF k = "eq" THEN hi ELSE 100],
   single |-> one, restricted |-> {"S3"}]
Bodies == {Policy(60, 30, 70, 80), Policy(50, 0, 100, 100)}

(* The quotes of the code for the two pairs.                               *)
PerPair(yen, dollar) == [p \in Pairs |-> IF p = "USD/JPY" THEN yen ELSE dollar]
MidRates == PerPair(14950000, 108500)
SpreadRates == PerPair(5000, 20)
TenthOfPip == PerPair(100, 1)
ForwardPoints == PerPair([t \in Tenors |-> [bid |-> 3600, ask |-> 3750]],
                         [t \in Tenors |-> [bid |-> -420, ask |-> -414]])

(* Capital from none to plenty, books with and without models, and charges *)
(* so that ratios fall below, into and above every band.                   *)
CapitalTiers ==
  {[gross |-> 0, deductions |-> 0], [gross |-> 5, deductions |-> 0],
   [gross |-> 9, deductions |-> 1], [gross |-> 14, deductions |-> 0]}
ExposureOf(class, amount, model) == [class |-> class, amount |-> amount, model |-> model]
Exposures ==
  {<<>>, <<ExposureOf("CORPORATE_OTHER", 100, NoModel)>>,
   <<ExposureOf("SUBORDINATED_DEBT", 40, 50), ExposureOf("REGULATORY_RETAIL", 60, 20)>>}
TradingRisks == {[frtb |-> 0, charge |-> 0], [frtb |-> NoModel, charge |-> 1]}
Income(approach, base, multiplier) ==
  [approach |-> approach, base |-> base, multiplier |-> multiplier]
Incomes == {Income("BIA", 0, 1), Income("TSA", 4, 1), Income("SMA", 1, 7)}
LossAbsorbing == {[instruments |-> 16, rwaRatio |-> 180, leverageRatio |-> 60]}

(* Cash below and at the reporting threshold, wires below, at and far      *)
(* above theirs, alone and together with a risky counterparty.             *)
Context(amount, cash, risky) ==
  [amount |-> amount, cash |-> cash, wire |-> ~cash, risky |-> risky]
MonitoredTransactions ==
  {Context(5000, TRUE, FALSE), Context(10000, TRUE, TRUE), Context(500, FALSE, TRUE),
   Context(50000, FALSE, FALSE), Context(500001, FALSE, TRUE)}

(* Fills that make the position long, short or neither.                    *)
ReportedFills == {[side |-> "BUY", qty |-> 1, price |-> 2], [side |-> "SELL", qty |-> 2, price |-> 3]}
=============================================================================
