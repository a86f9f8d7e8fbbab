----------------------------- MODULE DeskProofs -----------------------------
(***************************************************************************)
(* Theorems about the trusts, the margin calls, the loan desk, the lending *)
(* of securities, the prime accounts, the services of the treasury, the    *)
(* marking of positions, the estates and the collateral, for every value   *)
(* of their constants.                                                     *)
(***************************************************************************)
EXTENDS Trusts, MarginCalls, LoanDesk, SecuritiesLending, PrimeAccounts,
        Correspondents, TreasuryDesk, Marking, Collateral, Sums

-----------------------------------------------------------------------------
(* Trusts: the balance sheet is its own inductive invariant.               *)

(* Halving twice loses the odd cent.                                       *)
LEMMA Halves ==
  ASSUME NEW a \in Nat, NEW h, NEW r, h = a \div 2, r = a % 2
  PROVE  h \in Nat /\ r \in Nat /\ 2 * h + r = a
<1>1. h \in Int /\ r \in Nat /\ a < 2 * h + 2
  OBVIOUS
<1>2. r = a - 2 * h
  OBVIOUS
<1> QED
  BY <1>1, <1>2

(* Every step keeps the types and the balance.                             *)
LEMMA TrustStep ==
  ASSUME TrustTypeOK, DistributionsLeaveBalances, [TrustNext]_trustVars
  PROVE  TrustTypeOK' /\ DistributionsLeaveBalances'
<1> DEFINE Kept == TrustTypeOK' /\ DistributionsLeaveBalances'
<1>0. /\ trust.principal \in Int /\ trust.income \in Int /\ bene \in Nat /\ paidThen \in Nat
      /\ given.income \in Nat /\ given.principal \in Nat /\ funded \in Int /\ odd \in Nat
      /\ TrustAmounts \subseteq Nat /\ Closings \subseteq Nat
  BY TrustConstants DEF TrustTypeOK
<1>1. CASE ExecuteTrust \/ ActivateTrust \/ TerminateTrust
  BY <1>1 DEF ExecuteTrust, ActivateTrust, TerminateTrust, books, TrustTypeOK,
              DistributionsLeaveBalances
<1>2. ASSUME NEW a \in TrustAmounts, DistributeOne(a, "INCOME") PROVE Kept
  <2>1. /\ trust'.income = trust.income - a /\ trust'.principal = trust.principal
        /\ trust' \in [status : {"DRAFT", "EXECUTED", "ACTIVE", "TERMINATED"},
                       principal : Int, income : Int]
        /\ given' = [income |-> given.income + a, principal |-> given.principal + 0]
        /\ bene' = bene + a /\ UNCHANGED <<funded, paidThen, odd, torn>>
    BY <1>0, <1>2 DEF DistributeOne, Record, TrustTypeOK
  <2>2. a \in Nat /\ given' \in [income : Nat, principal : Nat]
    BY <1>0, <2>1
  <2> QED
    BY <1>0, <2>1, <2>2 DEF TrustTypeOK, DistributionsLeaveBalances
<1>3. ASSUME NEW a \in TrustAmounts, DistributeOne(a, "PRINCIPAL") PROVE Kept
  <2>1. /\ trust'.principal = trust.principal - a /\ trust'.income = trust.income
        /\ trust' \in [status : {"DRAFT", "EXECUTED", "ACTIVE", "TERMINATED"},
                       principal : Int, income : Int]
        /\ given' = [income |-> given.income + 0, principal |-> given.principal + a]
        /\ bene' = bene + a /\ UNCHANGED <<funded, paidThen, odd, torn>>
    BY <1>0, <1>3 DEF DistributeOne, Record, TrustTypeOK
  <2>2. a \in Nat /\ given' \in [income : Nat, principal : Nat]
    BY <1>0, <2>1
  <2> QED
    BY <1>0, <2>1, <2>2 DEF TrustTypeOK, DistributionsLeaveBalances
<1>4. ASSUME NEW a \in TrustAmounts, DistributeBoth(a) PROVE Kept
  <2>. PICK h, r : h = a \div 2 /\ r = a % 2
    OBVIOUS
  <2>0. a \in Nat /\ h \in Nat /\ r \in Nat /\ 2 * h + r = a
    BY <1>0, Halves
  <2>1. CASE a <= 2 * trust.principal
    <3>1. /\ trust' = [trust EXCEPT !.income = @ - h, !.principal = @ - h]
          /\ given' = [income |-> given.income + a, principal |-> given.principal + a]
          /\ bene' = bene + a /\ odd' = odd + r /\ UNCHANGED <<funded, paidThen, torn>>
      BY <1>4, <2>1 DEF DistributeBoth, HalfDeducted, Record
    <3>2. /\ trust'.income = trust.income - h /\ trust'.principal = trust.principal - h
          /\ trust' \in [status : {"DRAFT", "EXECUTED", "ACTIVE", "TERMINATED"},
                         principal : Int, income : Int]
      <4>1. trust.income - h \in Int /\ trust.principal - h \in Int
        BY <1>0, <2>0
      <4> QED
        BY <3>1, <4>1 DEF TrustTypeOK
    <3>3. given' \in [income : Nat, principal : Nat] /\ odd' \in Nat /\ bene' \in Nat
      BY <1>0, <2>0, <3>1
    <3>4. TrustTypeOK'
      BY <1>0, <3>1, <3>2, <3>3 DEF TrustTypeOK
    <3>5. DistributionsLeaveBalances'
      BY <1>0, <2>0, <3>1, <3>2 DEF DistributionsLeaveBalances
    <3> QED
      BY <3>4, <3>5
  <2>2. CASE ~(a <= 2 * trust.principal)
    <3>1. /\ trust' = [trust EXCEPT !.income = @ - h] /\ torn' = TRUE
          /\ UNCHANGED <<bene, given, funded, paidThen, odd>>
      BY <1>4, <2>2 DEF DistributeBoth, HalfDeducted
    <3> QED
      BY <1>0, <2>0, <3>1 DEF TrustTypeOK, DistributionsLeaveBalances
  <2> QED
    BY <2>1, <2>2
<1>5. ASSUME NEW i \in Closings, NEW p \in Closings, RecordAccountingPeriod(i, p) PROVE Kept
  <2>1. i - given.income \in Int /\ p - given.principal \in Int
    BY <1>0
  <2>2. /\ trust' = [trust EXCEPT !.income = i - given.income,
                                  !.principal = p - given.principal]
        /\ funded' = trust'.income + trust'.principal
        /\ paidThen' = bene /\ odd' = 0 /\ torn' = FALSE /\ UNCHANGED <<bene, given>>
    BY <1>5 DEF RecordAccountingPeriod
  <2>3. /\ trust'.income \in Int /\ trust'.principal \in Int
        /\ trust' \in [status : {"DRAFT", "EXECUTED", "ACTIVE", "TERMINATED"},
                       principal : Int, income : Int]
    BY <2>1, <2>2 DEF TrustTypeOK
  <2>4. TrustTypeOK'
    <3>0. torn' \in BOOLEAN
      BY <2>2, Zenon
    <3>1. funded' \in Int /\ odd' \in Nat
      BY <2>2, <2>3
    <3>2. bene' \in Nat /\ paidThen' \in Nat /\ given' \in [income : Nat, principal : Nat]
      BY <2>2 DEF TrustTypeOK
    <3> QED
      BY <2>3, <3>0, <3>1, <3>2 DEF TrustTypeOK
  <2> QED
    BY <1>0, <2>2, <2>3, <2>4 DEF DistributionsLeaveBalances
<1>6. CASE UNCHANGED trustVars
  BY <1>6 DEF trustVars, TrustTypeOK, DistributionsLeaveBalances
<1> QED
  BY <1>1, <1>2, <1>3, <1>4, <1>5, <1>6 DEF TrustNext

(* Between two accounting periods nothing a trust of TrustEstateService    *)
(* distributes is created or lost, but for the odd cents, as long as no    *)
(* distribution was refused half-way.                                      *)
THEOREM TrustsBalance == TrustSpec => [](TrustTypeOK /\ DistributionsLeaveBalances)
<1>1. TrustInit => TrustTypeOK
  <2>1. TrustInit => torn \in BOOLEAN
    BY DEF TrustInit
  <2> QED
    BY <2>1 DEF TrustInit, TrustTypeOK
<1>2. TrustInit => DistributionsLeaveBalances
  BY DEF TrustInit, DistributionsLeaveBalances
<1> QED
  BY <1>1, <1>2, TrustStep, PTL DEF TrustSpec

-----------------------------------------------------------------------------
(* Margin calls: what a call says of itself is inductive; that an exposure *)
(* can be called rests on the rounding.                                    *)

(* What a quotient is bounded by.                                          *)
LEMMA Quotient ==
  ASSUME NEW a \in Nat, NEW b \in Nat, b > 0
  PROVE  a \div b \in Int /\ b * (a \div b) <= a /\ a < b * (a \div b) + b
OBVIOUS

(* Multiplying by a natural number keeps an order.                         *)
LEMMA Product ==
  ASSUME NEW a \in Int, NEW b \in Int, NEW c \in Nat, a <= b
  PROVE  a * c <= b * c
OBVIOUS

(* Rounding s to a multiple of r, half up, takes s no lower than a         *)
(* multiple that s reaches, and takes 0 to 0.                              *)
LEMMA RoundHalfUp ==
  ASSUME NEW s \in Nat, NEW r \in Nat, r > 0, NEW u, u = (2 * s + r) \div (2 * r)
  PROVE  /\ u \in Nat
         /\ \A q \in Int : q * r <= s => q <= u
         /\ s = 0 => u = 0
<1>1. /\ u \in Int /\ (2 * r) * u <= 2 * s + r
      /\ 2 * s + r < (2 * r) * u + 2 * r
  <2>1. 2 * s + r \in Nat /\ 2 * r \in Nat /\ 2 * r > 0
    OBVIOUS
  <2> QED
    BY <2>1, Quotient
<1>2. ASSUME NEW q \in Int, q * r <= s PROVE q <= u
  <2>1. SUFFICES ASSUME u + 1 <= q PROVE FALSE
    BY <1>1
  <2>2. (u + 1) * r <= q * r
    BY <1>1, <2>1, Product
  <2>3. (u + 1) * r = u * r + r /\ (2 * r) * u = u * r + u * r
    BY <1>1
  <2>4. u * r \in Int /\ q * r \in Int
    BY <1>1
  <2> QED
    BY <1>1, <1>2, <2>2, <2>3, <2>4
<1>3. u \in Nat
  <2>1. 0 * r <= s
    OBVIOUS
  <2> QED
    BY <1>1, <1>2, <2>1
<1>4. ASSUME s = 0 PROVE u = 0
  <2>1. SUFFICES ASSUME 1 <= u PROVE FALSE
    BY <1>3
  <2>2. 1 * r <= u * r
    BY <1>1, <2>1, Product
  <2>3. (2 * r) * u = u * r + u * r /\ u * r \in Int
    BY <1>1
  <2> QED
    BY <1>1, <1>4, <2>2, <2>3
<1> QED
  BY <1>2, <1>3, <1>4

(* What roundToNearest does to an amount.                                  *)
LEMMA RoundToNearestKeeps ==
  ASSUME NEW v \in Int
  PROVE  /\ RoundToNearest(v) \in Int
         /\ v = 0 => RoundToNearest(v) = 0
         /\ MTA % Rounding = 0 /\ Size(v) >= MTA => Size(RoundToNearest(v)) >= MTA
<1>0. Rounding \in Nat /\ Rounding > 0 /\ MTA \in Nat
  BY MarginConstants
<1>1. PICK s \in Nat : s = Size(v) /\ (v = 0 => s = 0)
  BY DEF Size
<1>2. PICK u : u = (2 * s + Rounding) \div (2 * Rounding)
  OBVIOUS
<1>3. /\ u \in Nat /\ (v = 0 => u = 0)
      /\ \A q \in Int : q * Rounding <= s => q <= u
  <2>1. /\ u \in Nat /\ (s = 0 => u = 0)
        /\ \A q \in Int : q * Rounding <= s => q <= u
    BY <1>0, <1>2, RoundHalfUp
  <2> QED
    BY <1>1, <2>1
<1>4. RoundToNearest(v) = IF v < 0 THEN -(u * Rounding) ELSE u * Rounding
  BY <1>1, <1>2 DEF RoundToNearest
<1>5. PICK w \in Nat : w = u * Rounding
  BY <1>0, <1>3
<1>6. /\ RoundToNearest(v) \in Int /\ Size(RoundToNearest(v)) = w
      /\ v = 0 => RoundToNearest(v) = 0
  <2>1. RoundToNearest(v) = IF v < 0 THEN -w ELSE w
    BY <1>4, <1>5
  <2>2. v = 0 => w = 0
    BY <1>0, <1>3, <1>5
  <2> QED
    BY <2>1, <2>2 DEF Size
<1>7. ASSUME MTA % Rounding = 0, Size(v) >= MTA PROVE w >= MTA
  <2>1. PICK q \in Int : q * Rounding = MTA
    <3>1. MTA = (MTA \div Rounding) * Rounding /\ MTA \div Rounding \in Int
      BY <1>0, <1>7
    <3> QED
      BY <3>1
  <2>2. q <= u
    BY <1>1, <1>3, <1>7, <2>1
  <2>3. q * Rounding <= u * Rounding
    BY <1>0, <1>3, <2>2, Product
  <2> QED
    BY <1>5, <2>1, <2>3
<1> QED
  BY <1>6, <1>7

(* The figures an exposure is calculated from are integers.                *)
LEMMA MarginValues ==
  ASSUME NEW mtm \in MTMs, NEW im \in InitialMargins, NEW lodged \in HeldAmounts
  PROVE  mtm \in Int /\ im \in Int /\ lodged \in Int
BY MarginConstants

(* The exposure that is calculated is nothing, or as large as the minimum. *)
LEMMA CallForIssuable ==
  ASSUME NEW mtm \in Int, NEW im \in Int, NEW lodged \in Int
  PROVE  /\ CallFor(mtm, im, lodged) \in Int
         /\ MTA % Rounding = 0 =>
              CallFor(mtm, im, lodged) = 0 \/ Size(CallFor(mtm, im, lodged)) >= MTA
<1> DEFINE raw == VMRequired(mtm) + im - lodged
           called == IF Size(raw) >= MTA THEN raw ELSE 0
<1>1. raw \in Int
  BY MarginConstants DEF VMRequired, Clamped, Size
<1> HIDE DEF raw
<1>2. called \in Int /\ (called = 0 \/ Size(called) >= MTA)
  BY <1>1
<1>3. CallFor(mtm, im, lodged) = RoundToNearest(called)
  BY DEF CallFor, raw
<1> HIDE DEF called
<1> QED
  BY <1>2, <1>3, RoundToNearestKeeps

(* The deliveries of a call, weighed against what it asks for.             *)
CallInv == MarginTypeOK /\ CuredIffCovered

CallRecords == [status : CallStatuses, amount : Int, cured : Nat,
                outstanding : Int, due : Nat, issued : Int]

Covered(k) ==
  k.issued > 0 => /\ (k.status = "CURED") <=> (k.cured >= k.amount)
                  /\ k.outstanding = Clamped(k.amount - k.cured)

(* What one operation writes of one call is a typed record that is CURED   *)
(* exactly when it is covered.                                             *)
LEMMA OneCall ==
  ASSUME CallInv, NEW c \in Calls, NEW k \in CallRecords, Covered(k),
         marginCall' = [marginCall EXCEPT ![c] = k], UNCHANGED <<exposure, marginDay>>
  PROVE  CallInv'
<1>1. marginCall' \in [Calls -> CallRecords]
  BY DEF CallInv, MarginTypeOK, CallRecords
<1>2. MarginTypeOK'
  BY <1>1 DEF CallInv, MarginTypeOK, CallRecords
<1>3. ASSUME NEW d \in Calls PROVE Covered(marginCall'[d])
  <2>1. marginCall'[d] = IF d = c THEN k ELSE marginCall[d]
    BY DEF CallInv, MarginTypeOK
  <2>2. Covered(marginCall[d])
    BY DEF CallInv, CuredIffCovered, Covered
  <2> QED
    BY <2>1, <2>2
<1>4. CuredIffCovered'
  BY <1>3 DEF CuredIffCovered, Covered
<1> QED
  BY <1>2, <1>4 DEF CallInv

(* Every operation on margin calls keeps the invariant.                    *)
LEMMA CallStep == CallInv /\ [MarginNext]_marginVars => CallInv'
<1> SUFFICES ASSUME CallInv, [MarginNext]_marginVars PROVE CallInv'
  OBVIOUS
<1>0. /\ marginCall \in [Calls -> CallRecords] /\ exposure \in Int /\ marginDay \in Nat
      /\ \A c \in Calls : Covered(marginCall[c])
  BY DEF CallInv, MarginTypeOK, CallRecords, CuredIffCovered, Covered
<1>1. ASSUME NEW mtm \in MTMs, NEW im \in InitialMargins, NEW lodged \in HeldAmounts,
             CalculateExposure(mtm, im, lodged)
      PROVE  CallInv'
  <2>1. exposure' \in Int
    BY <1>1, CallForIssuable, MarginValues DEF CalculateExposure
  <2> QED
    BY <1>1, <2>1 DEF CalculateExposure, CallInv, MarginTypeOK, CuredIffCovered
<1>2. ASSUME NEW c \in Calls, IssueMarginCall(c) PROVE CallInv'
  <2> DEFINE k == [status |-> "OPEN", amount |-> exposure, cured |-> 0,
                   outstanding |-> exposure, due |-> marginDay + SettlementLag,
                   issued |-> exposure]
  <2>1. marginDay + SettlementLag \in Nat
    BY <1>0, MarginConstants
  <2>2. k \in CallRecords
    BY <1>0, <2>1 DEF CallRecords, CallStatuses
  <2>3. Covered(k)
    BY <1>0 DEF Covered, Clamped
  <2>4. marginCall' = [marginCall EXCEPT ![c] = k] /\ UNCHANGED <<exposure, marginDay>>
    BY <1>2 DEF IssueMarginCall
  <2> HIDE DEF k
  <2> QED
    BY <2>2, <2>3, <2>4, OneCall
<1>3. ASSUME NEW c \in Calls, NEW status \in {"DISPUTED", "DEFAULTED", "CANCELLED"},
             marginCall[c].status # "CURED",
             marginCall' = [marginCall EXCEPT ![c].status = status],
             UNCHANGED <<exposure, marginDay>>
      PROVE  CallInv'
  <2> DEFINE k == [marginCall[c] EXCEPT !.status = status]
  <2>1. k \in CallRecords
    BY <1>0 DEF CallRecords, CallStatuses
  <2>2. Covered(k)
    <3>1. /\ k.status # "CURED" /\ k.cured = marginCall[c].cured
          /\ k.amount = marginCall[c].amount /\ k.issued = marginCall[c].issued
          /\ k.outstanding = marginCall[c].outstanding
      BY <1>0 DEF CallRecords
    <3>2. Covered(marginCall[c])
      BY <1>0
    <3> QED
      BY <1>3, <3>1, <3>2 DEF Covered
  <2>3. marginCall' = [marginCall EXCEPT ![c] = k]
    BY <1>3
  <2> HIDE DEF k
  <2> QED
    BY <1>3, <2>1, <2>2, <2>3, OneCall
<1>4. ASSUME NEW c \in Calls, NEW a \in Deliveries, RecordDelivery(c, a) PROVE CallInv'
  <2>0. a \in Nat
    BY MarginConstants
  <2>1. PICK left \in Int : left = marginCall[c].amount - (marginCall[c].cured + a)
    BY <1>0, <2>0 DEF CallRecords
  <2>2. PICK status : status = IF left <= 0 THEN "CURED" ELSE "PARTIALLY_CURED"
    OBVIOUS
  <2> DEFINE k == [marginCall[c] EXCEPT !.cured = @ + a, !.outstanding = Clamped(left),
                                        !.status = status]
  <2>3. /\ marginCall[c] \in CallRecords /\ marginCall[c].cured + a \in Nat
        /\ Clamped(left) \in Int /\ status \in CallStatuses
    BY <1>0, <2>0, <2>1, <2>2 DEF CallRecords, Clamped, CallStatuses
  <2>4. k \in CallRecords
    BY <2>3 DEF CallRecords
  <2>5. Covered(k)
    <3>1. /\ k.status = status /\ k.cured = marginCall[c].cured + a
          /\ k.amount = marginCall[c].amount /\ k.outstanding = Clamped(left)
      BY <2>3 DEF CallRecords
    <3>2. (k.status = "CURED") <=> (k.cured >= k.amount)
      BY <2>0, <2>1, <2>2, <2>3, <3>1 DEF CallRecords
    <3>3. left = k.amount - k.cured
      BY <2>0, <2>1, <2>3, <3>1 DEF CallRecords
    <3> QED
      BY <3>1, <3>2, <3>3 DEF Covered
  <2>6. marginCall' = [marginCall EXCEPT ![c] = k] /\ UNCHANGED <<exposure, marginDay>>
    BY <1>4, <2>1, <2>2 DEF RecordDelivery
  <2> HIDE DEF k
  <2> QED
    BY <2>4, <2>5, <2>6, OneCall
<1>5. ASSUME NEW c \in Calls, NEW a \in AgreedAmounts, ResolveDispute(c, a) PROVE CallInv'
  <2>0. a \in Int
    BY MarginConstants
  <2>1. PICK left \in Int : left = a - marginCall[c].cured
    BY <1>0, <2>0 DEF CallRecords
  <2>2. PICK status : status = IF left <= 0 THEN "CURED" ELSE "OPEN"
    OBVIOUS
  <2> DEFINE k == [marginCall[c] EXCEPT !.amount = a, !.outstanding = Clamped(left),
                                        !.status = status]
  <2>3. /\ marginCall[c] \in CallRecords /\ Clamped(left) \in Int /\ status \in CallStatuses
    BY <1>0, <2>1, <2>2 DEF CallRecords, Clamped, CallStatuses
  <2>4. k \in CallRecords
    BY <2>0, <2>3 DEF CallRecords
  <2>5. Covered(k)
    <3>1. /\ k.status = status /\ k.cured = marginCall[c].cured
          /\ k.amount = a /\ k.outstanding = Clamped(left)
      BY <2>3 DEF CallRecords
    <3>2. (k.status = "CURED") <=> (k.cured >= k.amount)
      BY <2>0, <2>1, <2>2, <2>3, <3>1 DEF CallRecords
    <3> QED
      BY <2>1, <3>1, <3>2 DEF Covered
  <2>6. marginCall' = [marginCall EXCEPT ![c] = k] /\ UNCHANGED <<exposure, marginDay>>
    BY <1>5, <2>1, <2>2 DEF ResolveDispute
  <2> HIDE DEF k
  <2> QED
    BY <2>4, <2>5, <2>6, OneCall
<1>6. ASSUME NEW c \in Calls, OpenDispute(c) \/ SendDefaultNotice(c) \/ CancelCall(c)
      PROVE  CallInv'
  <2>1. PICK status \in {"DISPUTED", "DEFAULTED", "CANCELLED"} :
          marginCall' = [marginCall EXCEPT ![c].status = status]
    BY <1>6 DEF OpenDispute, SendDefaultNotice, CancelCall
  <2>2. marginCall[c].status # "CURED" /\ UNCHANGED <<exposure, marginDay>>
    BY <1>6 DEF OpenDispute, SendDefaultNotice, CancelCall
  <2> QED
    BY <1>3, <2>1, <2>2
<1>7. CASE NextMarginDay
  BY <1>0, <1>7 DEF NextMarginDay, CallInv, MarginTypeOK, CuredIffCovered
<1>8. CASE UNCHANGED marginVars
  BY <1>8 DEF marginVars, CallInv, MarginTypeOK, CuredIffCovered
<1> QED
  BY <1>1, <1>2, <1>4, <1>5, <1>6, <1>7, <1>8 DEF MarginNext

(* Every operation but calculateExposure leaves the exposure alone.        *)
LEMMA ExposureStep ==
  ExposureIssuable /\ [MarginNext]_marginVars => ExposureIssuable'
<1> SUFFICES ASSUME ExposureIssuable, [MarginNext]_marginVars PROVE ExposureIssuable'
  OBVIOUS
<1>1. ASSUME NEW mtm \in MTMs, NEW im \in InitialMargins, NEW lodged \in HeldAmounts,
             CalculateExposure(mtm, im, lodged)
      PROVE  ExposureIssuable'
  <2>1. mtm \in Int /\ im \in Int /\ lodged \in Int
    BY <1>1, MarginValues
  <2> QED
    BY <1>1, <2>1, CallForIssuable DEF CalculateExposure, ExposureIssuable
<1>2. CASE UNCHANGED exposure
  BY <1>2 DEF ExposureIssuable
<1>3. \/ UNCHANGED exposure
      \/ \E mtm \in MTMs, im \in InitialMargins, lodged \in HeldAmounts :
           CalculateExposure(mtm, im, lodged)
  BY DEF MarginNext, IssueMarginCall, OpenDispute, SendDefaultNotice, CancelCall,
         RecordDelivery, ResolveDispute, NextMarginDay, marginVars
<1> QED
  BY <1>1, <1>2, <1>3

(* No operation touches a call that is CURED or DEFAULTED.                 *)
LEMMA VerdictStep ==
  ASSUME CallInv, [MarginNext]_marginVars, NEW c \in Calls,
         marginCall[c].status \in {"CURED", "DEFAULTED"}
  PROVE  marginCall'[c] = marginCall[c]
<1>0. marginCall \in [Calls -> CallRecords]
  BY DEF CallInv, MarginTypeOK, CallRecords
<1>1. ASSUME NEW d \in Calls, NEW k, marginCall[d].status \notin {"CURED", "DEFAULTED"},
             marginCall' = [marginCall EXCEPT ![d] = k]
      PROVE  marginCall'[c] = marginCall[c]
  BY <1>0, <1>1
<1>2. ASSUME NEW d \in Calls,
             \/ IssueMarginCall(d) \/ OpenDispute(d) \/ CancelCall(d)
             \/ \E a \in Deliveries : RecordDelivery(d, a)
             \/ \E a \in AgreedAmounts : ResolveDispute(d, a)
      PROVE  marginCall'[c] = marginCall[c]
  BY <1>0, <1>2 DEF IssueMarginCall, OpenDispute, CancelCall, RecordDelivery, ResolveDispute
<1>3. ASSUME NEW d \in Calls, SendDefaultNotice(d) PROVE marginCall'[c] = marginCall[c]
  BY <1>0, <1>3 DEF SendDefaultNotice, CallRecords
<1>4. CASE NextMarginDay \/ UNCHANGED marginVars
           \/ \E mtm \in MTMs, im \in InitialMargins, lodged \in HeldAmounts :
                CalculateExposure(mtm, im, lodged)
  BY <1>4 DEF NextMarginDay, marginVars, CalculateExposure
<1> QED
  BY <1>2, <1>3, <1>4 DEF MarginNext

(* So the calls are always as they should be.                              *)
LEMMA CallKept == MarginSpec => []CallInv
<1>1. MarginInit => CallInv
  BY DEF MarginInit, CallInv, MarginTypeOK, CuredIffCovered, NoCall, CallStatuses
<1> QED
  BY <1>1, CallStep, PTL DEF MarginSpec

(* A margin call of MarginCallService is CURED exactly when its deliveries *)
(* cover it, its verdict stands, and every nonzero exposure can be called. *)
THEOREM MarginCallsSound == MarginSpec => MarginSound
<1>1. MarginInit => CallInv /\ ExposureIssuable
  BY DEF MarginInit, CallInv, MarginTypeOK, CuredIffCovered, ExposureIssuable, NoCall,
         CallStatuses
<1>2. CallInv /\ ExposureIssuable => CuredIffCovered /\ ExposureIssuable
  BY DEF CallInv
<1>3. ASSUME CallInv, [MarginNext]_marginVars
      PROVE  [\A c \in Calls : marginCall[c].status \in {"CURED", "DEFAULTED"}
                => marginCall'[c] = marginCall[c]]_marginVars
  BY <1>3, VerdictStep
<1> QED
  BY <1>1, <1>2, <1>3, CallStep, ExposureStep, PTL DEF MarginSpec, MarginSound, VerdictsStand

-----------------------------------------------------------------------------
(* The loan desk: the cases of a loan and its status, whatever its amounts *)
(* are and whether or not its journals balance.                            *)

CaseStates == {"none", "OPEN", "IN_WORKOUT", "CHARGED_OFF", "RESOLVED"}
Trouble == {"DELINQUENT", "DEFAULT", "CHARGED_OFF"}

LoanRow == [status |-> loan.status, principal |-> loan.principal, term |-> loan.term,
            dti |-> loan.dti, balance |-> loan.balance, paid |-> loan.paid]

DeskInv ==
  /\ loan = LoanRow /\ cases \in [CaseIds -> CaseStates] /\ cutOffs \in Nat
  /\ OneOpenCase /\ TroubleHasCase

(* A step that sets one case, and then the loan unless it is cut off.      *)
LEMMA CaseStep ==
  ASSUME DeskInv, NEW c \in CaseIds, NEW to \in CaseStates \ {"none"}, CaseBecomes(c, to),
         to = "OPEN" => \A other \in CaseIds : cases[other] # "OPEN",
         NEW status, ThenLoan(status) \/ UNCHANGED <<loan, cutOffs>>,
         loan' # loan => loan'.status = status,
         to = "RESOLVED" => loan'.status \notin Trouble \/ cutOffs' # cutOffs
  PROVE  DeskInv'
<1>0. cases \in [CaseIds -> CaseStates] /\ loan = LoanRow /\ cutOffs \in Nat
  BY DEF DeskInv
<1>1. /\ cases' \in [CaseIds -> CaseStates]
      /\ \A e \in CaseIds : cases'[e] = IF e = c THEN to ELSE cases[e]
  BY <1>0 DEF CaseBecomes
<1>2. OneOpenCase'
  BY <1>1 DEF DeskInv, OneOpenCase
<1>3. loan' = LoanRow' /\ cutOffs' \in Nat /\ (cutOffs' = cutOffs \/ cutOffs' > 0)
  BY <1>0 DEF ThenLoan, LoanRow
<1>4. TroubleHasCase'
  BY <1>0, <1>1, <1>3 DEF TroubleHasCase, Trouble
<1> QED
  BY <1>1, <1>2, <1>3, <1>4 DEF DeskInv

(* A step that leaves the cases alone.                                     *)
LEMMA LoanOnly ==
  ASSUME DeskInv, UNCHANGED <<cases, cutOffs>>, loan' = LoanRow',
         loan'.status \in Trouble => \E c \in CaseIds : cases[c] \notin {"none", "RESOLVED"}
                                     \/ loan.status \in Trouble
  PROVE  DeskInv'
BY DEF DeskInv, OneOpenCase, TroubleHasCase, Trouble

(* Every operation on the loan keeps the invariant.                        *)
LEMMA DeskStep == DeskInv /\ [LoanNext]_loanVars => DeskInv'
<1> SUFFICES ASSUME DeskInv, [LoanNext]_loanVars PROVE DeskInv'
  OBVIOUS
<1>0. loan = LoanRow /\ cases \in [CaseIds -> CaseStates] /\ cutOffs \in Nat
  BY DEF DeskInv
<1>1. ASSUME NEW principal, NEW term, NEW dti, Apply(principal, term, dti) PROVE DeskInv'
  <2>1. /\ loan' = LoanRow' /\ loan'.status = "UNDER_REVIEW" /\ UNCHANGED <<cases, cutOffs>>
    BY <1>1 DEF Apply, LoanRow
  <2> QED
    BY <2>1, LoanOnly DEF Trouble
<1>2. ASSUME NEW score, Underwrite(score) PROVE DeskInv'
  <2>0. PICK to : to = IF Approves(score) THEN "APPROVED" ELSE "DECLINED"
    OBVIOUS
  <2>1. loan' = [loan EXCEPT !.status = to] /\ UNCHANGED <<cases, cutOffs>>
    BY <1>2, <2>0 DEF Underwrite
  <2>2. loan' = LoanRow' /\ loan'.status = to
    BY <1>0, <2>1 DEF LoanRow
  <2> QED
    BY <2>0, <2>1, <2>2, LoanOnly DEF Trouble
<1>3. CASE Disburse
  <2>1. /\ loan' = [loan EXCEPT !.status = "ACTIVE", !.paid = 0] \/ loan' = loan
        /\ UNCHANGED <<cases, cutOffs>>
    BY <1>3 DEF Disburse
  <2>2. loan' = LoanRow' /\ (loan'.status = "ACTIVE" \/ loan' = loan)
    BY <1>0, <2>1 DEF LoanRow
  <2> QED
    BY <2>1, <2>2 DEF DeskInv, OneOpenCase, TroubleHasCase
<1>4. CASE ProcessPayment
  <2>1. /\ \/ \E left, next :
                loan' = [loan EXCEPT !.balance = left, !.paid = next,
                           !.status = IF left = 0 THEN "PAID_OFF" ELSE "ACTIVE"]
           \/ loan' = loan
        /\ UNCHANGED <<cases, cutOffs>>
    BY <1>4 DEF ProcessPayment
  <2>2. CASE loan' = loan
    BY <2>1, <2>2 DEF DeskInv, OneOpenCase, TroubleHasCase, LoanRow
  <2>3. CASE loan' # loan
    <3>1. PICK left, next :
            loan' = [loan EXCEPT !.balance = left, !.paid = next,
                       !.status = IF left = 0 THEN "PAID_OFF" ELSE "ACTIVE"]
      BY <2>1, <2>3
    <3>2. PICK to : to = IF left = 0 THEN "PAID_OFF" ELSE "ACTIVE"
      OBVIOUS
    <3>3. loan' = [loan EXCEPT !.balance = left, !.paid = next, !.status = to]
      BY <3>1, <3>2
    <3>4. loan' = LoanRow' /\ loan'.status = to /\ to \notin Trouble
      BY <1>0, <3>2, <3>3 DEF LoanRow, Trouble
    <3> QED
      BY <2>1, <3>4, LoanOnly
  <2> QED
    BY <2>2, <2>3
<1>5. ASSUME NEW c \in CaseIds, OpenCase(c) PROVE DeskInv'
  <2>1. PICK to : to = IF loan.status = "ACTIVE" THEN "DELINQUENT" ELSE loan.status
    OBVIOUS
  <2>2. /\ CaseBecomes(c, "OPEN") /\ ThenLoan(to)
        /\ \A other \in CaseIds : cases[other] # "OPEN"
    BY <1>5, <2>1 DEF OpenCase
  <2>3. loan' # loan => loan'.status = to
    BY <1>0, <2>2 DEF ThenLoan, LoanRow
  <2> QED
    BY <2>2, <2>3, CaseStep DEF CaseStates
<1>6. ASSUME NEW c \in CaseIds, LongOverdue(c) PROVE DeskInv'
  <2>1. /\ loan' = [loan EXCEPT !.status = "DEFAULT"] /\ UNCHANGED <<cases, cutOffs>>
        /\ cases[c] = "OPEN"
    BY <1>6 DEF LongOverdue
  <2>2. loan' = LoanRow'
    BY <1>0, <2>1 DEF LoanRow
  <2> QED
    BY <2>1, <2>2 DEF DeskInv, OneOpenCase, TroubleHasCase
<1>7. ASSUME NEW c \in CaseIds, ChargeOff(c) PROVE DeskInv'
  <2>1. CaseBecomes(c, "CHARGED_OFF") /\ ThenLoan("CHARGED_OFF")
    BY <1>7 DEF ChargeOff
  <2>2. loan' # loan => loan'.status = "CHARGED_OFF"
    BY <1>0, <2>1 DEF ThenLoan, LoanRow
  <2> QED
    BY <2>1, <2>2, CaseStep DEF CaseStates
<1>8. ASSUME NEW c \in CaseIds, Resolve(c) PROVE DeskInv'
  <2>1. CaseBecomes(c, "RESOLVED") /\ ThenLoan("ACTIVE")
    BY <1>8 DEF Resolve
  <2>2. /\ loan' # loan => loan'.status = "ACTIVE"
        /\ loan'.status \notin Trouble \/ cutOffs' # cutOffs
    BY <1>0, <2>1 DEF ThenLoan, LoanRow, Trouble
  <2> QED
    BY <2>1, <2>2, CaseStep DEF CaseStates
<1>9. ASSUME NEW c \in CaseIds, NEW p \in PlanIds, ProposePlan(c, p) PROVE DeskInv'
  <2>1. CASE CaseBecomes(c, "IN_WORKOUT") /\ UNCHANGED <<loan, cutOffs>>
    BY <2>1, CaseStep DEF CaseStates
  <2>2. CASE cutOffs' = cutOffs + 1 /\ UNCHANGED <<loan, cases>>
    BY <1>0, <2>2 DEF DeskInv, OneOpenCase, TroubleHasCase, LoanRow
  <2> QED
    BY <1>9, <2>1, <2>2 DEF ProposePlan
<1>10. CASE UNCHANGED <<loan, cases, cutOffs>>
  BY <1>10 DEF DeskInv, OneOpenCase, TroubleHasCase, LoanRow
<1>11. ASSUME NEW p \in PlanIds, ActivatePlan(p) \/ CompletePlan(p) PROVE DeskInv'
  BY <1>10, <1>11 DEF ActivatePlan, CompletePlan
<1>12. CASE UNCHANGED loanVars
  BY <1>10, <1>12 DEF loanVars
<1> QED
  BY <1>1, <1>2, <1>3, <1>4, <1>5, <1>6, <1>7, <1>8, <1>9, <1>11, <1>12 DEF LoanNext

(* A loan of CollectionsService never has two OPEN cases, and a loan in    *)
(* trouble has a case that is not resolved unless a call was cut off.      *)
THEOREM LoansWatched == LoanSpec => [](OneOpenCase /\ TroubleHasCase)
<1>1. LoanInit => DeskInv
  BY DEF LoanInit, DeskInv, LoanRow, CaseStates, OneOpenCase, TroubleHasCase
<1>2. DeskInv => OneOpenCase /\ TroubleHasCase
  BY DEF DeskInv
<1> QED
  BY <1>1, <1>2, DeskStep, PTL DEF LoanSpec

LoanFields ==
  [status : LoanStates, principal : Nat, term : Nat \ {0}, dti : {"none", "fine", "high"},
   balance : Nat, paid : Int]

(* There are cases of an application only, and it asks for something.      *)
PrincipalAsked ==
  /\ loan.status # "none" => loan.principal # 0
  /\ \A c \in CaseIds : cases[c] # "none" => loan.status # "none"

FundInv == LoanTypeOK /\ NothingFunded /\ PrincipalAsked

(* A journal of one leg never balances.                                    *)
LEMMA OneLeg == ASSUME NEW n \in Nat \ {0} PROVE ~Balanced(LoanLegs("CREDIT", n))
<1> DEFINE legs == LoanLegs("CREDIT", n)
<1>1. DOMAIN legs = {1} /\ legs[1].type = "CREDIT" /\ legs[1].currency = "USD" /\ legs[1].amount = n
  BY DEF LoanLegs
<1> HIDE DEF legs
<1>2. "USD" \in Currencies(legs)
  BY <1>1 DEF Currencies
<1>3. IsFiniteSet({1}) /\ Cardinality({1}) = 1
  BY FS_Singleton
<1>4. Debits(legs, "USD") = 0
  <2>1. [i \in DOMAIN legs |-> IF legs[i].type = "DEBIT" /\ legs[i].currency = "USD"
                               THEN legs[i].amount ELSE 0]
          = [i \in {1} |-> 0]
    BY <1>1
  <2>2. 0 \in Int
    OBVIOUS
  <2>3. IntegerSum([i \in {1} |-> 0]) = 0 * Cardinality({1})
    BY <1>3, <2>2, SumConstant
  <2>4. Debits(legs, "USD") = IntegerSum([i \in {1} |-> 0])
    BY <2>1 DEF Debits, SumOf, IntegerSum
  <2> QED
    BY <1>3, <2>3, <2>4
<1>5. Credits(legs, "USD") = n
  <2>1. [i \in DOMAIN legs |-> IF legs[i].type = "CREDIT" /\ legs[i].currency = "USD"
                               THEN legs[i].amount ELSE 0]
          = [i \in {1} |-> n]
    BY <1>1
  <2>2. n \in Int /\ n * 1 = n
    OBVIOUS
  <2>3. IntegerSum([i \in {1} |-> n]) = n * Cardinality({1})
    BY <1>3, <2>2, SumConstant
  <2>4. Credits(legs, "USD") = IntegerSum([i \in {1} |-> n])
    BY <2>1 DEF Credits, SumOf, IntegerSum
  <2> QED
    BY <1>3, <2>2, <2>3, <2>4
<1>6. ~Balanced(legs)
  BY <1>2, <1>4, <1>5 DEF Balanced
<1> QED
  BY <1>6 DEF legs

(* Every operation keeps the types, and no journal is accepted.            *)
LEMMA FundStep == FundInv /\ [LoanNext]_loanVars => FundInv'
<1> SUFFICES ASSUME FundInv, [LoanNext]_loanVars PROVE FundInv'
  OBVIOUS
<1>0. /\ loan \in LoanFields /\ loan.paid = -1 /\ loan.balance = loan.principal
      /\ loan.status # "none" => loan.principal # 0
      /\ \A c \in CaseIds : cases[c] # "none" => loan.status # "none"
      /\ cases \in [CaseIds -> CaseStates] /\ cutOffs \in 0..MaxCutOffs
      /\ \A p \in PlanIds : plans[p].status # "none" => plans[p].case \in CaseIds
  BY DEF FundInv, LoanTypeOK, LoanFields, CaseStates, NothingFunded, PrincipalAsked
<1>1. ASSUME NEW status \in LoanStates \ {"none"}, loan' = [loan EXCEPT !.status = status],
             loan.status # "none", cases' \in [CaseIds -> CaseStates], UNCHANGED plans,
             cutOffs' \in 0..MaxCutOffs
      PROVE  FundInv'
  <2>1. /\ loan' \in LoanFields /\ loan'.paid = loan.paid /\ loan'.balance = loan.balance
        /\ loan'.principal = loan.principal /\ loan'.status = status
    BY <1>0, <1>1 DEF LoanFields
  <2> QED
    BY <1>0, <1>1, <2>1 DEF FundInv, LoanTypeOK, LoanFields, CaseStates, NothingFunded, PrincipalAsked
<1>2. ASSUME UNCHANGED <<loan, cases>>, cutOffs' \in 0..MaxCutOffs,
             plans' \in [PlanIds -> [status : {"none"}]
                           \cup [status : {"PROPOSED", "ACTIVE", "COMPLETED"}, case : CaseIds]]
      PROVE  FundInv'
  BY <1>2 DEF FundInv, LoanTypeOK, NothingFunded, PrincipalAsked
<1>3. ASSUME UNCHANGED loan, loan.status # "none", cases' \in [CaseIds -> CaseStates],
             cutOffs' \in 0..MaxCutOffs,
             plans' \in [PlanIds -> [status : {"none"}]
                           \cup [status : {"PROPOSED", "ACTIVE", "COMPLETED"}, case : CaseIds]]
      PROVE  FundInv'
  BY <1>3 DEF FundInv, LoanTypeOK, CaseStates, NothingFunded, PrincipalAsked
<1>4. ASSUME NEW c \in CaseIds, NEW to \in CaseStates, CaseBecomes(c, to)
      PROVE  cases' \in [CaseIds -> CaseStates]
  BY <1>0, <1>4 DEF CaseBecomes
<1>5. cutOffs < MaxCutOffs /\ cutOffs' = cutOffs + 1 => cutOffs' \in 0..MaxCutOffs
  BY <1>0, LoanConstants
<1>6. plans \in [PlanIds -> [status : {"none"}]
                   \cup [status : {"PROPOSED", "ACTIVE", "COMPLETED"}, case : CaseIds]]
  BY DEF FundInv, LoanTypeOK
<1>7. ASSUME NEW status \in LoanStates \ {"none"}, ThenLoan(status), loan.status # "none",
             cases' \in [CaseIds -> CaseStates], UNCHANGED plans
      PROVE  FundInv'
  <2>1. CASE loan' = [loan EXCEPT !.status = status] /\ UNCHANGED cutOffs
    BY <1>0, <1>1, <1>7, <2>1
  <2>2. CASE cutOffs < MaxCutOffs /\ cutOffs' = cutOffs + 1 /\ UNCHANGED loan
    BY <1>3, <1>5, <1>6, <1>7, <2>2
  <2> QED
    BY <1>7, <2>1, <2>2 DEF ThenLoan
<1>8. ASSUME NEW principal \in Principals, NEW term \in Terms, NEW dti \in {"none", "fine", "high"},
             Apply(principal, term, dti)
      PROVE  FundInv'
  <2>1. principal \in Nat \ {0} /\ term \in Nat \ {0}
    BY LoanConstants
  <2>2. loan' = [status |-> "UNDER_REVIEW", principal |-> principal, term |-> term,
                 dti |-> dti, balance |-> principal, paid |-> -1]
    BY <1>8 DEF Apply
  <2>3. /\ loan' \in LoanFields /\ loan'.paid = -1 /\ loan'.balance = loan'.principal
        /\ loan'.principal # 0 /\ loan'.status # "none"
    BY <2>1, <2>2 DEF LoanFields, LoanStates
  <2>4. UNCHANGED <<cases, plans, cutOffs>>
    BY <1>8 DEF Apply
  <2> QED
    BY <1>0, <1>6, <2>3, <2>4 DEF FundInv, LoanTypeOK, LoanFields, CaseStates, NothingFunded, PrincipalAsked
<1>9. ASSUME NEW score \in {"low", "fair", "good"}, Underwrite(score) PROVE FundInv'
  <2>1. PICK to : to = IF Approves(score) THEN "APPROVED" ELSE "DECLINED"
    OBVIOUS
  <2>2. loan' = [loan EXCEPT !.status = to] /\ UNCHANGED <<cases, plans, cutOffs>> /\ loan.status # "none"
    BY <1>9, <2>1 DEF Underwrite
  <2>3. to \in LoanStates \ {"none"}
    BY <2>1 DEF LoanStates
  <2> QED
    BY <1>0, <1>1, <2>2, <2>3
<1>10. CASE Disburse
  <2>1. loan.principal \in Nat \ {0} /\ loan.status # "none"
    BY <1>0, <1>10 DEF Disburse, LoanFields
  <2>2. UNCHANGED <<loan, cases, plans, cutOffs>>
    BY <1>10, <2>1, OneLeg DEF Disburse
  <2> QED
    BY <1>0, <1>2, <1>6, <2>2
<1>11. CASE ProcessPayment
  <2>1. loan.paid + 1 \notin 1..loan.term
    BY <1>0 DEF LoanFields
  <2>2. UNCHANGED <<loan, cases, plans, cutOffs>>
    BY <1>11, <2>1 DEF ProcessPayment
  <2> QED
    BY <1>0, <1>2, <1>6, <2>2
<1>12. ASSUME NEW c \in CaseIds, OpenCase(c) PROVE FundInv'
  <2>1. PICK to : to = IF loan.status = "ACTIVE" THEN "DELINQUENT" ELSE loan.status
    OBVIOUS
  <2>2. loan.status # "none" /\ to \in LoanStates \ {"none"}
    BY <1>0, <1>12, <2>1 DEF OpenCase, LoanFields, LoanStates
  <2>3. CaseBecomes(c, "OPEN") /\ ThenLoan(to) /\ UNCHANGED plans
    BY <1>12, <2>1 DEF OpenCase
  <2>4. cases' \in [CaseIds -> CaseStates]
    BY <1>4, <2>3 DEF CaseStates
  <2> QED
    BY <1>7, <2>2, <2>3, <2>4
<1>13. ASSUME NEW c \in CaseIds, LongOverdue(c) PROVE FundInv'
  <2>1. loan.status # "none" /\ loan' = [loan EXCEPT !.status = "DEFAULT"] /\ UNCHANGED <<cases, plans, cutOffs>>
    BY <1>0, <1>13 DEF LongOverdue
  <2>2. "DEFAULT" \in LoanStates \ {"none"}
    BY DEF LoanStates
  <2> QED
    BY <1>0, <1>1, <2>1, <2>2
<1>14. ASSUME NEW c \in CaseIds, ChargeOff(c) PROVE FundInv'
  <2>1. loan.status # "none" /\ CaseBecomes(c, "CHARGED_OFF") /\ ThenLoan("CHARGED_OFF") /\ UNCHANGED plans
    BY <1>0, <1>14 DEF ChargeOff
  <2>2. cases' \in [CaseIds -> CaseStates] /\ "CHARGED_OFF" \in LoanStates \ {"none"}
    BY <1>4, <2>1 DEF CaseStates, LoanStates
  <2> QED
    BY <1>7, <2>1, <2>2
<1>15. ASSUME NEW c \in CaseIds, Resolve(c) PROVE FundInv'
  <2>1. loan.status # "none" /\ CaseBecomes(c, "RESOLVED") /\ ThenLoan("ACTIVE") /\ UNCHANGED plans
    BY <1>0, <1>15 DEF Resolve
  <2>2. cases' \in [CaseIds -> CaseStates] /\ "ACTIVE" \in LoanStates \ {"none"}
    BY <1>4, <2>1 DEF CaseStates, LoanStates
  <2> QED
    BY <1>7, <2>1, <2>2
<1>16. ASSUME NEW p \in PlanIds, NEW row \in [status : {"PROPOSED", "ACTIVE", "COMPLETED"}, case : CaseIds],
              plans' = [plans EXCEPT ![p] = row]
       PROVE  plans' \in [PlanIds -> [status : {"none"}]
                            \cup [status : {"PROPOSED", "ACTIVE", "COMPLETED"}, case : CaseIds]]
  BY <1>6, <1>16
<1>17. ASSUME NEW c \in CaseIds, NEW p \in PlanIds, ProposePlan(c, p) PROVE FundInv'
  <2>1. /\ loan.status # "none" /\ plans' = [plans EXCEPT ![p] = [status |-> "PROPOSED", case |-> c]]
        /\ UNCHANGED loan
    BY <1>0, <1>17 DEF ProposePlan
  <2>2. plans' \in [PlanIds -> [status : {"none"}]
                      \cup [status : {"PROPOSED", "ACTIVE", "COMPLETED"}, case : CaseIds]]
    BY <1>16, <2>1
  <2>3. CASE CaseBecomes(c, "IN_WORKOUT") /\ UNCHANGED cutOffs
    <3>1. cases' \in [CaseIds -> CaseStates]
      BY <1>4, <2>3 DEF CaseStates
    <3> QED
      BY <1>0, <1>3, <2>1, <2>2, <2>3, <3>1
  <2>4. CASE cutOffs < MaxCutOffs /\ cutOffs' = cutOffs + 1 /\ UNCHANGED cases
    BY <1>2, <1>5, <2>1, <2>2, <2>4
  <2> QED
    BY <1>17, <2>3, <2>4 DEF ProposePlan
<1>18. ASSUME NEW p \in PlanIds, ActivatePlan(p) \/ CompletePlan(p) PROVE FundInv'
  <2>1. PICK to \in {"ACTIVE", "COMPLETED"} :
          plans[p].status # "none" /\ plans' = [plans EXCEPT ![p].status = to] /\ UNCHANGED <<loan, cases, cutOffs>>
    BY <1>18 DEF ActivatePlan, CompletePlan
  <2>2. PICK old \in [status : {"PROPOSED", "ACTIVE", "COMPLETED"}, case : CaseIds] : old = plans[p]
    BY <1>6, <2>1
  <2>3. PICK row : row = [old EXCEPT !.status = to]
    OBVIOUS
  <2>4. row \in [status : {"PROPOSED", "ACTIVE", "COMPLETED"}, case : CaseIds]
    BY <2>2, <2>3
  <2>5. plans' = [plans EXCEPT ![p] = row]
    BY <2>1, <2>2, <2>3
  <2>6. plans' \in [PlanIds -> [status : {"none"}]
                      \cup [status : {"PROPOSED", "ACTIVE", "COMPLETED"}, case : CaseIds]]
    BY <1>16, <2>4, <2>5
  <2> QED
    BY <1>0, <1>2, <2>1, <2>6
<1>19. CASE UNCHANGED loanVars
  BY <1>0, <1>2, <1>6, <1>19 DEF loanVars
<1> QED
  BY <1>8, <1>9, <1>10, <1>11, <1>12, <1>13, <1>14, <1>15, <1>17, <1>18, <1>19 DEF LoanNext

(* LoansService and CollectionsService keep their types, and between them  *)
(* never fund a loan: the one-leg journal of a disbursement is refused     *)
(* whatever is asked for, and payments need the schedule it would create.  *)
THEOREM LoansNeverFunded == LoanSpec => [](LoanTypeOK /\ NothingFunded)
<1>1. LoanInit => FundInv
  BY LoanConstants DEF LoanInit, FundInv, LoanTypeOK, LoanStates, NothingFunded, PrincipalAsked
<1>2. FundInv => LoanTypeOK /\ NothingFunded
  BY DEF FundInv
<1> QED
  BY <1>1, <1>2, FundStep, PTL DEF LoanSpec

-----------------------------------------------------------------------------
(* The lending desk.                                                       *)

Earning == {"OPEN", "PARTIAL_RETURN"}

(* A loan that was never recalled has been paid, or will be at its next    *)
(* return, for every day it was out.                                       *)
IncomeKept(l) ==
  /\ secLoan[l].opened <= lendingDay
  /\ secLoan[l].status = "none" => secLoan[l].qty = 0 /\ earned[l] = 0
  /\ secLoan[l].status = "RECALLED" => secLoan[l].recalled
  /\ secLoan[l].status \in Earning /\ ~secLoan[l].recalled =>
       earned[l] <= secLoan[l].income + secLoan[l].qty * (lendingDay - secLoan[l].opened)
  /\ secLoan[l].status = "RETURNED" =>
       secLoan[l].qty = 0 /\ (~secLoan[l].recalled => earned[l] <= secLoan[l].income)

LendInv ==
  /\ LendingTypeOK /\ BoardKeepsShares /\ BoardMatchesLoans
  /\ \A l \in Loans : IncomeKept(l)

LoanRows == [status : LoanStatuses, qty : Nat, opened : Nat, income : Nat, recalled : BOOLEAN]

(* The shares on loan are counted loan by loan.                            *)
OnLoans == [l \in Loans |-> OnLoan(l)]

(* What is on loan in all is the sum over the open loans.                  *)
LEMMA LoansAreSummed == TotalOnLoan = IntegerSum(OnLoans)
<1>1. \A f : FoldFunction(+, 0, f) = IntegerSum(f)
  BY DEF IntegerSum
<1> QED
  BY <1>1 DEF TotalOnLoan, OnLoans

(* And so it is after a step.                                              *)
LEMMA LoansAreSummedNext == (TotalOnLoan = IntegerSum(OnLoans))'
BY LoansAreSummed, PTL

(* Each loan counts with a natural number of shares.                       *)
LEMMA OnLoansTyped ==
  ASSUME LendingTypeOK
  PROVE  /\ TotalOnLoan = IntegerSum(OnLoans) /\ TotalOnLoan \in Nat
         /\ \A l \in Loans : OnLoan(l) \in Nat /\ OnLoan(l) <= TotalOnLoan
<1>1. TotalOnLoan = IntegerSum(OnLoans)
  BY LoansAreSummed
<1>2. \A l \in Loans : OnLoan(l) \in Nat
  BY DEF LendingTypeOK, OnLoan
<1>3. PICK f : f = OnLoans
  OBVIOUS
<1>4. IsFiniteSet(DOMAIN f) /\ DOMAIN f = Loans
  BY <1>3, LendingConstants DEF OnLoans
<1>5. \A l \in Loans : f[l] = OnLoan(l)
  BY <1>3 DEF OnLoans
<1>6. \A l \in DOMAIN f : f[l] \in Nat
  BY <1>2, <1>4, <1>5
<1>7. IntegerSum(f) \in Nat /\ \A l \in DOMAIN f : f[l] <= IntegerSum(f)
  BY <1>4, <1>6, SumOfNaturals
<1> QED
  BY <1>1, <1>2, <1>3, <1>4, <1>5, <1>7

(* One loan changes.                                                       *)
LEMMA OnLoanChanges ==
  ASSUME LendingTypeOK, LendingTypeOK', NEW l \in Loans,
         \A k \in Loans : k # l => OnLoan(k)' = OnLoan(k)
  PROVE  TotalOnLoan' = TotalOnLoan - OnLoan(l) + OnLoan(l)'
<1>1. TotalOnLoan = IntegerSum(OnLoans) /\ TotalOnLoan' = IntegerSum(OnLoans')
  BY LoansAreSummed, LoansAreSummedNext
<1>2. \A k \in Loans : OnLoan(k) \in Nat /\ OnLoan(k)' \in Nat
  BY DEF LendingTypeOK, OnLoan
<1>3. PICK f, g : f = OnLoans /\ g = OnLoans'
  OBVIOUS
<1>4. IsFiniteSet(DOMAIN f) /\ DOMAIN f = Loans /\ DOMAIN g = Loans
  BY <1>3, LendingConstants DEF OnLoans
<1>5. \A k \in Loans : f[k] = OnLoan(k) /\ g[k] = OnLoan(k)'
  BY <1>3 DEF OnLoans
<1>6. \A k \in DOMAIN f : f[k] \in Int
  BY <1>2, <1>4, <1>5
<1>7. g[l] \in Int /\ l \in DOMAIN f /\ \A k \in DOMAIN f : k # l => g[k] = f[k]
  BY <1>2, <1>4, <1>5
<1>8. IntegerSum(g) = IntegerSum(f) - f[l] + g[l]
  BY <1>4, <1>6, <1>7, SumChange
<1> QED
  BY <1>1, <1>3, <1>5, <1>8

(* Nothing about the loans changes.                                        *)
LEMMA OnLoanStays ==
  ASSUME UNCHANGED secLoan
  PROVE  TotalOnLoan' = TotalOnLoan /\ \A l \in Loans : OnLoan(l)' = OnLoan(l)
<1>1. OnLoans' = OnLoans /\ \A l \in Loans : OnLoan(l)' = OnLoan(l)
  BY DEF OnLoans, OnLoan
<1> QED
  BY <1>1, LoansAreSummed, LoansAreSummedNext

(* One loan becomes another one, and the rest of the book stays.           *)
LEMMA LoanWritten ==
  ASSUME LendingTypeOK, NEW l \in Loans, NEW s \in LoanRows, secLoan' = [secLoan EXCEPT ![l] = s]
  PROVE  /\ secLoan' \in [Loans -> LoanRows] /\ secLoan'[l] = s
         /\ \A k \in Loans : k # l => secLoan'[k] = secLoan[k] /\ OnLoan(k)' = OnLoan(k)
         /\ OnLoan(l)' = IF s.status = "BOUGHT_IN" THEN 0 ELSE s.qty
<1>1. secLoan \in [Loans -> LoanRows]
  BY DEF LendingTypeOK, LoanRows
<1> QED
  BY <1>1 DEF OnLoan

(* A new loan takes from the available shares what it adds to those on     *)
(* loan.                                                                   *)
LEMMA OpenLoanKeeps ==
  ASSUME LendInv, NEW l \in Loans, NEW d \in LoanSizes, OpenLoan(l, d)
  PROVE  LendInv'
<1>0. d \in Nat /\ lendingDay \in Nat
  BY LendingConstants DEF LendInv, LendingTypeOK
<1>1. PICK s : s = [NoLoan EXCEPT !.status = "OPEN", !.qty = d, !.opened = lendingDay]
  OBVIOUS
<1>2. s = [status |-> "OPEN", qty |-> d, opened |-> lendingDay, income |-> 0, recalled |-> FALSE]
  BY <1>1 DEF NoLoan
<1>3. s \in LoanRows
  BY <1>0, <1>2 DEF LoanRows, LoanStatuses
<1>4. /\ secLoan[l].status = "none" /\ secLoan' = [secLoan EXCEPT ![l] = s]
      /\ slab' = [avail |-> NonNegative(slab.avail - d), onLoan |-> slab.onLoan + d]
      /\ exactBoard' = (exactBoard /\ d <= slab.avail)
      /\ UNCHANGED <<buyIn, corpAction, lendingDay, listed, earned>>
  BY <1>1 DEF OpenLoan, Lent
<1>s. s.status = "OPEN" /\ s.qty = d /\ s.opened = lendingDay /\ s.income = 0 /\ ~s.recalled
  BY <1>2
<1>5. /\ secLoan' \in [Loans -> LoanRows] /\ secLoan'[l] = s /\ OnLoan(l)' = d
      /\ \A k \in Loans : k # l => secLoan'[k] = secLoan[k] /\ OnLoan(k)' = OnLoan(k)
  <2>1. LendingTypeOK /\ secLoan' = [secLoan EXCEPT ![l] = s]
    BY <1>4 DEF LendInv
  <2>2. OnLoan(l)' = IF s.status = "BOUGHT_IN" THEN 0 ELSE s.qty
    BY <1>3, <2>1, LoanWritten
  <2> QED
    BY <1>s, <1>3, <2>1, <2>2, LoanWritten
<1>6. slab.avail \in Nat /\ slab.onLoan \in Nat /\ listed \in Nat /\ exactBoard \in BOOLEAN
  BY DEF LendInv, LendingTypeOK
<1>7. PICK n \in Nat : n = NonNegative(slab.avail - d) /\ n >= slab.avail - d
                       /\ (d <= slab.avail => n = slab.avail - d)
  BY <1>0, <1>6 DEF NonNegative
<1>8. slab' = [avail |-> n, onLoan |-> slab.onLoan + d]
  BY <1>4, <1>7
<1>9. LendingTypeOK'
  BY <1>0, <1>4, <1>5, <1>6, <1>8 DEF LendInv, LendingTypeOK, LoanRows
<1>10. BoardKeepsShares'
  BY <1>0, <1>4, <1>6, <1>7, <1>8 DEF LendInv, BoardKeepsShares
<1>11. BoardMatchesLoans'
  <2>1. TotalOnLoan' = TotalOnLoan - OnLoan(l) + d
    BY <1>5, <1>9, OnLoanChanges DEF LendInv
  <2>2. OnLoan(l) = 0 /\ TotalOnLoan \in Nat
    BY <1>4, OnLoansTyped DEF LendInv, IncomeKept, OnLoan
  <2>3. exactBoard' => exactBoard /\ d <= slab.avail
    BY <1>4
  <2>4. /\ exactBoard => slab.onLoan = TotalOnLoan /\ slab.avail + slab.onLoan = listed
        /\ slab'.onLoan = slab.onLoan + d /\ slab'.avail = n /\ listed' = listed
    BY <1>4, <1>8 DEF LendInv, BoardMatchesLoans
  <2> QED
    BY <1>0, <1>6, <1>7, <2>1, <2>2, <2>3, <2>4 DEF BoardMatchesLoans
<1>12. ASSUME NEW k \in Loans PROVE IncomeKept(k)'
  <2>1. CASE k # l
    BY <1>4, <1>5, <2>1 DEF LendInv, IncomeKept
  <2>2. CASE k = l
    <3>1. earned'[l] = 0
      BY <1>4 DEF LendInv, IncomeKept
    <3>2. d * (lendingDay - lendingDay) = 0
      BY <1>0
    <3> QED
      BY <1>0, <1>s, <1>4, <1>5, <2>2, <3>1, <3>2 DEF IncomeKept, Earning
  <2> QED
    BY <2>1, <2>2
<1> QED
  BY <1>9, <1>10, <1>11, <1>12 DEF LendInv

(* What comes back moves the other way, and the fee accrues on what was    *)
(* out.                                                                    *)
LEMMA ReturnLoanKeeps ==
  ASSUME LendInv, NEW l \in Loans, NEW d \in LoanSizes, ReturnLoan(l, d)
  PROVE  LendInv'
<1>0. d \in Nat /\ lendingDay \in Nat /\ secLoan \in [Loans -> LoanRows]
  BY LendingConstants DEF LendInv, LendingTypeOK, LoanRows
<1>1. PICK o \in LoanRows : o = secLoan[l]
  BY <1>0
<1>2. /\ o.status \in LoanStatuses /\ o.qty \in Nat /\ o.opened \in Nat /\ o.income \in Nat
      /\ o.recalled \in BOOLEAN /\ o.opened <= lendingDay
  BY <1>1 DEF LoanRows, LendInv, IncomeKept
<1>3. PICK a \in Nat : /\ a = Accrued(o)
                       /\ o.status \in Earning => a = o.qty * (lendingDay - o.opened)
  <2>1. lendingDay - o.opened \in Nat
    BY <1>0, <1>2
  <2>2. o.qty * (lendingDay - o.opened) \in Nat
    BY <1>2, <2>1
  <2> QED
    BY <2>2 DEF Accrued, Earning
<1>4. PICK to \in {"RETURNED", "PARTIAL_RETURN"} :
        to = IF o.qty - d = 0 THEN "RETURNED" ELSE "PARTIAL_RETURN"
  OBVIOUS
<1>5. PICK s : s = [status |-> to, qty |-> o.qty - d, opened |-> o.opened, income |-> o.income + a,
                    recalled |-> o.recalled]
  OBVIOUS
<1>6. /\ o.status \in {"OPEN", "PARTIAL_RETURN", "RECALLED"} /\ d <= o.qty
      /\ secLoan' = [secLoan EXCEPT ![l].qty = o.qty - d, ![l].status = to, ![l].income = @ + a]
      /\ slab' = [avail |-> slab.avail + d, onLoan |-> NonNegative(slab.onLoan - d)]
      /\ UNCHANGED <<buyIn, corpAction, lendingDay, listed, exactBoard, earned>>
  BY <1>1, <1>3, <1>4 DEF ReturnLoan, GivenBack
<1>7. secLoan' = [secLoan EXCEPT ![l] = s]
  <2>1. PICK s1 : s1 = [o EXCEPT !.qty = o.qty - d]
    OBVIOUS
  <2>2. PICK s2 : s2 = [s1 EXCEPT !.status = to]
    OBVIOUS
  <2>3. PICK s3 : s3 = [s2 EXCEPT !.income = @ + a]
    OBVIOUS
  <2>4. s3 = s
    <3>1. o = [status |-> o.status, qty |-> o.qty, opened |-> o.opened, income |-> o.income,
               recalled |-> o.recalled]
      BY DEF LoanRows
    <3>2. s1 = [status |-> o.status, qty |-> o.qty - d, opened |-> o.opened, income |-> o.income,
                recalled |-> o.recalled]
      BY <2>1, <3>1
    <3>3. s2 = [status |-> to, qty |-> o.qty - d, opened |-> o.opened, income |-> o.income,
                recalled |-> o.recalled]
      BY <2>2, <3>2
    <3> QED
      BY <1>5, <2>3, <3>3
  <2>5. PICK f1 : f1 = [secLoan EXCEPT ![l].qty = o.qty - d]
    OBVIOUS
  <2>6. PICK f2 : f2 = [f1 EXCEPT ![l].status = to]
    OBVIOUS
  <2>7. secLoan' = [f2 EXCEPT ![l].income = @ + a]
    BY <1>6, <2>5, <2>6
  <2>8. f1 = [secLoan EXCEPT ![l] = s1]
    BY <1>0, <1>1, <2>1, <2>5
  <2>9. f2 = [secLoan EXCEPT ![l] = s2]
    BY <1>0, <2>2, <2>6, <2>8
  <2> QED
    BY <1>0, <2>3, <2>4, <2>7, <2>9
<1>8. s \in LoanRows /\ o.qty - d \in Nat
  BY <1>0, <1>2, <1>4, <1>5, <1>6 DEF LoanRows, LoanStatuses
<1>s. /\ s.status = to /\ s.qty = o.qty - d /\ s.opened = o.opened /\ s.income = o.income + a
      /\ s.recalled = o.recalled
  BY <1>5
<1>9. /\ secLoan' \in [Loans -> LoanRows] /\ secLoan'[l] = s /\ OnLoan(l)' = o.qty - d
      /\ \A k \in Loans : k # l => secLoan'[k] = secLoan[k] /\ OnLoan(k)' = OnLoan(k)
  <2>1. LendingTypeOK /\ to # "BOUGHT_IN"
    BY DEF LendInv
  <2>2. OnLoan(l)' = IF s.status = "BOUGHT_IN" THEN 0 ELSE s.qty
    BY <1>7, <1>8, <2>1, LoanWritten
  <2> QED
    BY <1>s, <1>7, <1>8, <2>1, <2>2, LoanWritten
<1>10. slab.avail \in Nat /\ slab.onLoan \in Nat /\ listed \in Nat /\ exactBoard \in BOOLEAN
  BY DEF LendInv, LendingTypeOK
<1>11. PICK n \in Nat : n = NonNegative(slab.onLoan - d) /\ n >= slab.onLoan - d
                        /\ (d <= slab.onLoan => n = slab.onLoan - d)
  BY <1>0, <1>10 DEF NonNegative
<1>12. slab' = [avail |-> slab.avail + d, onLoan |-> n]
  BY <1>6, <1>11
<1>13. LendingTypeOK'
  BY <1>0, <1>6, <1>9, <1>10, <1>12 DEF LendInv, LendingTypeOK, LoanRows
<1>14. BoardKeepsShares'
  BY <1>0, <1>6, <1>10, <1>11, <1>12 DEF LendInv, BoardKeepsShares
<1>15. BoardMatchesLoans'
  <2>1. TotalOnLoan' = TotalOnLoan - OnLoan(l) + (o.qty - d)
    BY <1>9, <1>13, OnLoanChanges DEF LendInv
  <2>2. OnLoan(l) = o.qty /\ TotalOnLoan \in Nat /\ OnLoan(l) <= TotalOnLoan
    BY <1>1, <1>6, OnLoansTyped DEF LendInv, OnLoan
  <2> QED
    BY <1>0, <1>2, <1>6, <1>10, <1>11, <1>12, <2>1, <2>2 DEF LendInv, BoardMatchesLoans
<1>16. ASSUME NEW k \in Loans PROVE IncomeKept(k)'
  <2>1. CASE k # l
    BY <1>6, <1>9, <2>1 DEF LendInv, IncomeKept
  <2>2. CASE k = l
    <3>1. PICK e \in Nat : e = earned[l] /\ e = earned'[l]
      BY <1>6 DEF LendInv, LendingTypeOK
    <3>2. ~o.recalled => e <= o.income + a
      BY <1>1, <1>3, <1>6, <3>1 DEF LendInv, IncomeKept, Earning
    <3>3. (o.qty - d) * (lendingDay - o.opened) \in Nat
      <4>1. lendingDay - o.opened \in Nat
        BY <1>0, <1>2
      <4> QED
        BY <1>8, <4>1
    <3>4. ~o.recalled => e <= o.income + a + (o.qty - d) * (lendingDay - o.opened)
      <4>1. PICK z \in Nat : z = (o.qty - d) * (lendingDay - o.opened)
        BY <3>3
      <4> QED
        BY <1>2, <3>1, <3>2, <4>1
    <3>5. to = "RETURNED" => o.qty - d = 0
      BY <1>4
    <3>6. /\ secLoan'[l] = s /\ lendingDay' = lendingDay /\ earned'[l] = e /\ to # "none"
          /\ to # "RECALLED" /\ s.opened <= lendingDay
      BY <1>2, <1>s, <1>6, <1>9, <3>1
    <3>7. ~s.recalled => e <= s.income + s.qty * (lendingDay - s.opened)
      BY <1>s, <3>4
    <3>8. s.status = "RETURNED" => s.qty = 0 /\ (~s.recalled => e <= s.income)
      BY <1>s, <3>2, <3>5
    <3> QED
      BY ONLY <1>s, <2>2, <3>6, <3>7, <3>8 DEF IncomeKept
  <2> QED
    BY <2>1, <2>2
<1> QED
  BY <1>13, <1>14, <1>15, <1>16 DEF LendInv

(* A step that changes a loan's status and flag only, not whether it is    *)
(* counted, and one that touches notices or payments only.                 *)
LEMMA RecallLoanKeeps ==
  ASSUME LendInv, NEW l \in Loans, NEW d \in LoanSizes, RecallLoan(l, d)
  PROVE  LendInv'
<1>0. secLoan \in [Loans -> LoanRows]
  BY DEF LendInv, LendingTypeOK, LoanRows
<1>1. PICK o \in LoanRows : o = secLoan[l]
  BY <1>0
<1>2. PICK s : s = [o EXCEPT !.status = "RECALLED", !.recalled = TRUE]
  OBVIOUS
<1>3. /\ s \in LoanRows /\ s.status = "RECALLED" /\ s.recalled /\ s.qty = o.qty /\ s.opened = o.opened
  BY <1>2 DEF LoanRows, LoanStatuses
<1>4. /\ o.status \in {"OPEN", "PARTIAL_RETURN"}
      /\ secLoan' = [secLoan EXCEPT ![l].status = "RECALLED", ![l].recalled = TRUE]
      /\ UNCHANGED <<slab, buyIn, corpAction, lendingDay, listed, exactBoard, earned>>
  BY <1>1 DEF RecallLoan
<1>5. secLoan' = [secLoan EXCEPT ![l] = s]
  BY <1>0, <1>1, <1>2, <1>4
<1>6. /\ secLoan' \in [Loans -> LoanRows] /\ secLoan'[l] = s /\ OnLoan(l)' = o.qty
      /\ \A k \in Loans : k # l => secLoan'[k] = secLoan[k] /\ OnLoan(k)' = OnLoan(k)
  BY <1>3, <1>5, LoanWritten DEF LendInv
<1>7. LendingTypeOK'
  BY <1>4, <1>6 DEF LendInv, LendingTypeOK, LoanRows
<1>8. TotalOnLoan' = TotalOnLoan
  <2>1. OnLoan(l) = o.qty /\ TotalOnLoan \in Nat /\ o.qty \in Nat
    BY <1>1, <1>4, OnLoansTyped DEF LendInv, OnLoan, LoanRows
  <2>2. TotalOnLoan' = TotalOnLoan - OnLoan(l) + o.qty
    BY <1>6, <1>7, OnLoanChanges DEF LendInv
  <2> QED
    BY <2>1, <2>2
<1>9. BoardKeepsShares' /\ BoardMatchesLoans'
  BY <1>4, <1>8 DEF LendInv, BoardKeepsShares, BoardMatchesLoans
<1>10. ASSUME NEW k \in Loans PROVE IncomeKept(k)'
  BY <1>1, <1>3, <1>4, <1>6 DEF LendInv, IncomeKept, Earning
<1> QED
  BY <1>7, <1>9, <1>10 DEF LendInv

(* What changes neither the board nor the loans keeps what is said of      *)
(* them.                                                                   *)
LEMMA PapersKeep ==
  ASSUME LendInv, LendingTypeOK', UNCHANGED <<slab, secLoan, lendingDay, listed, exactBoard, earned>>
  PROVE  LendInv'
<1>1. BoardKeepsShares' /\ BoardMatchesLoans'
  BY OnLoanStays DEF LendInv, BoardKeepsShares, BoardMatchesLoans
<1>2. ASSUME NEW k \in Loans PROVE IncomeKept(k)'
  BY DEF LendInv, IncomeKept
<1> QED
  BY <1>1, <1>2 DEF LendInv

(* A buy-in is announced on paper only.                                    *)
LEMMA InitiateBuyInKeeps ==
  ASSUME LendInv, NEW b \in BuyIns, NEW l \in Loans, NEW d \in LoanSizes, InitiateBuyIn(b, l, d)
  PROVE  LendInv'
<1>1. buyIn' = [buyIn EXCEPT ![b] = [status |-> "PENDING", loan |-> l, qty |-> d]]
      /\ UNCHANGED <<slab, secLoan, corpAction, lendingDay, listed, exactBoard, earned>>
  BY DEF InitiateBuyIn
<1>2. PICK n : n = [status |-> "PENDING", loan |-> l, qty |-> d]
  OBVIOUS
<1>3. n \in [status : {"PENDING", "EXECUTED"}, loan : Loans, qty : Nat]
  BY <1>2, LendingConstants
<1>4. LendingTypeOK'
  BY <1>1, <1>2, <1>3 DEF LendInv, LendingTypeOK
<1> QED
  BY <1>1, <1>4, PapersKeep

(* So is a corporate action.                                               *)
LEMMA CorpActionKeeps ==
  ASSUME LendInv, NEW c \in CorpActions,
         RecordCorporateAction(c) \/ ManufacturePayment(c) \/ SettleCorporateAction(c)
  PROVE  LendInv'
<1>1. PICK to \in {"PENDING", "MANUFACTURED", "SETTLED"} :
        /\ corpAction' = [corpAction EXCEPT ![c] = to]
        /\ UNCHANGED <<slab, secLoan, buyIn, lendingDay, listed, exactBoard, earned>>
  BY DEF RecordCorporateAction, ManufacturePayment, SettleCorporateAction
<1>2. LendingTypeOK'
  BY <1>1 DEF LendInv, LendingTypeOK
<1> QED
  BY <1>1, <1>2, PapersKeep

(* A buy-in ends the loan it was announced for.                            *)
LEMMA ExecuteBuyInKeeps ==
  ASSUME LendInv, NEW b \in BuyIns, ExecuteBuyIn(b)
  PROVE  LendInv'
<1>0. secLoan \in [Loans -> LoanRows]
  BY DEF LendInv, LendingTypeOK, LoanRows
<1>1. PICK l, d : l = buyIn[b].loan /\ d = buyIn[b].qty
  OBVIOUS
<1>2. l \in Loans /\ d \in Nat /\ buyIn[b] = [status |-> "PENDING", loan |-> l, qty |-> d]
  BY <1>1 DEF ExecuteBuyIn, LendInv, LendingTypeOK
<1>3. PICK o \in LoanRows : o = secLoan[l]
  BY <1>0, <1>2
<1>4. PICK s : s = [o EXCEPT !.status = "BOUGHT_IN"]
  OBVIOUS
<1>5. s \in LoanRows /\ s.status = "BOUGHT_IN" /\ s.opened = o.opened
  BY <1>4 DEF LoanRows, LoanStatuses
<1>6. /\ secLoan' = [secLoan EXCEPT ![l].status = "BOUGHT_IN"]
      /\ slab' = [avail |-> slab.avail + d, onLoan |-> NonNegative(slab.onLoan - d)]
      /\ exactBoard' = (exactBoard /\ o.status # "BOUGHT_IN" /\ d = o.qty)
      /\ buyIn' = [buyIn EXCEPT ![b].status = "EXECUTED"]
      /\ UNCHANGED <<corpAction, lendingDay, listed, earned>>
  BY <1>1, <1>3 DEF ExecuteBuyIn, GivenBack
<1>7. secLoan' = [secLoan EXCEPT ![l] = s]
  BY <1>0, <1>2, <1>3, <1>4, <1>6
<1>8. /\ secLoan' \in [Loans -> LoanRows] /\ secLoan'[l] = s /\ OnLoan(l)' = 0
      /\ \A k \in Loans : k # l => secLoan'[k] = secLoan[k] /\ OnLoan(k)' = OnLoan(k)
  BY <1>2, <1>5, <1>7, LoanWritten DEF LendInv
<1>9. slab.avail \in Nat /\ slab.onLoan \in Nat /\ listed \in Nat /\ exactBoard \in BOOLEAN
  BY DEF LendInv, LendingTypeOK
<1>10. PICK n \in Nat : n = NonNegative(slab.onLoan - d) /\ n >= slab.onLoan - d
                        /\ (d <= slab.onLoan => n = slab.onLoan - d)
  BY <1>2, <1>9 DEF NonNegative
<1>11. slab' = [avail |-> slab.avail + d, onLoan |-> n]
  BY <1>6, <1>10
<1>12. LendingTypeOK'
  <2>1. PICK m : m = [status |-> "EXECUTED", loan |-> l, qty |-> d]
    OBVIOUS
  <2>2. m \in [status : {"PENDING", "EXECUTED"}, loan : Loans, qty : Nat]
    BY <1>2, <2>1
  <2>0. [buyIn[b] EXCEPT !.status = "EXECUTED"] = m
    BY <1>2, <2>1
  <2>3. buyIn' = [buyIn EXCEPT ![b] = m]
    BY <1>6, <2>0
  <2>4. /\ buyIn' \in [BuyIns -> [status : {"none"}, qty : {0}]
                         \cup [status : {"PENDING", "EXECUTED"}, loan : Loans, qty : Nat]]
    BY <2>2, <2>3 DEF LendInv, LendingTypeOK
  <2> QED
    BY <1>2, <1>6, <1>8, <1>9, <1>11, <2>4 DEF LendInv, LendingTypeOK, LoanRows
<1>13. BoardKeepsShares'
  BY <1>2, <1>6, <1>9, <1>10, <1>11 DEF LendInv, BoardKeepsShares
<1>14. BoardMatchesLoans'
  <2>1. TotalOnLoan' = TotalOnLoan - OnLoan(l) + 0
    BY <1>2, <1>8, <1>12, OnLoanChanges DEF LendInv
  <2>2. /\ TotalOnLoan \in Nat /\ OnLoan(l) <= TotalOnLoan
        /\ o.status # "BOUGHT_IN" => OnLoan(l) = o.qty
    BY <1>2, <1>3, OnLoansTyped DEF LendInv, OnLoan
  <2>3. OnLoan(l) \in Nat
    BY <1>2, OnLoansTyped DEF LendInv
  <2>4. exactBoard' => exactBoard /\ o.status # "BOUGHT_IN" /\ d = o.qty
    BY <1>6
  <2>5. /\ exactBoard => slab.onLoan = TotalOnLoan /\ slab.avail + slab.onLoan = listed
        /\ slab'.onLoan = n /\ slab'.avail = slab.avail + d /\ listed' = listed
    BY <1>6, <1>11 DEF LendInv, BoardMatchesLoans
  <2> QED
    BY <1>2, <1>9, <1>10, <2>1, <2>2, <2>3, <2>4, <2>5 DEF BoardMatchesLoans
<1>15. ASSUME NEW k \in Loans PROVE IncomeKept(k)'
  BY <1>3, <1>5, <1>6, <1>8 DEF LendInv, IncomeKept, Earning
<1> QED
  BY <1>12, <1>13, <1>14, <1>15 DEF LendInv

(* A listing replaces the board, which then is exact only without open     *)
(* loans.                                                                  *)
LEMMA ListingKeeps ==
  ASSUME LendInv, NEW n \in Listings, AddSLABEntry(n)
  PROVE  LendInv'
<1>1. /\ n \in Nat /\ slab' = [avail |-> n, onLoan |-> 0] /\ listed' = n
      /\ exactBoard' = (TotalOnLoan = 0)
      /\ UNCHANGED <<secLoan, buyIn, corpAction, lendingDay, earned>>
  BY LendingConstants DEF AddSLABEntry
<1>2. LendingTypeOK'
  BY <1>1 DEF LendInv, LendingTypeOK
<1>3. BoardKeepsShares' /\ BoardMatchesLoans'
  <2>1. TotalOnLoan' = TotalOnLoan /\ (exactBoard' => TotalOnLoan = 0)
    BY <1>1, OnLoanStays
  <2>2. slab'.avail = n /\ slab'.onLoan = 0 /\ listed' = n
    BY <1>1
  <2> QED
    BY <1>1, <2>1, <2>2 DEF BoardKeepsShares, BoardMatchesLoans
<1>4. ASSUME NEW k \in Loans PROVE IncomeKept(k)'
  BY <1>1 DEF LendInv, IncomeKept
<1> QED
  BY <1>2, <1>3, <1>4 DEF LendInv

(* A day more is earned by what is out, and owed by the loan.              *)
LEMMA LendingDayKeeps == ASSUME LendInv, NextLendingDay PROVE LendInv'
<1>1. /\ lendingDay' = lendingDay + 1 /\ lendingDay \in Nat
      /\ earned' = [l \in Loans |-> earned[l] + OnLoan(l)]
      /\ UNCHANGED <<slab, secLoan, buyIn, corpAction, listed, exactBoard>>
  BY DEF NextLendingDay, LendInv, LendingTypeOK
<1>2. \A l \in Loans : OnLoan(l) \in Nat /\ earned[l] \in Nat
  BY OnLoansTyped DEF LendInv, LendingTypeOK
<1>3. LendingTypeOK'
  <2>1. lendingDay' \in Nat
    BY <1>1
  <2>2. earned' \in [Loans -> Nat]
    BY <1>1, <1>2
  <2> QED
    BY <1>1, <2>1, <2>2 DEF LendInv, LendingTypeOK
<1>4. BoardKeepsShares' /\ BoardMatchesLoans'
  BY <1>1, OnLoanStays DEF LendInv, BoardKeepsShares, BoardMatchesLoans
<1>5. ASSUME NEW k \in Loans PROVE IncomeKept(k)'
  <2>1. PICK o \in LoanRows : o = secLoan[k] /\ o = secLoan'[k]
    BY <1>1 DEF LendInv, LendingTypeOK, LoanRows
  <2>2. o.qty \in Nat /\ o.opened \in Nat /\ o.income \in Nat /\ o.opened <= lendingDay
    BY <2>1 DEF LoanRows, LendInv, IncomeKept
  <2>3. earned'[k] = earned[k] + (IF o.status = "BOUGHT_IN" THEN 0 ELSE o.qty)
    BY <1>1, <2>1 DEF OnLoan
  <2>4. o.qty * ((lendingDay + 1) - o.opened) = o.qty * (lendingDay - o.opened) + o.qty
    <3>1. PICK days \in Int : days = lendingDay - o.opened
      BY <1>1, <2>2
    <3>2. (lendingDay + 1) - o.opened = days + 1
      BY <1>1, <2>2, <3>1
    <3>3. PICK shares \in Int : shares = o.qty
      BY <2>2
    <3>4. shares * (days + 1) = shares * days + shares
      BY ONLY days \in Int, shares \in Int
    <3> QED
      BY ONLY <3>1, <3>2, <3>3, <3>4, Zenon
  <2>5. o.qty * (lendingDay - o.opened) \in Int
    BY <1>1, <2>2
  <2>6. o.opened <= lendingDay'
    BY <1>1, <2>2
  <2>k. IncomeKept(k)
    BY DEF LendInv
  <2>e. o.qty = 0 => earned'[k] = earned[k]
    BY <1>2, <2>2, <2>3
  <2>7. o.status = "none" => o.qty = 0 /\ earned'[k] = 0
    BY <2>1, <2>k, <2>e DEF IncomeKept
  <2>8. o.status = "RETURNED" => o.qty = 0 /\ (~o.recalled => earned'[k] <= o.income)
    BY <2>1, <2>k, <2>e DEF IncomeKept
  <2>9. o.status \in Earning /\ ~o.recalled =>
          earned'[k] <= o.income + o.qty * (lendingDay' - o.opened)
    <3>1. ASSUME o.status \in Earning, ~o.recalled
          PROVE  earned[k] <= o.income + o.qty * (lendingDay - o.opened)
      BY <2>1, <3>1 DEF LendInv, IncomeKept
    <3>2. PICK z \in Int : z = o.qty * (lendingDay - o.opened)
      BY <2>5
    <3>3. o.qty * (lendingDay' - o.opened) = z + o.qty
      BY <1>1, <2>4, <3>2
    <3>4. o.status \in Earning => earned'[k] = earned[k] + o.qty
      BY <2>3 DEF Earning
    <3> QED
      BY <1>2, <2>2, <3>1, <3>2, <3>3, <3>4
  <2>10. o.status = "RECALLED" => o.recalled
    BY <2>1 DEF LendInv, IncomeKept
  <2> QED
    BY <2>1, <2>6, <2>7, <2>8, <2>9, <2>10 DEF IncomeKept
<1> QED
  BY <1>3, <1>4, <1>5 DEF LendInv

(* An empty board is sound.                                                *)
LEMMA LendingStarts == LendingInit => LendInv
<1> SUFFICES ASSUME LendingInit PROVE LendInv
  OBVIOUS
<1>1. NoLoan \in LoanRows /\ NoLoan.qty = 0 /\ NoLoan.status = "none" /\ NoLoan.opened = 0
  BY DEF NoLoan, LoanRows, LoanStatuses
<1>2. \A l \in Loans : secLoan[l] = NoLoan /\ earned[l] = 0
  BY DEF LendingInit
<1>3. LendingTypeOK
  BY <1>1, LendingConstants DEF LendingInit, LendingTypeOK, LoanRows
<1>4. TotalOnLoan = 0
  <2>1. PICK f : f = OnLoans
    OBVIOUS
  <2>2. IsFiniteSet(DOMAIN f) /\ \A l \in DOMAIN f : f[l] = 0
    BY <1>1, <1>2, <2>1, LendingConstants DEF OnLoans, OnLoan
  <2>3. \A l \in DOMAIN f : f[l] \in Nat
    BY <2>2
  <2>4. IntegerSum(f) = 0
    BY <2>2, <2>3, SumOfNaturals
  <2> QED
    BY <1>3, <2>1, <2>4, OnLoansTyped
<1>5. BoardKeepsShares /\ BoardMatchesLoans
  BY <1>4, LendingConstants DEF LendingInit, BoardKeepsShares, BoardMatchesLoans
<1>6. \A l \in Loans : IncomeKept(l)
  BY <1>1, <1>2 DEF LendingInit, IncomeKept, Earning
<1> QED
  BY <1>3, <1>5, <1>6 DEF LendInv

(* Every call keeps the invariant of the lending desk.                     *)
LEMMA LendingStep == LendInv /\ [LendingNext]_lendingVars => LendInv'
<1> SUFFICES ASSUME LendInv, [LendingNext]_lendingVars PROVE LendInv'
  OBVIOUS
<1>1. CASE UNCHANGED lendingVars
  <2>1. LendingTypeOK'
    BY <1>1 DEF lendingVars, LendInv, LendingTypeOK
  <2> QED
    BY <1>1, <2>1, PapersKeep DEF lendingVars
<1>2. CASE LendingNext
  BY <1>2, OpenLoanKeeps, ReturnLoanKeeps, RecallLoanKeeps, InitiateBuyInKeeps, ExecuteBuyInKeeps,
     CorpActionKeeps, ListingKeeps, LendingDayKeeps DEF LendingNext, BookNext, PaymentNext
<1> QED
  BY <1>1, <1>2

(* The invariant says what is promised.                                    *)
LEMMA LendingImplied == LendInv => LendingTypeOK /\ LendingSound
<1> SUFFICES ASSUME LendInv PROVE LendingTypeOK /\ LendingSound
  OBVIOUS
<1>1. IncomeIsComplete
  BY DEF LendInv, IncomeKept, IncomeIsComplete, LendingTypeOK
<1> QED
  BY <1>1 DEF LendInv, LendingSound

(* The lending board of SecuritiesLendingService keeps every share that    *)
(* was listed; it shows the open loans as long as every call fits it; and  *)
(* a loan returned in full and never recalled earned every share-day lent. *)
THEOREM SecuritiesLent == LendingSpec => [](LendingTypeOK /\ LendingSound)
<1>1. LendingInit => LendInv
  BY LendingStarts
<1>2. LendInv /\ [LendingNext]_lendingVars => LendInv'
  BY LendingStep
<1>3. LendInv => LendingTypeOK /\ LendingSound
  BY LendingImplied
<1> QED
  BY <1>1, <1>2, <1>3, PTL DEF LendingSpec

-----------------------------------------------------------------------------
(* The prime accounts.                                                     *)

AccountRows ==
  [open : BOOLEAN, lends : BOOLEAN, nav : Nat, debit : Nat, credit : Nat, long : Nat,
   short : Nat, equity : Int, callLevel5 : Nat]
HeldRows ==
  [side : {"LONG", "SHORT"}, account : Accounts, value : Nat, rehypothecated : BOOLEAN]
PositionStores == [Positions -> [side : {"none"}] \cup HeldRows]
FacilityRows == [status : {"ACTIVE"}, account : Accounts, drawn : Nat, available : Nat]

(* Positions and facilities belong to open accounts, and records of        *)
(* rehypothecation to positions.                                           *)
BelongToOpen ==
  /\ \A p \in Positions : primePosition[p].side # "none" =>
       primeAccount[primePosition[p].account].open
  /\ \A f \in Facilities : facility[f].status # "none" => primeAccount[facility[f].account].open
  /\ \A h \in Rehyps : rehyp[h].status # "none" => primePosition[rehyp[h].position].side # "none"

PrimeInv == PrimeTypeOK /\ MetricsFresh /\ RehypFlagAgrees /\ BelongToOpen

(* What a position counts for, and a facility.                             *)
Worth(r, x, side) == IF r.side = side /\ r.account = x THEN r.value ELSE 0
Owes(r, x) == IF r.status = "ACTIVE" /\ r.account = x THEN r.drawn ELSE 0

(* What a stored position is made of.                                      *)
LEMMA ShapeOfPosition ==
  ASSUME NEW P \in PositionStores, NEW p \in Positions
  PROVE  \/ P[p] = [side |-> "none"]
         \/ P[p].side # "none" /\ P[p] \in HeldRows
BY DEF PositionStores, HeldRows

(* What a stored facility is made of.                                      *)
LEMMA ShapeOfFacility ==
  ASSUME PrimeTypeOK, NEW f \in Facilities
  PROVE  \/ facility[f] = [status |-> "none"]
         \/ facility[f].status = "ACTIVE" /\ facility[f] \in FacilityRows
BY DEF PrimeTypeOK, FacilityRows

(* The totals of an account are sums of integers.                          *)
LEMMA TotalIsSum == \A f : Total(f) = IntegerSum(f)
BY DEF Total, IntegerSum

(* Values are natural, and change only with the positions counted.         *)
LEMMA ValueTyped ==
  ASSUME NEW P \in PositionStores, NEW x \in Accounts, NEW side \in {"LONG", "SHORT"}
  PROVE  /\ ValueOn(P, x, side) \in Nat
         /\ (\A p \in Positions : P[p].side = side => P[p].account # x)
              => ValueOn(P, x, side) = 0
<1>1. PICK v : v = [p \in Positions |->
           IF P[p].side = side /\ P[p].account = x
           THEN P[p].value ELSE 0]
  OBVIOUS
<1>2. DOMAIN v = Positions /\ IsFiniteSet(DOMAIN v) /\ ValueOn(P, x, side) = IntegerSum(v)
  BY <1>1, TotalIsSum, PrimeConstants DEF ValueOn
<1>3. \A p \in DOMAIN v : v[p] \in Nat
  BY <1>1, <1>2, ShapeOfPosition DEF HeldRows
<1>4. IntegerSum(v) \in Nat /\ ((\A p \in DOMAIN v : v[p] = 0) => IntegerSum(v) = 0)
  BY <1>2, <1>3, SumOfNaturals
<1>5. (\A p \in Positions : P[p].side = side => P[p].account # x)
        => \A p \in DOMAIN v : v[p] = 0
  BY <1>1, <1>2
<1> QED
  BY <1>2, <1>4, <1>5

(* The value of a side stays when no position of the account moves.        *)
LEMMA ValueUnmoved ==
  ASSUME NEW P, NEW Q, NEW x, NEW side,
         \A p \in Positions : Worth(Q[p], x, side) = Worth(P[p], x, side)
  PROVE  ValueOn(Q, x, side) = ValueOn(P, x, side)
<1>1. [p \in Positions |-> IF Q[p].side = side /\ Q[p].account = x THEN Q[p].value ELSE 0]
      = [p \in Positions |-> IF P[p].side = side /\ P[p].account = x THEN P[p].value ELSE 0]
  BY DEF Worth
<1> QED
  BY <1>1 DEF ValueOn

(* What was drawn, likewise.                                               *)
LEMMA DrawnTyped ==
  ASSUME PrimeTypeOK, NEW x \in Accounts
  PROVE  /\ Drawn(x) \in Nat
         /\ (\A f \in Facilities : facility[f].status = "ACTIVE" => facility[f].account # x)
              => Drawn(x) = 0
<1>1. PICK v : v = [f \in Facilities |->
           IF facility[f].status = "ACTIVE" /\ facility[f].account = x
           THEN facility[f].drawn ELSE 0]
  OBVIOUS
<1>2. DOMAIN v = Facilities /\ IsFiniteSet(DOMAIN v) /\ Drawn(x) = IntegerSum(v)
  BY <1>1, TotalIsSum, PrimeConstants DEF Drawn
<1>3. \A f \in DOMAIN v : v[f] \in Nat
  BY <1>1, <1>2, ShapeOfFacility DEF FacilityRows
<1>4. IntegerSum(v) \in Nat /\ ((\A f \in DOMAIN v : v[f] = 0) => IntegerSum(v) = 0)
  BY <1>2, <1>3, SumOfNaturals
<1>5. (\A f \in Facilities : facility[f].status = "ACTIVE" => facility[f].account # x)
        => \A f \in DOMAIN v : v[f] = 0
  BY <1>1, <1>2
<1> QED
  BY <1>2, <1>4, <1>5

(* So does what is drawn on its facilities.                                *)
LEMMA DrawnUnmoved ==
  ASSUME NEW x, \A f \in Facilities : Owes(facility[f], x)' = Owes(facility[f], x)
  PROVE  Drawn(x)' = Drawn(x)
<1>1. [f \in Facilities |-> IF facility'[f].status = "ACTIVE" /\ facility'[f].account = x
                            THEN facility'[f].drawn ELSE 0]
      = [f \in Facilities |-> IF facility[f].status = "ACTIVE" /\ facility[f].account = x
                              THEN facility[f].drawn ELSE 0]
  BY DEF Owes
<1> QED
  BY <1>1 DEF Drawn

(* What recalculateMetrics stores.                                         *)
LEMMA RecalculatedIs ==
  ASSUME NEW a \in AccountRows, NEW P, NEW x,
         ValueOn(P, x, "LONG") \in Nat, ValueOn(P, x, "SHORT") \in Nat
  PROVE  /\ Recalculated(a, P, x) \in AccountRows
         /\ Recalculated(a, P, x).open = a.open /\ Recalculated(a, P, x).nav = a.nav
         /\ Recalculated(a, P, x).debit = a.debit
         /\ Recalculated(a, P, x).long = ValueOn(P, x, "LONG")
         /\ Recalculated(a, P, x).short = ValueOn(P, x, "SHORT")
         /\ Recalculated(a, P, x).equity = a.nav - a.debit
<1>1. PICK long, short : long = ValueOn(P, x, "LONG") /\ short = ValueOn(P, x, "SHORT")
  OBVIOUS
<1>2. PICK r : r = [open |-> a.open, lends |-> a.lends, nav |-> a.nav, debit |-> a.debit,
                    credit |-> a.credit, long |-> long, short |-> short,
                    equity |-> a.nav - a.debit, callLevel5 |-> long + short + 5 * a.debit]
  OBVIOUS
<1>3. a = [open |-> a.open, lends |-> a.lends, nav |-> a.nav, debit |-> a.debit,
           credit |-> a.credit, long |-> a.long, short |-> a.short,
           equity |-> a.equity, callLevel5 |-> a.callLevel5]
  BY DEF AccountRows
<1>4. Recalculated(a, P, x) = r
  <2>1. Recalculated(a, P, x) =
          [a EXCEPT !.long = long, !.short = short, !.equity = a.nav - a.debit,
                    !.callLevel5 = long + short + 5 * a.debit]
    BY <1>1 DEF Recalculated
  <2> QED
    BY <1>2, <1>3, <2>1
<1>5. r \in AccountRows
  BY <1>1, <1>2 DEF AccountRows
<1> QED
  BY <1>1, <1>2, <1>4, <1>5


(* A step that recalculates one account leaves the figures of all fresh.   *)
LEMMA AccountMoves ==
  ASSUME PrimeInv, NEW x \in Accounts, NEW a \in AccountRows, primePosition' \in PositionStores,
         primeAccount' = [primeAccount EXCEPT ![x] = Recalculated(a, primePosition', x)],
         a.open = primeAccount[x].open, a.debit = Drawn(x)',
         \A y \in Accounts : y # x =>
           /\ Drawn(y)' = Drawn(y)
           /\ \A side \in {"LONG", "SHORT"} :
                ValueOn(primePosition', y, side) = ValueOn(primePosition, y, side)
  PROVE  /\ MetricsFresh' /\ primeAccount' \in [Accounts -> AccountRows]
         /\ \A y \in Accounts : primeAccount'[y].open = primeAccount[y].open
<1>1. primeAccount \in [Accounts -> AccountRows]
  BY DEF PrimeInv, PrimeTypeOK, AccountRows
<1>2. PICK r : r = Recalculated(a, primePosition', x)
  OBVIOUS
<1>3. /\ r \in AccountRows /\ r.open = a.open /\ r.nav = a.nav /\ r.debit = a.debit
      /\ r.long = ValueOn(primePosition', x, "LONG")
      /\ r.short = ValueOn(primePosition', x, "SHORT") /\ r.equity = a.nav - a.debit
  BY <1>2, RecalculatedIs, ValueTyped
<1>4. primeAccount' = [primeAccount EXCEPT ![x] = r]
  BY <1>2
<1>5. ASSUME NEW y \in Accounts
      PROVE  /\ primeAccount'[y].debit = Drawn(y)'
             /\ primeAccount'[y].long = ValueOn(primePosition', y, "LONG")
             /\ primeAccount'[y].short = ValueOn(primePosition', y, "SHORT")
             /\ primeAccount'[y].equity = primeAccount'[y].nav - primeAccount'[y].debit
  <2>1. CASE y = x
    BY <1>1, <1>3, <1>4, <2>1
  <2>2. CASE y # x
    BY <1>1, <1>4, <2>2 DEF PrimeInv, MetricsFresh
  <2> QED
    BY <2>1, <2>2
<1>6. MetricsFresh'
  BY <1>5 DEF MetricsFresh
<1> QED
  BY <1>1, <1>3, <1>4, <1>6

(* A step that moves no figure at all.                                     *)
LEMMA FiguresStay ==
  ASSUME PrimeInv, UNCHANGED primeAccount,
         \A y \in Accounts :
           /\ Drawn(y)' = Drawn(y)
           /\ \A side \in {"LONG", "SHORT"} :
                ValueOn(primePosition', y, side) = ValueOn(primePosition, y, side)
  PROVE  MetricsFresh'
<1>1. ASSUME NEW y \in Accounts
      PROVE  /\ primeAccount'[y].debit = Drawn(y)'
             /\ primeAccount'[y].long = ValueOn(primePosition', y, "LONG")
             /\ primeAccount'[y].short = ValueOn(primePosition', y, "SHORT")
             /\ primeAccount'[y].equity = primeAccount'[y].nav - primeAccount'[y].debit
  BY DEF PrimeInv, MetricsFresh
<1> QED
  BY <1>1 DEF MetricsFresh

(* The stores have their types.                                            *)
LEMMA StoresTyped ==
  ASSUME PrimeTypeOK
  PROVE  primeAccount \in [Accounts -> AccountRows] /\ primePosition \in PositionStores
BY DEF PrimeTypeOK, AccountRows, PositionStores, HeldRows

(* A new account has no positions and no facilities.                       *)
LEMMA OpenAccountKeeps ==
  ASSUME PrimeInv, NEW x \in Accounts, NEW lends \in BOOLEAN, NEW nav \in NAVs,
         OpenPBAccount(x, lends, nav)
  PROVE  PrimeInv'
<1>0. PrimeTypeOK /\ BelongToOpen
  BY DEF PrimeInv
<1>1. PICK r : r = [open |-> TRUE, lends |-> lends, nav |-> nav, debit |-> 0, credit |-> nav,
                    long |-> 0, short |-> 0, equity |-> nav, callLevel5 |-> 0]
  OBVIOUS
<1>2. /\ ~primeAccount[x].open /\ primeAccount' = [primeAccount EXCEPT ![x] = r]
      /\ UNCHANGED <<primePosition, synthetic, facility, rehyp>>
  BY <1>1 DEF OpenPBAccount, Account
<1>3. r \in AccountRows
  BY <1>1, PrimeConstants DEF AccountRows
<1>4. PrimeTypeOK'
  BY <1>0, <1>2, <1>3, StoresTyped DEF PrimeTypeOK, AccountRows
<1>5. Drawn(x) = 0 /\ ValueOn(primePosition, x, "LONG") = 0 /\ ValueOn(primePosition, x, "SHORT") = 0
  <2>1. \A p \in Positions : primePosition[p].side # "none" => primePosition[p].account # x
    BY <1>0, <1>2 DEF BelongToOpen
  <2>2. \A f \in Facilities : facility[f].status = "ACTIVE" => facility[f].account # x
    BY <1>0, <1>2 DEF BelongToOpen
  <2> QED
    BY <1>0, <2>1, <2>2, DrawnTyped, ValueTyped, StoresTyped
<1>6. \A y \in Accounts : Drawn(y)' = Drawn(y)
  BY <1>2 DEF Drawn
<1>7. ASSUME NEW y \in Accounts
      PROVE  /\ primeAccount'[y].debit = Drawn(y)'
             /\ primeAccount'[y].long = ValueOn(primePosition', y, "LONG")
             /\ primeAccount'[y].short = ValueOn(primePosition', y, "SHORT")
             /\ primeAccount'[y].equity = primeAccount'[y].nav - primeAccount'[y].debit
  <2>1. CASE y = x
    <3>1. r.equity = r.nav - r.debit /\ r.debit = 0 /\ r.long = 0 /\ r.short = 0
      BY <1>1, <1>3, PrimeConstants
    <3>2. primeAccount'[y] = r
      BY <1>0, <1>2, <2>1, StoresTyped
    <3> QED
      BY <1>2, <1>5, <1>6, <2>1, <3>1, <3>2
  <2>2. CASE y # x
    BY <1>2, <1>6, <2>2 DEF PrimeInv, MetricsFresh
  <2> QED
    BY <2>1, <2>2
<1>8. MetricsFresh'
  BY <1>7 DEF MetricsFresh
<1>9. \A y \in Accounts : primeAccount[y].open => primeAccount'[y].open
  BY <1>0, <1>1, <1>2, StoresTyped
<1>10. BelongToOpen'
  <2>1. \A p \in Positions : primePosition[p].side # "none" => primePosition[p].account \in Accounts
    BY <1>0, ShapeOfPosition, StoresTyped DEF HeldRows
  <2>2. \A f \in Facilities : facility[f].status # "none" => facility[f].account \in Accounts
    BY <1>0, ShapeOfFacility DEF FacilityRows
  <2> QED
    BY <1>0, <1>2, <1>9, <2>1, <2>2 DEF BelongToOpen
<1>11. RehypFlagAgrees'
  BY <1>2 DEF PrimeInv, RehypFlagAgrees
<1> QED
  BY <1>4, <1>8, <1>10, <1>11 DEF PrimeInv


(* Everybody's account stays open, and positions and facilities stay put.  *)
LEMMA OwnedKept ==
  ASSUME PrimeInv, \A y \in Accounts : primeAccount[y].open => primeAccount'[y].open,
         UNCHANGED <<facility, rehyp>>,
         \A p \in Positions :
           /\ primePosition[p].side # "none" => primePosition'[p].side # "none"
           /\ primePosition'[p].side # "none" =>
                /\ primePosition'[p].account \in Accounts
                /\ \/ primePosition[p].side # "none"
                        /\ primePosition'[p].account = primePosition[p].account
                   \/ primeAccount[primePosition'[p].account].open
  PROVE  BelongToOpen'
<1>0. PrimeTypeOK /\ BelongToOpen
  BY DEF PrimeInv
<1>1. \A f \in Facilities : facility[f].status # "none" => facility[f].account \in Accounts
  BY <1>0, ShapeOfFacility DEF FacilityRows
<1>2. \A h \in Rehyps : rehyp[h].status # "none" => rehyp[h].position \in Positions
  BY <1>0 DEF PrimeTypeOK
<1>3. \A p \in Positions : primePosition'[p].side # "none" =>
        primeAccount'[primePosition'[p].account].open
  BY <1>0 DEF BelongToOpen
<1>4. \A f \in Facilities : facility'[f].status # "none" => primeAccount'[facility'[f].account].open
  BY <1>0, <1>1 DEF BelongToOpen
<1>5. \A h \in Rehyps : rehyp'[h].status # "none" => primePosition'[rehyp'[h].position].side # "none"
  BY <1>0, <1>2 DEF BelongToOpen
<1> QED
  BY <1>3, <1>4, <1>5 DEF BelongToOpen

(* An update of the NAV recalculates the account.                          *)
LEMMA UpdateNAVKeeps ==
  ASSUME PrimeInv, NEW x \in Accounts, NEW nav \in NAVs, UpdateNAV(x, nav)
  PROVE  PrimeInv'
<1>0. PrimeTypeOK /\ BelongToOpen /\ primeAccount[x] \in AccountRows /\ nav \in Nat
  BY PrimeConstants, StoresTyped DEF PrimeInv
<1>1. PICK o : o = primeAccount[x]
  OBVIOUS
<1>2. PICK a : a = [o EXCEPT !.nav = nav]
  OBVIOUS
<1>3. a \in AccountRows /\ a.open = o.open /\ a.debit = o.debit
  BY <1>0, <1>1, <1>2 DEF AccountRows
<1>4. /\ primeAccount' = [primeAccount EXCEPT ![x] = Recalculated(a, primePosition', x)]
      /\ UNCHANGED <<primePosition, synthetic, facility, rehyp>>
  BY <1>1, <1>2 DEF UpdateNAV
<1>5. \A y \in Accounts : Drawn(y)' = Drawn(y)
  BY <1>4 DEF Drawn
<1>6. o.debit = Drawn(x)
  BY <1>1 DEF PrimeInv, MetricsFresh
<1>7. /\ MetricsFresh' /\ primeAccount' \in [Accounts -> AccountRows]
      /\ \A y \in Accounts : primeAccount'[y].open = primeAccount[y].open
  BY <1>0, <1>1, <1>3, <1>4, <1>5, <1>6, AccountMoves, StoresTyped
<1>8. PrimeTypeOK'
  BY <1>0, <1>4, <1>7 DEF PrimeTypeOK, AccountRows
<1>9. \A p \in Positions : primePosition[p].side # "none" => primePosition[p].account \in Accounts
  BY <1>0, ShapeOfPosition, StoresTyped DEF HeldRows
<1>10. BelongToOpen'
  BY <1>4, <1>7, <1>9, OwnedKept
<1>11. RehypFlagAgrees'
  BY <1>4 DEF PrimeInv, RehypFlagAgrees
<1> QED
  BY <1>7, <1>8, <1>10, <1>11 DEF PrimeInv

(* A position is written for account x, and no other account's changes.    *)
LEMMA PositionWritten ==
  ASSUME PrimeInv, NEW p \in Positions, NEW r \in HeldRows,
         primePosition[p].side # "none" => primePosition[p].account = r.account,
         primePosition' = [primePosition EXCEPT ![p] = r],
         primeAccount[r.account].open,
         primeAccount' = [primeAccount EXCEPT
           ![r.account] = Recalculated(primeAccount[r.account], primePosition', r.account)],
         r.rehypothecated = (primePosition[p].side # "none" /\ primePosition[p].rehypothecated),
         UNCHANGED <<synthetic, facility, rehyp>>
  PROVE  PrimeInv'
<1> DEFINE x == r.account
<1>0. PrimeTypeOK /\ BelongToOpen /\ primePosition \in PositionStores
  BY StoresTyped DEF PrimeInv
<1>1. x \in Accounts /\ r.side # "none" /\ primePosition' \in PositionStores /\ primePosition'[p] = r
      /\ \A q \in Positions : q # p => primePosition'[q] = primePosition[q]
  BY <1>0 DEF HeldRows, PositionStores
<1>2. \A y \in Accounts : Drawn(y)' = Drawn(y)
  BY DEF Drawn
<1>3. ASSUME NEW y \in Accounts, y # x, NEW side \in {"LONG", "SHORT"}
      PROVE  ValueOn(primePosition', y, side) = ValueOn(primePosition, y, side)
  <2>1. \A q \in Positions : Worth(primePosition'[q], y, side) = Worth(primePosition[q], y, side)
    BY <1>1, <1>3 DEF Worth
  <2>2. PICK P, Q : P = primePosition /\ Q = primePosition'
    OBVIOUS
  <2>3. \A q \in Positions : Worth(Q[q], y, side) = Worth(P[q], y, side)
    BY <2>1, <2>2
  <2>4. ValueOn(Q, y, side) = ValueOn(P, y, side)
    BY ONLY <2>3, ValueUnmoved
  <2> QED
    BY <2>2, <2>4
<1>4. PICK a : a = primeAccount[x]
  OBVIOUS
<1>5. a \in AccountRows /\ a.open = primeAccount[x].open /\ a.debit = Drawn(x)'
  BY <1>0, <1>1, <1>2, <1>4, StoresTyped DEF PrimeInv, MetricsFresh
<1>6. /\ MetricsFresh' /\ primeAccount' \in [Accounts -> AccountRows]
      /\ \A y \in Accounts : primeAccount'[y].open = primeAccount[y].open
  BY <1>1, <1>2, <1>3, <1>4, <1>5, AccountMoves
<1>7. PrimeTypeOK'
  BY <1>0, <1>1, <1>6 DEF PrimeTypeOK, AccountRows, PositionStores, HeldRows
<1>8. BelongToOpen'
  <2>1. \A q \in Positions : primePosition[q].side # "none" => primePosition[q].account \in Accounts
    BY <1>0, ShapeOfPosition DEF HeldRows
  <2> QED
    BY <1>1, <1>6, <2>1, OwnedKept
<1>9. RehypFlagAgrees'
  <2>1. \A h \in Rehyps : rehyp[h].status = "ACTIVE" => primePosition[rehyp[h].position].side # "none"
    BY <1>0 DEF BelongToOpen
  <2>2. ASSUME NEW q \in Positions, primePosition'[q].side # "none"
        PROVE  primePosition'[q].rehypothecated
                 <=> \E h \in Rehyps : rehyp'[h].status = "ACTIVE" /\ rehyp'[h].position = q
    <3>1. CASE primePosition[q].side # "none"
      <4>1. primePosition'[q].rehypothecated = primePosition[q].rehypothecated
        BY <1>0, <1>1, <3>1, ShapeOfPosition DEF HeldRows
      <4> QED
        BY <3>1, <4>1 DEF PrimeInv, RehypFlagAgrees
    <3>2. CASE primePosition[q].side = "none"
      <4>1. q = p /\ ~primePosition'[q].rehypothecated
        BY <1>1, <2>2, <3>2
      <4>2. \A h \in Rehyps : ~(rehyp[h].status = "ACTIVE" /\ rehyp[h].position = q)
        BY <2>1, <3>2
      <4> QED
        BY <4>1, <4>2
    <3> QED
      BY <3>1, <3>2
  <2> QED
    BY <2>2 DEF RehypFlagAgrees
<1> QED
  BY <1>6, <1>7, <1>8, <1>9 DEF PrimeInv

(* A new position is counted in its account.                               *)
LEMMA AddPositionKeeps ==
  ASSUME PrimeInv, NEW p \in Positions, NEW x \in Accounts, NEW side \in {"LONG", "SHORT"},
         NEW v \in Values, AddPosition(p, x, side, v)
  PROVE  PrimeInv'
<1>1. PICK r : r = [side |-> side, account |-> x, value |-> v, rehypothecated |-> FALSE]
  OBVIOUS
<1>2. r \in HeldRows /\ r.account = x /\ ~r.rehypothecated
  BY <1>1, PrimeConstants DEF HeldRows
<1>3. /\ primePosition[p].side = "none" /\ primeAccount[x].open
      /\ primePosition' = [primePosition EXCEPT ![p] = r]
      /\ primeAccount' = [primeAccount EXCEPT
           ![x] = Recalculated(primeAccount[x], primePosition', x)]
      /\ UNCHANGED <<synthetic, facility, rehyp>>
  BY <1>1 DEF AddPosition
<1>4. r.rehypothecated = (primePosition[p].side # "none" /\ primePosition[p].rehypothecated)
  BY <1>2, <1>3 DEF HeldRows
<1> QED
  BY <1>2, <1>3, <1>4, PositionWritten

(* So is a new price.                                                      *)
LEMMA RepriceKeeps ==
  ASSUME PrimeInv, NEW p \in Positions, NEW v \in Values, UpdatePositionPrice(p, v)
  PROVE  PrimeInv'
<1>0. PrimeTypeOK /\ BelongToOpen /\ primePosition \in PositionStores /\ v \in Nat
  BY StoresTyped, PrimeConstants DEF PrimeInv
<1>1. PICK o \in HeldRows : o = primePosition[p] /\ o.side # "none"
  BY <1>0, ShapeOfPosition DEF UpdatePositionPrice
<1>2. PICK r : r = [o EXCEPT !.value = v]
  OBVIOUS
<1>3. r \in HeldRows /\ r.account = o.account /\ r.rehypothecated = o.rehypothecated
  BY <1>0, <1>2 DEF HeldRows
<1>4. /\ primePosition' = [primePosition EXCEPT ![p] = r]
      /\ primeAccount' = [primeAccount EXCEPT
           ![o.account] = Recalculated(primeAccount[o.account], primePosition', o.account)]
      /\ UNCHANGED <<synthetic, facility, rehyp>>
  BY <1>1, <1>2 DEF UpdatePositionPrice
<1>5. primeAccount[o.account].open
  BY <1>0, <1>1 DEF BelongToOpen
<1>6. r.rehypothecated = (primePosition[p].side # "none" /\ primePosition[p].rehypothecated)
  BY <1>1, <1>3 DEF HeldRows
<1> QED
  BY <1>1, <1>3, <1>4, <1>5, <1>6, PositionWritten

(* A synthetic is in no figure.                                            *)
LEMMA SyntheticKeeps ==
  ASSUME PrimeInv, NEW s \in Synthetics, AddSyntheticPosition(s) \/ TerminateSynthetic(s)
  PROVE  PrimeInv'
<1>1. /\ synthetic' \in [Synthetics -> {"none", "ACTIVE", "TERMINATED"}]
      /\ UNCHANGED <<primeAccount, primePosition, facility, rehyp>>
  BY DEF AddSyntheticPosition, TerminateSynthetic, PrimeInv, PrimeTypeOK
<1>2. PrimeTypeOK' /\ BelongToOpen' /\ RehypFlagAgrees'
  BY <1>1 DEF PrimeInv, PrimeTypeOK, BelongToOpen, RehypFlagAgrees
<1>3. \A y \in Accounts : Drawn(y)' = Drawn(y)
  BY <1>1 DEF Drawn
<1>4. MetricsFresh'
  BY <1>1, <1>3, FiguresStay
<1> QED
  BY <1>2, <1>4 DEF PrimeInv


(* A new facility has nothing drawn.                                       *)
LEMMA CreateFacilityKeeps ==
  ASSUME PrimeInv, NEW f \in Facilities, NEW x \in Accounts, CreateFinancingFacility(f, x)
  PROVE  PrimeInv'
<1>0. PrimeTypeOK /\ BelongToOpen
  BY DEF PrimeInv
<1>1. PICK r : r = [status |-> "ACTIVE", account |-> x, drawn |-> 0, available |-> FacilityLimit]
  OBVIOUS
<1>2. r \in FacilityRows /\ r.account = x /\ r.drawn = 0
  BY <1>1, PrimeConstants DEF FacilityRows
<1>3. /\ facility[f].status = "none" /\ primeAccount[x].open
      /\ facility' = [facility EXCEPT ![f] = r]
      /\ UNCHANGED <<primeAccount, primePosition, synthetic, rehyp>>
  BY <1>1 DEF CreateFinancingFacility
<1>4. /\ facility'[f] = r /\ \A g \in Facilities : g # f => facility'[g] = facility[g]
  BY <1>0, <1>3 DEF PrimeTypeOK
<1>5. facility' \in [Facilities -> [status : {"none"}] \cup FacilityRows]
  BY <1>0, <1>2, <1>3 DEF PrimeTypeOK, FacilityRows
<1>6. PrimeTypeOK'
  BY <1>0, <1>3, <1>5 DEF PrimeTypeOK, FacilityRows
<1>7. ASSUME NEW y \in Accounts PROVE Drawn(y)' = Drawn(y)
  <2>1. \A g \in Facilities : Owes(facility[g], y)' = Owes(facility[g], y)
    BY <1>2, <1>3, <1>4 DEF Owes
  <2> QED
    BY <2>1, DrawnUnmoved
<1>8. MetricsFresh'
  BY <1>3, <1>7, FiguresStay
<1>9. BelongToOpen'
  BY <1>0, <1>2, <1>3, <1>4 DEF BelongToOpen
<1>10. RehypFlagAgrees'
  BY <1>3 DEF PrimeInv, RehypFlagAgrees
<1> QED
  BY <1>6, <1>8, <1>9, <1>10 DEF PrimeInv

(* A drawing is counted in the account of the facility.                    *)
LEMMA DrawFacilityKeeps ==
  ASSUME PrimeInv, NEW f \in Facilities, NEW d \in Draws, DrawFacility(f, d)
  PROVE  PrimeInv'
<1>0. PrimeTypeOK /\ BelongToOpen /\ d \in Nat
  BY PrimeConstants DEF PrimeInv
<1>1. PICK o \in FacilityRows : o = facility[f]
  BY <1>0, ShapeOfFacility DEF DrawFacility
<1>2. PICK x \in Accounts : x = o.account
  BY <1>1 DEF FacilityRows
<1>3. PICK r : r = [status |-> "ACTIVE", account |-> x, drawn |-> o.drawn + d,
                    available |-> o.available - d]
  OBVIOUS
<1>4. d <= o.available /\ o.drawn \in Nat /\ o.available \in Nat /\ o.status = "ACTIVE"
  BY <1>1 DEF DrawFacility, FacilityRows
<1>5. r \in FacilityRows /\ r.account = x /\ r.drawn = o.drawn + d /\ r.status = "ACTIVE"
  BY <1>0, <1>3, <1>4 DEF FacilityRows
<1>6. facility' = [facility EXCEPT ![f] = r]
  <2>1. PICK half : half = [facility EXCEPT ![f].drawn = @ + d]
    OBVIOUS
  <2>2. facility' = [half EXCEPT ![f].available = @ - d]
    BY <2>1 DEF DrawFacility
  <2>3. o = [status |-> "ACTIVE", account |-> x, drawn |-> o.drawn, available |-> o.available]
    BY <1>2, <1>4 DEF FacilityRows
  <2>4. PICK m : m = [status |-> "ACTIVE", account |-> x, drawn |-> o.drawn + d,
                      available |-> o.available]
    OBVIOUS
  <2>5. [o EXCEPT !.drawn = @ + d] = m
    BY <2>3, <2>4
  <2>6. half = [facility EXCEPT ![f] = m]
    BY <1>1, <2>1, <2>5
  <2>7. [m EXCEPT !.available = @ - d] = r
    BY <1>3, <2>4
  <2>8. f \in DOMAIN facility
    BY <1>0 DEF PrimeTypeOK
  <2> QED
    BY <2>2, <2>6, <2>7, <2>8
<1>7. /\ facility'[f] = r /\ \A g \in Facilities : g # f => facility'[g] = facility[g]
  BY <1>0, <1>6 DEF PrimeTypeOK
<1>8. facility' \in [Facilities -> [status : {"none"}] \cup FacilityRows]
  BY <1>0, <1>5, <1>6 DEF PrimeTypeOK, FacilityRows
<1>9. PICK c \in AccountRows : /\ c.open = primeAccount[x].open
                               /\ c.debit = primeAccount[x].debit + d
                               /\ primeAccount' = [primeAccount EXCEPT
                                    ![x] = Recalculated(c, primePosition, x)]
  <2>1. PICK a \in AccountRows : a = primeAccount[x]
    BY <1>0, StoresTyped
  <2>2. PICK credit \in Nat : credit = IF a.credit > d THEN a.credit - d ELSE 0
    <3>1. a.credit \in Nat
      BY DEF AccountRows
    <3> QED
      BY <1>0, <3>1
  <2>3. PICK c : c = [a EXCEPT !.debit = @ + d, !.credit = credit]
    OBVIOUS
  <2>4. c \in AccountRows /\ c.open = a.open /\ c.debit = a.debit + d
    <3>1. a = [open |-> a.open, lends |-> a.lends, nav |-> a.nav, debit |-> a.debit,
               credit |-> a.credit, long |-> a.long, short |-> a.short, equity |-> a.equity,
               callLevel5 |-> a.callLevel5]
      BY DEF AccountRows
    <3>2. c = [open |-> a.open, lends |-> a.lends, nav |-> a.nav, debit |-> a.debit + d,
               credit |-> credit, long |-> a.long, short |-> a.short, equity |-> a.equity,
               callLevel5 |-> a.callLevel5]
      BY <2>3, <3>1
    <3>3. a.debit + d \in Nat
      BY <1>0 DEF AccountRows
    <3> QED
      BY <3>2, <3>3 DEF AccountRows
  <2>5. [a EXCEPT !.debit = @ + d, !.credit = IF @ > d THEN @ - d ELSE 0] = c
    BY <2>2, <2>3
  <2>6. primeAccount' = [primeAccount EXCEPT ![x] = Recalculated(c, primePosition, x)]
    BY <1>1, <1>2, <2>1, <2>5 DEF DrawFacility
  <2> QED
    BY <2>1, <2>4, <2>6
<1>10. UNCHANGED <<primePosition, synthetic, rehyp>>
  BY DEF DrawFacility
<1>11. ASSUME NEW y \in Accounts, y # x PROVE Drawn(y)' = Drawn(y)
  <2>1. \A g \in Facilities : Owes(facility[g], y)' = Owes(facility[g], y)
    BY <1>1, <1>2, <1>5, <1>7, <1>11 DEF Owes
  <2> QED
    BY <2>1, DrawnUnmoved
<1>12. Drawn(x)' = Drawn(x) + d
  <2>1. PICK v, w : /\ v = [g \in Facilities |->
                         IF facility[g].status = "ACTIVE" /\ facility[g].account = x
                         THEN facility[g].drawn ELSE 0]
                    /\ w = [g \in Facilities |->
                         IF facility'[g].status = "ACTIVE" /\ facility'[g].account = x
                         THEN facility'[g].drawn ELSE 0]
    OBVIOUS
  <2>2. Drawn(x) = IntegerSum(v) /\ Drawn(x)' = IntegerSum(w)
    BY <2>1, TotalIsSum DEF Drawn
  <2>3. DOMAIN v = Facilities /\ DOMAIN w = Facilities /\ IsFiniteSet(DOMAIN v) /\ f \in DOMAIN v
    BY <2>1, PrimeConstants
  <2>4. v[f] = o.drawn /\ w[f] = o.drawn + d
    BY <1>1, <1>2, <1>4, <1>5, <1>7, <2>1
  <2>5. \A g \in DOMAIN v : v[g] \in Int
    <3>1. \A g \in Facilities : facility[g].status = "ACTIVE" => facility[g].drawn \in Nat
      BY <1>0, ShapeOfFacility DEF FacilityRows
    <3> QED
      BY <2>1, <2>3, <3>1
  <2>6. \A g \in DOMAIN v : g # f => w[g] = v[g]
    BY <1>7, <2>1, <2>3
  <2>7. w[f] \in Int
    BY <1>0, <1>4, <2>4
  <2>8. IntegerSum(w) = IntegerSum(v) - v[f] + w[f]
    BY <2>3, <2>5, <2>6, <2>7, SumChange
  <2>9. IntegerSum(v) \in Int
    BY <2>3, <2>5, SumType
  <2> QED
    BY <1>0, <1>4, <2>2, <2>4, <2>8, <2>9
<1>13. c.debit = Drawn(x)'
  BY <1>9, <1>12 DEF PrimeInv, MetricsFresh
<1>14. /\ MetricsFresh' /\ primeAccount' \in [Accounts -> AccountRows]
       /\ \A y \in Accounts : primeAccount'[y].open = primeAccount[y].open
  <2>1. primePosition' \in PositionStores /\ primePosition' = primePosition
    BY <1>0, <1>10, StoresTyped
  <2>2. primeAccount' = [primeAccount EXCEPT ![x] = Recalculated(c, primePosition', x)]
    BY <1>9, <2>1
  <2> QED
    BY <1>9, <1>11, <1>13, <2>1, <2>2, AccountMoves
<1>15. PrimeTypeOK'
  BY <1>0, <1>8, <1>10, <1>14 DEF PrimeTypeOK, AccountRows, FacilityRows
<1>16. BelongToOpen'
  <2>1. \A p \in Positions : primePosition[p].side # "none" => primePosition[p].account \in Accounts
    BY <1>0, ShapeOfPosition, StoresTyped DEF HeldRows
  <2>2. \A g \in Facilities : /\ facility[g].status # "none" => facility[g].account \in Accounts
                              /\ facility'[g].status = facility[g].status
                              /\ facility[g].status # "none" => facility'[g].account = facility[g].account
    BY <1>0, <1>1, <1>2, <1>4, <1>5, <1>7, ShapeOfFacility DEF FacilityRows
  <2>3. \A g \in Facilities : facility'[g].status # "none" => primeAccount'[facility'[g].account].open
    BY <1>0, <1>14, <2>2 DEF BelongToOpen
  <2>4. \A p \in Positions : primePosition'[p].side # "none" =>
          primeAccount'[primePosition'[p].account].open
    BY <1>0, <1>10, <1>14, <2>1 DEF BelongToOpen
  <2> QED
    BY <1>0, <1>10, <2>3, <2>4 DEF BelongToOpen
<1>17. RehypFlagAgrees'
  BY <1>10 DEF PrimeInv, RehypFlagAgrees
<1> QED
  BY <1>14, <1>15, <1>16, <1>17 DEF PrimeInv

(* Only the flag of one position changes, and the records behind it.       *)
LEMMA FlagWritten ==
  ASSUME PrimeInv, NEW p \in Positions, NEW o \in HeldRows, o = primePosition[p],
         NEW flag \in BOOLEAN,
         primePosition' = [primePosition EXCEPT ![p].rehypothecated = flag],
         UNCHANGED <<primeAccount, synthetic, facility>>
  PROVE  /\ primePosition' \in PositionStores /\ MetricsFresh'
         /\ \A q \in Positions : /\ q # p => primePosition'[q] = primePosition[q]
                                 /\ primePosition'[q].side = primePosition[q].side
                                 /\ primePosition[q].side # "none" =>
                                      primePosition'[q].account = primePosition[q].account
         /\ primePosition'[p].rehypothecated = flag
<1>0. PrimeTypeOK /\ primePosition \in PositionStores
  BY StoresTyped DEF PrimeInv
<1>1. PICK r : r = [o EXCEPT !.rehypothecated = flag]
  OBVIOUS
<1>2. /\ r \in HeldRows /\ r.side = o.side /\ r.account = o.account /\ r.value = o.value
      /\ r.rehypothecated = flag
  BY <1>1 DEF HeldRows
<1>3. primePosition' = [primePosition EXCEPT ![p] = r]
  BY <1>1
<1>4. /\ primePosition'[p] = r /\ primePosition' \in PositionStores
      /\ \A q \in Positions : q # p => primePosition'[q] = primePosition[q]
  BY <1>0, <1>2, <1>3 DEF PositionStores
<1>5. ASSUME NEW y \in Accounts, NEW side \in {"LONG", "SHORT"}
      PROVE  ValueOn(primePosition', y, side) = ValueOn(primePosition, y, side)
  <2>1. \A q \in Positions : Worth(primePosition'[q], y, side) = Worth(primePosition[q], y, side)
    BY <1>2, <1>4 DEF Worth
  <2>2. PICK P, Q : P = primePosition /\ Q = primePosition'
    OBVIOUS
  <2>3. \A q \in Positions : Worth(Q[q], y, side) = Worth(P[q], y, side)
    BY <2>1, <2>2
  <2>4. ValueOn(Q, y, side) = ValueOn(P, y, side)
    BY ONLY <2>3, ValueUnmoved
  <2> QED
    BY <2>2, <2>4
<1>6. \A y \in Accounts : Drawn(y)' = Drawn(y)
  BY DEF Drawn
<1>7. MetricsFresh'
  BY <1>5, <1>6, FiguresStay
<1> QED
  BY <1>2, <1>4, <1>7

(* Lending a position on marks it.                                         *)
LEMMA RehypothecateKeeps ==
  ASSUME PrimeInv, NEW h \in Rehyps, NEW p \in Positions, RehypothecatePosition(h, p)
  PROVE  PrimeInv'
<1>0. PrimeTypeOK /\ BelongToOpen /\ primePosition \in PositionStores
  BY StoresTyped DEF PrimeInv
<1>1. PICK n : n = [status |-> "ACTIVE", position |-> p]
  OBVIOUS
<1>2. /\ rehyp[h].status = "none" /\ primePosition[p].side = "LONG"
      /\ rehyp' = [rehyp EXCEPT ![h] = n]
      /\ primePosition' = [primePosition EXCEPT ![p].rehypothecated = TRUE]
      /\ UNCHANGED <<primeAccount, synthetic, facility>>
  BY <1>1 DEF RehypothecatePosition
<1>3. PICK o \in HeldRows : o = primePosition[p]
  BY <1>0, <1>2, ShapeOfPosition
<1>4. /\ primePosition' \in PositionStores /\ MetricsFresh'
      /\ \A q \in Positions : /\ q # p => primePosition'[q] = primePosition[q]
                              /\ primePosition'[q].side = primePosition[q].side
                              /\ primePosition[q].side # "none" =>
                                   primePosition'[q].account = primePosition[q].account
      /\ primePosition'[p].rehypothecated
  BY <1>2, <1>3, FlagWritten
<1>5. n \in [status : {"ACTIVE", "RETURNED"}, position : Positions] /\ n.status = "ACTIVE"
      /\ n.position = p
  BY <1>1
<1>6. rehyp'[h] = n /\ \A g \in Rehyps : g # h => rehyp'[g] = rehyp[g]
  BY <1>0, <1>2 DEF PrimeTypeOK
<1>7. PrimeTypeOK'
  <2>1. rehyp' \in [Rehyps -> [status : {"none"}]
                      \cup [status : {"ACTIVE", "RETURNED"}, position : Positions]]
    BY <1>0, <1>2, <1>5 DEF PrimeTypeOK
  <2> QED
    BY <1>0, <1>2, <1>4, <2>1 DEF PrimeTypeOK, PositionStores, HeldRows
<1>8. BelongToOpen'
  <2>1. \A g \in Rehyps : rehyp[g].status # "none" => rehyp[g].position \in Positions
    BY <1>0 DEF PrimeTypeOK
  <2>2. \A g \in Rehyps : rehyp'[g].status # "none" => primePosition'[rehyp'[g].position].side # "none"
    BY <1>0, <1>2, <1>4, <1>5, <1>6, <2>1 DEF BelongToOpen
  <2> QED
    BY <1>0, <1>2, <1>4, <2>2 DEF BelongToOpen
<1>9. ASSUME NEW q \in Positions, primePosition'[q].side # "none"
      PROVE  primePosition'[q].rehypothecated
               <=> \E g \in Rehyps : rehyp'[g].status = "ACTIVE" /\ rehyp'[g].position = q
  <2>1. CASE q = p
    BY <1>4, <1>5, <1>6, <2>1
  <2>2. CASE q # p
    <3>1. (\E g \in Rehyps : rehyp'[g].status = "ACTIVE" /\ rehyp'[g].position = q)
            <=> \E g \in Rehyps : rehyp[g].status = "ACTIVE" /\ rehyp[g].position = q
      BY <1>2, <1>5, <1>6, <2>2
    <3> QED
      BY <1>4, <1>9, <2>2, <3>1 DEF PrimeInv, RehypFlagAgrees
  <2> QED
    BY <2>1, <2>2
<1>10. RehypFlagAgrees'
  BY <1>9 DEF RehypFlagAgrees
<1> QED
  BY <1>4, <1>7, <1>8, <1>10 DEF PrimeInv

(* Its return unmarks it when it was the last.                             *)
LEMMA ReturnRehypKeeps ==
  ASSUME PrimeInv, NEW h \in Rehyps, ReturnRehypothecation(h)
  PROVE  PrimeInv'
<1>0. PrimeTypeOK /\ BelongToOpen /\ primePosition \in PositionStores
  BY StoresTyped DEF PrimeInv
<1>1. PICK p \in Positions : rehyp[h] = [status |-> "ACTIVE", position |-> p]
  BY <1>0 DEF ReturnRehypothecation, PrimeTypeOK
<1>2. PICK n : n = [status |-> "RETURNED", position |-> p]
  OBVIOUS
<1>3. rehyp' = [rehyp EXCEPT ![h] = n]
  <2>1. [rehyp[h] EXCEPT !.status = "RETURNED"] = n
    BY <1>1, <1>2
  <2>2. rehyp' = [rehyp EXCEPT ![h].status = "RETURNED"]
    BY DEF ReturnRehypothecation
  <2> QED
    BY <2>1, <2>2
<1>4. n \in [status : {"ACTIVE", "RETURNED"}, position : Positions] /\ n.status = "RETURNED"
      /\ n.position = p
  BY <1>2
<1>5. rehyp'[h] = n /\ \A g \in Rehyps : g # h => rehyp'[g] = rehyp[g]
  BY <1>0, <1>3 DEF PrimeTypeOK
<1>6. PICK o \in HeldRows : o = primePosition[p]
  BY <1>0, <1>1, ShapeOfPosition DEF BelongToOpen
<1>7. o.rehypothecated /\ o.side # "none"
  BY <1>1, <1>6 DEF PrimeInv, RehypFlagAgrees, HeldRows
<1>8. PICK flag \in BOOLEAN :
        flag = (o.rehypothecated /\ \E g \in Rehyps : rehyp'[g].status = "ACTIVE"
                                                     /\ rehyp'[g].position = p)
  OBVIOUS
<1>9. /\ primePosition' = [primePosition EXCEPT ![p].rehypothecated = flag]
      /\ UNCHANGED <<primeAccount, synthetic, facility>>
  BY <1>1, <1>6, <1>8 DEF ReturnRehypothecation
<1>10. /\ primePosition' \in PositionStores /\ MetricsFresh'
       /\ \A q \in Positions : /\ q # p => primePosition'[q] = primePosition[q]
                               /\ primePosition'[q].side = primePosition[q].side
                               /\ primePosition[q].side # "none" =>
                                    primePosition'[q].account = primePosition[q].account
       /\ primePosition'[p].rehypothecated = flag
  BY <1>6, <1>9, FlagWritten
<1>11. PrimeTypeOK'
  <2>1. rehyp' \in [Rehyps -> [status : {"none"}]
                      \cup [status : {"ACTIVE", "RETURNED"}, position : Positions]]
    BY <1>0, <1>3, <1>4 DEF PrimeTypeOK
  <2> QED
    BY <1>0, <1>9, <1>10, <2>1 DEF PrimeTypeOK, PositionStores, HeldRows
<1>12. BelongToOpen'
  <2>1. \A g \in Rehyps : rehyp[g].status # "none" => rehyp[g].position \in Positions
    BY <1>0 DEF PrimeTypeOK
  <2>2. \A g \in Rehyps : rehyp'[g].status # "none" => primePosition'[rehyp'[g].position].side # "none"
    BY <1>0, <1>1, <1>4, <1>5, <1>10, <2>1 DEF BelongToOpen
  <2> QED
    BY <1>0, <1>9, <1>10, <2>2 DEF BelongToOpen
<1>13. ASSUME NEW q \in Positions, primePosition'[q].side # "none"
       PROVE  primePosition'[q].rehypothecated
                <=> \E g \in Rehyps : rehyp'[g].status = "ACTIVE" /\ rehyp'[g].position = q
  <2>1. CASE q = p
    <3>1. flag <=> \E g \in Rehyps : rehyp'[g].status = "ACTIVE" /\ rehyp'[g].position = p
      BY <1>7, <1>8
    <3> QED
      BY <1>10, <2>1, <3>1
  <2>2. CASE q # p
    <3>1. (\E g \in Rehyps : rehyp'[g].status = "ACTIVE" /\ rehyp'[g].position = q)
            <=> \E g \in Rehyps : rehyp[g].status = "ACTIVE" /\ rehyp[g].position = q
      BY <1>1, <1>4, <1>5, <2>2
    <3> QED
      BY <1>10, <1>13, <2>2, <3>1 DEF PrimeInv, RehypFlagAgrees
  <2> QED
    BY <2>1, <2>2
<1>14. RehypFlagAgrees'
  BY <1>13 DEF RehypFlagAgrees
<1> QED
  BY <1>10, <1>11, <1>12, <1>14 DEF PrimeInv

(* Empty stores are sound.                                                 *)
LEMMA PrimeStarts == PrimeInit => PrimeInv
<1> SUFFICES ASSUME PrimeInit PROVE PrimeInv
  OBVIOUS
<1>1. PICK a : a = Account(FALSE, FALSE, 0)
  OBVIOUS
<1>2. a \in AccountRows /\ a.nav = 0 /\ a.debit = 0 /\ a.long = 0 /\ a.short = 0 /\ a.equity = 0
  BY <1>1 DEF Account, AccountRows
<1>3. primeAccount = [x \in Accounts |-> a]
  BY <1>1 DEF PrimeInit
<1>4. PrimeTypeOK
  BY <1>2, <1>3 DEF PrimeInit, PrimeTypeOK, AccountRows
<1>5. /\ \A p \in Positions : primePosition[p].side = "none"
      /\ \A f \in Facilities : facility[f].status = "none"
      /\ \A h \in Rehyps : rehyp[h].status = "none"
  BY DEF PrimeInit
<1>6. MetricsFresh
  <2>1. ASSUME NEW x \in Accounts
        PROVE  /\ Drawn(x) = 0 /\ ValueOn(primePosition, x, "LONG") = 0
               /\ ValueOn(primePosition, x, "SHORT") = 0
    BY <1>4, <1>5, DrawnTyped, ValueTyped, StoresTyped
  <2> QED
    BY <1>2, <1>3, <2>1 DEF MetricsFresh
<1> QED
  BY <1>4, <1>5, <1>6 DEF PrimeInv, RehypFlagAgrees, BelongToOpen

(* Every call keeps the invariant of the prime accounts.                   *)
LEMMA PrimeStep == PrimeInv /\ [PrimeNext]_primeVars => PrimeInv'
<1> SUFFICES ASSUME PrimeInv, [PrimeNext]_primeVars PROVE PrimeInv'
  OBVIOUS
<1>1. CASE UNCHANGED primeVars
  <2>1. UNCHANGED <<primeAccount, primePosition, synthetic, facility, rehyp>>
    BY <1>1 DEF primeVars
  <2>2. PrimeTypeOK' /\ BelongToOpen' /\ RehypFlagAgrees'
    BY <2>1 DEF PrimeInv, PrimeTypeOK, BelongToOpen, RehypFlagAgrees
  <2>3. \A y \in Accounts : Drawn(y)' = Drawn(y)
    BY <2>1 DEF Drawn
  <2>4. MetricsFresh'
    BY <2>1, <2>3, FiguresStay
  <2> QED
    BY <2>2, <2>4 DEF PrimeInv
<1>2. CASE PrimeNext
  BY <1>2, UpdateNAVKeeps, OpenAccountKeeps, AddPositionKeeps, RepriceKeeps, SyntheticKeeps,
     CreateFacilityKeeps, DrawFacilityKeeps, RehypothecateKeeps, ReturnRehypKeeps DEF PrimeNext
<1> QED
  BY <1>1, <1>2

(* The invariant says what is promised.                                    *)
LEMMA PrimeImplied == PrimeInv => PrimeTypeOK /\ PrimeSound
BY DEF PrimeInv, PrimeSound

(* The figures of a prime account of PrimeBrokerageService are fresh after *)
(* every call that moves them, and a position is marked as rehypothecated  *)
(* exactly while some of it is lent on.                                    *)
THEOREM PrimeBalanced == PrimeSpec => [](PrimeTypeOK /\ PrimeSound)
<1>1. PrimeInit => PrimeInv
  BY PrimeStarts
<1>2. PrimeInv /\ [PrimeNext]_primeVars => PrimeInv'
  BY PrimeStep
<1>3. PrimeInv => PrimeTypeOK /\ PrimeSound
  BY PrimeImplied
<1> QED
  BY <1>1, <1>2, <1>3, PTL DEF PrimeSpec

-----------------------------------------------------------------------------
(* Correspondent banks: the exposure is what was added to it.              *)

(* The messages by their fields.                                           *)
LiveMessages == [status : {"QUEUED", "SENT", "ACKNOWLEDGED"}, amount : Nat,
                 direction : {"OUTBOUND", "INBOUND"}, sent : BOOLEAN]
BankRows == [status : {"none", "ACTIVE", "RESTRICTED"}, kyc : KycStatuses, limit : Nat, exposure : Nat]

(* What each message has added to the exposure.                            *)
AddedBy(m) == IF swift[m].status # "none" /\ swift[m].sent THEN Exposed(swift[m]) ELSE 0
Added == [m \in Messages |-> AddedBy(m)]

ExposureInv ==
  /\ CorrespondentTypeOK
  /\ bank.status = "none" => \A m \in Messages : swift[m].status = "none"
  /\ \A m \in Messages : swift[m].status = "QUEUED" => ~swift[m].sent
  /\ bank.exposure = IntegerSum(Added)
  /\ ExposureWithinLimit
  /\ ~crowded => /\ \A m, n \in Waiting : m = n
                 /\ \A m \in Waiting : FitsLimit(swift[m].amount)

(* A message has its fields or has never been.                             *)
LEMMA MessageShape ==
  ASSUME CorrespondentTypeOK, NEW m \in Messages
  PROVE  \/ swift[m] = [status |-> "none"] /\ swift[m].status = "none"
         \/ /\ swift[m] \in LiveMessages /\ swift[m].status # "none"
            /\ swift[m].amount \in Nat /\ swift[m].sent \in BOOLEAN
            /\ swift[m].direction \in {"OUTBOUND", "INBOUND"}
<1>1. swift[m] \in [status : {"none"}] \cup LiveMessages
  BY DEF CorrespondentTypeOK, LiveMessages
<1>2. CASE swift[m] \in [status : {"none"}]
  BY <1>2
<1>3. CASE swift[m] \in LiveMessages
  BY <1>3 DEF LiveMessages
<1> QED
  BY <1>1, <1>2, <1>3

(* What a message has added is a number.                                   *)
AddedFits ==
  /\ IsFiniteSet(DOMAIN Added) /\ DOMAIN Added = Messages
  /\ \A m \in DOMAIN Added : Added[m] \in Int /\ Added[m] = AddedBy(m) /\ AddedBy(m) \in Nat

(* What was added is never negative.                                       *)
LEMMA AddedTyped == CorrespondentTypeOK => AddedFits
<1>1. ASSUME CorrespondentTypeOK, NEW m \in Messages PROVE AddedBy(m) \in Nat
  BY <1>1, MessageShape DEF AddedBy, Exposed
<1> QED
  BY <1>1, CorrespondentConstants DEF AddedFits, Added

(* One message changes: the sum changes by what it adds.                   *)
LEMMA MessageChanges ==
  ASSUME CorrespondentTypeOK, CorrespondentTypeOK', NEW m \in Messages,
         \A n \in Messages : n # m => swift'[n] = swift[n]
  PROVE  IntegerSum(Added)' = IntegerSum(Added) - AddedBy(m) + AddedBy(m)'
<1>1. AddedFits
  BY AddedTyped
<1>2. AddedFits'
  BY AddedTyped, PTL
<1>3. \A n \in Messages : n # m => Added'[n] = Added[n]
  BY <1>1, <1>2 DEF AddedFits, AddedBy, Exposed
<1>4. IntegerSum(Added') = IntegerSum(Added) - Added[m] + Added'[m]
  <2> HIDE DEF Added
  <2> QED
    BY <1>1, <1>2, <1>3, SumChange DEF AddedFits
<1>5. IntegerSum(Added)' = IntegerSum(Added')
  OBVIOUS
<1> QED
  BY <1>1, <1>2, <1>4, <1>5 DEF AddedFits

(* No message changes.                                                     *)
LEMMA MessagesStand ==
  ASSUME UNCHANGED swift
  PROVE  IntegerSum(Added)' = IntegerSum(Added) /\ Waiting' = Waiting
<1>1. Added' = Added
  BY DEF Added, AddedBy, Exposed
<1>2. IntegerSum(Added)' = IntegerSum(Added')
  OBVIOUS
<1> QED
  BY <1>1, <1>2 DEF Waiting

(* The bank's row changes without its exposure.                            *)
LEMMA BankStep ==
  ASSUME ExposureInv,
         \/ \E k \in KycStatuses : UpdateKycStatus(k)
         \/ \E n \in CreditLimits : AddCorrespondent(n) \/ UpdateCreditLimit(n)
  PROVE  ExposureInv'
<1>0. bank \in BankRows
  BY DEF ExposureInv, CorrespondentTypeOK, BankRows
<1>1. UNCHANGED swift /\ \A n \in CreditLimits : n \in Nat
  BY CorrespondentConstants DEF AddCorrespondent, UpdateCreditLimit, UpdateKycStatus
<1>2. IntegerSum(Added)' = IntegerSum(Added) /\ Waiting' = Waiting
  BY <1>1, MessagesStand
<1>3. ASSUME NEW n \in CreditLimits, AddCorrespondent(n) PROVE ExposureInv'
  <2>1. \A m \in Messages : Added[m] = 0
    BY <1>3 DEF AddCorrespondent, ExposureInv, Added, AddedBy
  <2>2. IntegerSum(Added) = 0
    <3>1. /\ IsFiniteSet(DOMAIN Added) /\ DOMAIN Added = Messages
          /\ \A m \in DOMAIN Added : Added[m] \in Nat
      BY <2>1, AddedTyped DEF ExposureInv, AddedFits
    <3> QED
      BY <2>1, <3>1, SumOfNaturals
  <2>3. bank' = [status |-> "ACTIVE", kyc |-> "APPROVED", limit |-> n, exposure |-> 0] /\ UNCHANGED <<swift, crowded>>
    BY <1>3 DEF AddCorrespondent
  <2>4. CorrespondentTypeOK'
    BY <2>3, <1>1 DEF ExposureInv, CorrespondentTypeOK, KycStatuses
  <2>5. Waiting = {}
    BY <1>3 DEF AddCorrespondent, ExposureInv, Waiting
  <2>6. bank'.exposure = 0 /\ bank'.status = "ACTIVE" /\ bank'.limit = n
    BY <2>3
  <2>7. ExposureWithinLimit'
    BY <2>6, <1>1 DEF ExposureWithinLimit
  <2> QED
    BY <1>2, <2>2, <2>3, <2>4, <2>5, <2>6, <2>7 DEF ExposureInv
<1>4. ASSUME NEW n \in CreditLimits, UpdateCreditLimit(n) PROVE ExposureInv'
  <2>1. bank' = [bank EXCEPT !.limit = n] /\ crowded' = TRUE /\ bank.status # "none"
    BY <1>4 DEF UpdateCreditLimit
  <2>2. bank' \in BankRows /\ bank'.exposure = bank.exposure /\ bank'.status = bank.status
    BY <1>0, <1>1, <2>1 DEF BankRows
  <2>3. CorrespondentTypeOK'
    BY <2>1, <2>2, <1>1 DEF ExposureInv, CorrespondentTypeOK, BankRows
  <2>4. ExposureWithinLimit'
    BY <2>1 DEF ExposureWithinLimit
  <2> QED
    BY <1>1, <1>2, <2>1, <2>2, <2>3, <2>4 DEF ExposureInv
<1>5. ASSUME NEW k \in KycStatuses, UpdateKycStatus(k) PROVE ExposureInv'
  <2>1. /\ bank.status # "none" /\ UNCHANGED <<swift, crowded>>
        /\ bank' = [bank EXCEPT !.kyc = k,
                !.status = IF k \in {"REJECTED", "EXPIRED"} THEN "RESTRICTED"
                           ELSE IF k = "APPROVED" THEN "ACTIVE" ELSE @]
    BY <1>5 DEF UpdateKycStatus
  <2>2. bank' \in BankRows /\ bank'.exposure = bank.exposure /\ bank'.limit = bank.limit /\ bank'.status # "none"
    BY <1>0, <2>1 DEF BankRows, KycStatuses
  <2>3. CorrespondentTypeOK'
    BY <2>1, <2>2 DEF ExposureInv, CorrespondentTypeOK, BankRows
  <2>4. ExposureWithinLimit'
    BY <2>1, <2>2 DEF ExposureInv, ExposureWithinLimit
  <2>5. ~crowded' => \A m \in Waiting : FitsLimit(swift[m].amount)'
    BY <2>1, <2>2 DEF ExposureInv, FitsLimit
  <2> QED
    BY <1>1, <1>2, <2>1, <2>2, <2>3, <2>4, <2>5 DEF ExposureInv
<1> QED
  BY <1>3, <1>4, <1>5

(* A message is queued, sent or acknowledged.                              *)
LEMMA MessageStep ==
  ASSUME ExposureInv, NEW m \in Messages,
         \/ \E a \in MessageAmounts, d \in {"OUTBOUND", "INBOUND"} : CreateMessage(m, a, d)
         \/ SendMessage(m) \/ AcknowledgeMessage(m)
  PROVE  ExposureInv'
<1>0. /\ bank \in BankRows /\ bank.exposure \in Nat /\ bank.limit \in Nat
      /\ CorrespondentTypeOK /\ crowded \in BOOLEAN /\ \A a \in MessageAmounts : a \in Nat
  BY CorrespondentConstants DEF ExposureInv, CorrespondentTypeOK, BankRows
<1>1. ASSUME NEW w \in LiveMessages, swift' = [swift EXCEPT ![m] = w],
             bank' \in BankRows, crowded' \in BOOLEAN
      PROVE  /\ CorrespondentTypeOK' /\ swift'[m] = w
             /\ \A n \in Messages : n # m => swift'[n] = swift[n]
             /\ IntegerSum(Added)' = IntegerSum(Added) - AddedBy(m) + (IF w.sent THEN Exposed(w) ELSE 0)
             /\ \A n \in Messages : n # m => (n \in Waiting' <=> n \in Waiting)
             /\ m \in Waiting' <=> w.status = "QUEUED" /\ w.direction = "OUTBOUND"
  <2>1. swift'[m] = w /\ \A n \in Messages : n # m => swift'[n] = swift[n]
    BY <1>0, <1>1 DEF CorrespondentTypeOK
  <2>2. CorrespondentTypeOK'
    BY <1>0, <1>1 DEF CorrespondentTypeOK, LiveMessages, BankRows
  <2>3. IntegerSum(Added)' = IntegerSum(Added) - AddedBy(m) + AddedBy(m)'
    BY <1>0, <2>1, <2>2, MessageChanges
  <2>4. AddedBy(m)' = IF w.sent THEN Exposed(w) ELSE 0
    BY <2>1 DEF AddedBy, Exposed, LiveMessages
  <2> QED
    BY <2>1, <2>2, <2>3, <2>4 DEF Waiting
<1>2. IntegerSum(Added) \in Int /\ AddedBy(m) \in Nat
  <2>1. /\ IsFiniteSet(DOMAIN Added) /\ DOMAIN Added = Messages
        /\ \A n \in DOMAIN Added : Added[n] \in Int /\ Added[n] = AddedBy(n) /\ AddedBy(n) \in Nat
    BY <1>0, AddedTyped DEF AddedFits
  <2> QED
    BY <2>1, SumType
<1>3. ASSUME NEW a \in MessageAmounts, NEW d \in {"OUTBOUND", "INBOUND"}, CreateMessage(m, a, d)
      PROVE  ExposureInv'
  <2> DEFINE w == [status |-> "QUEUED", amount |-> a, direction |-> d, sent |-> FALSE]
  <2>1. /\ swift[m].status = "none" /\ bank.status = "ACTIVE" /\ (d = "OUTBOUND" => FitsLimit(a))
        /\ swift' = [swift EXCEPT ![m] = w] /\ UNCHANGED bank
        /\ crowded' = (crowded \/ (d = "OUTBOUND" /\ Waiting # {}))
    BY <1>3 DEF CreateMessage
  <2>2. w \in LiveMessages /\ w.status = "QUEUED" /\ w.direction = d /\ ~w.sent /\ w.amount = a
    BY <1>0 DEF LiveMessages
  <2>3. /\ CorrespondentTypeOK' /\ swift'[m] = w
        /\ \A n \in Messages : n # m => swift'[n] = swift[n]
        /\ IntegerSum(Added)' = IntegerSum(Added) - AddedBy(m) + 0
        /\ \A n \in Messages : n # m => (n \in Waiting' <=> n \in Waiting)
        /\ m \in Waiting' <=> d = "OUTBOUND"
    <3>1. crowded' \in BOOLEAN /\ bank' \in BankRows
      BY <1>0, <2>1
    <3> HIDE DEF w
    <3> QED
      BY <1>1, <2>1, <2>2, <3>1
  <2>4. AddedBy(m) = 0
    BY <2>1 DEF AddedBy
  <2>5. IntegerSum(Added)' = bank'.exposure
    BY <1>2, <2>1, <2>3, <2>4 DEF ExposureInv
  <2>6. ExposureWithinLimit'
    BY <2>1 DEF ExposureInv, ExposureWithinLimit
  <2>7. Waiting' \subseteq Messages /\ Waiting \subseteq Messages /\ m \notin Waiting
    BY <2>1 DEF Waiting
  <2>8. ~crowded' => /\ \A i, j \in Waiting' : i = j
                     /\ \A i \in Waiting' : FitsLimit(swift[i].amount)'
    <3>1. SUFFICES ASSUME ~crowded' PROVE /\ \A i, j \in Waiting' : i = j
                                          /\ \A i \in Waiting' : FitsLimit(swift[i].amount)'
      OBVIOUS
    <3>2. ~crowded /\ (d = "OUTBOUND" => Waiting = {})
      BY <2>1, <3>1, <1>0
    <3>3. \A i \in Waiting : swift'[i] = swift[i]
      BY <2>3, <2>7
    <3> QED
      BY <2>1, <2>2, <2>3, <2>7, <3>2, <3>3 DEF ExposureInv, FitsLimit
  <2> QED
    BY <2>1, <2>2, <2>3, <2>5, <2>6, <2>8 DEF ExposureInv
<1>4. CASE SendMessage(m)
  <2>1. PICK w : w = [swift[m] EXCEPT !.status = "SENT", !.sent = TRUE]
    OBVIOUS
  <2>2. /\ swift[m].status = "QUEUED" /\ swift' = [swift EXCEPT ![m] = w]
        /\ bank' = [bank EXCEPT !.exposure = @ + Exposed(swift[m])] /\ UNCHANGED crowded
    <3>1. swift' = [swift EXCEPT ![m].status = "SENT", ![m].sent = TRUE]
      BY <1>4 DEF SendMessage
    <3>2. swift' = [swift EXCEPT ![m] = w]
      BY <3>1, <2>1, <1>0 DEF CorrespondentTypeOK
    <3> QED
      BY <3>2, <1>4 DEF SendMessage
  <2>3. swift[m] \in LiveMessages /\ swift[m].amount \in Nat /\ ~swift[m].sent
    BY <1>0, <2>2, MessageShape DEF ExposureInv
  <2>4. /\ w \in LiveMessages /\ w.status = "SENT" /\ w.sent
        /\ w.direction = swift[m].direction /\ w.amount = swift[m].amount
    BY <2>1, <2>3 DEF LiveMessages
  <2>5. Exposed(w) = Exposed(swift[m]) /\ Exposed(w) \in Nat
    BY <2>3, <2>4 DEF Exposed
  <2>6. /\ bank' \in BankRows /\ bank'.exposure = bank.exposure + Exposed(w)
        /\ bank'.limit = bank.limit /\ bank'.status = bank.status
    BY <1>0, <2>2, <2>5 DEF BankRows
  <2>7. /\ CorrespondentTypeOK' /\ swift'[m] = w
        /\ \A n \in Messages : n # m => swift'[n] = swift[n]
        /\ IntegerSum(Added)' = IntegerSum(Added) - AddedBy(m) + Exposed(w)
        /\ \A n \in Messages : n # m => (n \in Waiting' <=> n \in Waiting)
        /\ m \notin Waiting'
    BY <1>0, <1>1, <2>2, <2>4, <2>6
  <2>8. AddedBy(m) = 0
    BY <2>3 DEF AddedBy
  <2>9. IntegerSum(Added)' = bank'.exposure
    BY <1>2, <2>5, <2>6, <2>7, <2>8 DEF ExposureInv
  <2>10. ~crowded /\ Exposed(w) # 0 => m \in Waiting /\ Exposed(w) = swift[m].amount
    BY <2>2, <2>5 DEF Waiting, Exposed
  <2>11. ExposureWithinLimit'
    <3>1. SUFFICES ASSUME ~crowded, bank.limit # 0 PROVE bank'.exposure <= bank.limit
      BY <2>2, <2>6 DEF ExposureWithinLimit
    <3>2. bank.exposure <= bank.limit
      BY <3>1 DEF ExposureInv, ExposureWithinLimit
    <3>3. Exposed(w) # 0 => bank.exposure + Exposed(w) <= bank.limit
      BY <3>1, <2>10 DEF ExposureInv, FitsLimit
    <3> QED
      BY <3>2, <3>3, <2>6, <1>0, <2>5
  <2>12. Waiting' \subseteq Messages /\ Waiting' \subseteq Waiting
    BY <2>7 DEF Waiting
  <2>13. ~crowded' => /\ \A i, j \in Waiting' : i = j
                      /\ \A i \in Waiting' : FitsLimit(swift[i].amount)'
    <3>1. SUFFICES ASSUME ~crowded, NEW i \in Waiting' PROVE FitsLimit(swift[i].amount)' /\ \A j \in Waiting' : i = j
      BY <2>2
    <3>2. i \in Messages /\ i # m /\ i \in Waiting
      BY <2>7, <2>12
    <3>3. \A j \in Waiting : i = j
      BY <3>1, <3>2 DEF ExposureInv
    <3>4. FitsLimit(swift[i].amount)'
      <4>1. m \notin Waiting
        BY <3>2, <3>3
      <4>2. Exposed(w) = 0
        BY <2>10, <3>1, <4>1
      <4>3. bank'.exposure = bank.exposure /\ swift'[i] = swift[i]
        BY <4>2, <2>6, <2>7, <3>2, <1>0
      <4> QED
        BY <4>3, <2>6, <3>1, <3>2 DEF ExposureInv, FitsLimit
    <3> QED
      BY <3>3, <3>4, <2>12
  <2>14. \A n \in Messages : swift'[n].status = "QUEUED" => ~swift'[n].sent
    BY <2>4, <2>7 DEF ExposureInv
  <2>15. bank'.status # "none"
    BY <2>2, <2>6 DEF ExposureInv
  <2> QED
    BY <2>7, <2>9, <2>11, <2>13, <2>14, <2>15 DEF ExposureInv
<1>5. CASE AcknowledgeMessage(m)
  <2>1. PICK w : w = [swift[m] EXCEPT !.status = "ACKNOWLEDGED"]
    OBVIOUS
  <2>2. swift[m].status # "none" /\ swift' = [swift EXCEPT ![m] = w] /\ UNCHANGED <<bank, crowded>>
    BY <2>1, <1>5 DEF AcknowledgeMessage
  <2>3. swift[m] \in LiveMessages /\ swift[m].amount \in Nat
    BY <1>0, <2>2, MessageShape
  <2>4. /\ w \in LiveMessages /\ w.status = "ACKNOWLEDGED" /\ w.sent = swift[m].sent
        /\ w.direction = swift[m].direction /\ w.amount = swift[m].amount
    BY <2>1, <2>3 DEF LiveMessages
  <2>5. AddedBy(m) = IF w.sent THEN Exposed(w) ELSE 0
    BY <2>2, <2>4 DEF AddedBy, Exposed
  <2>6. /\ CorrespondentTypeOK' /\ swift'[m] = w
        /\ \A n \in Messages : n # m => swift'[n] = swift[n]
        /\ IntegerSum(Added)' = IntegerSum(Added) - AddedBy(m) + AddedBy(m)
        /\ \A n \in Messages : n # m => (n \in Waiting' <=> n \in Waiting)
        /\ m \notin Waiting'
    BY <1>0, <1>1, <2>2, <2>4, <2>5
  <2>7. IntegerSum(Added)' = bank'.exposure
    BY <1>2, <2>2, <2>6 DEF ExposureInv
  <2>8. ExposureWithinLimit'
    BY <2>2 DEF ExposureInv, ExposureWithinLimit
  <2>9. Waiting' \subseteq Messages /\ Waiting' \subseteq Waiting
    BY <2>6 DEF Waiting
  <2>10. ~crowded' => /\ \A i, j \in Waiting' : i = j
                      /\ \A i \in Waiting' : FitsLimit(swift[i].amount)'
    BY <2>2, <2>6, <2>9 DEF ExposureInv, FitsLimit
  <2>11. \A n \in Messages : swift'[n].status = "QUEUED" => ~swift'[n].sent
    BY <2>4, <2>6 DEF ExposureInv
  <2>12. bank'.status # "none"
    BY <2>2 DEF ExposureInv
  <2> QED
    BY <2>6, <2>7, <2>8, <2>10, <2>11, <2>12 DEF ExposureInv
<1> QED
  BY <1>3, <1>4, <1>5

(* CorrespondentService: the exposure to a bank is the sum of what was sent *)
(* to it, each message once, and stays within the limit while messages are *)
(* created and sent one at a time.                                         *)
THEOREM ExposureCounted == CorrespondentSpec => [](CorrespondentTypeOK /\ ExposureSound)
<1>1. CorrespondentInit => ExposureInv
  <2> SUFFICES ASSUME CorrespondentInit PROVE ExposureInv
    OBVIOUS
  <2>1. CorrespondentTypeOK /\ Waiting = {} /\ ExposureWithinLimit
    BY DEF CorrespondentInit, CorrespondentTypeOK, KycStatuses, Waiting, ExposureWithinLimit
  <2>2. /\ IsFiniteSet(DOMAIN Added) /\ \A m \in DOMAIN Added : Added[m] \in Nat /\ Added[m] = 0
    BY <2>1, AddedTyped DEF AddedFits, CorrespondentInit, AddedBy
  <2>3. IntegerSum(Added) = 0
    BY <2>2, SumOfNaturals
  <2> QED
    BY <2>1, <2>3 DEF CorrespondentInit, ExposureInv
<1>2. ExposureInv /\ [CorrespondentNext]_correspondentVars => ExposureInv'
  <2> SUFFICES ASSUME ExposureInv, [CorrespondentNext]_correspondentVars PROVE ExposureInv'
    OBVIOUS
  <2>1. CASE UNCHANGED correspondentVars
    <3>1. UNCHANGED <<bank, swift, crowded>>
      BY <2>1 DEF correspondentVars
    <3>2. IntegerSum(Added)' = IntegerSum(Added) /\ Waiting' = Waiting
      BY <3>1, MessagesStand
    <3> QED
      BY <3>1, <3>2 DEF ExposureInv, CorrespondentTypeOK, ExposureWithinLimit, FitsLimit
  <2> QED
    BY <2>1, BankStep, MessageStep DEF CorrespondentNext
<1>3. ExposureInv => CorrespondentTypeOK /\ ExposureSound
  <2>1. \A f : FoldFunction(+, 0, f) = IntegerSum(f)
    BY DEF IntegerSum
  <2> QED
    BY <2>1 DEF ExposureInv, ExposureSound, ExposureCountsSent, Added, AddedBy
<1> QED
  BY <1>1, <1>2, <1>3, PTL DEF CorrespondentSpec

-----------------------------------------------------------------------------
(* Nostro accounts: entries are matched in pairs.                          *)

EntryRows == [type : {"DEBIT", "CREDIT"}, amount : Nat, our : STRING, their : STRING,
              status : {"UNMATCHED", "MATCHED", "DISPUTED"}, partner : Nat]

(* The promises of the service, about any statement.                       *)
PairedUp(st) ==
  \A i \in DOMAIN st :
    LET j == st[i].partner IN
    /\ st[i].status = "MATCHED" => j # 0
    /\ j # 0 => /\ j \in DOMAIN st /\ st[j].partner = i
                /\ st[j].type # st[i].type
                /\ st[j].status # "UNMATCHED"
KnownOnce(st) ==
  \A i, j \in DOMAIN st : i # j /\ st[i].our # NoReference => st[i].our # st[j].our

(* The statements that keep them; pairs as far as before.                  *)
Reconciled(paired) == {st \in Seq(EntryRows) : KnownOnce(st) /\ (paired => PairedUp(st))}

(* The first of the entries that may be the other side of a line.          *)
LEMMA FirstOpposite ==
  ASSUME NEW T \in SUBSET Nat, T # {}
  PROVE  Min(T) \in T
<1>1. \E n \in T : \A m \in T : n <= m
  BY LeastNatural
<1> QED
  BY <1>1 DEF Min

(* The greatest of some numbers up to n, and of all of them.               *)
LEMMA LastOfMany ==
  ASSUME NEW n \in Nat, NEW s \in SUBSET (1..n), s # {}
  PROVE  Max(s) \in s
<1> DEFINE T == {n - i : i \in s}
<1>1. T \in SUBSET Nat /\ T # {}
  <2>1. \A i \in s : n - i \in Nat
    OBVIOUS
  <2> QED
    BY <2>1
<1>2. PICK m \in T : \A k \in T : m <= k
  <2> HIDE DEF T
  <2> QED
    BY <1>1, LeastNatural
<1>3. n - m \in s /\ \A i \in s : i <= n - m
  <2>1. PICK i \in s : m = n - i
    BY <1>2
  <2>2. \A j \in s : m <= n - j
    BY <1>2
  <2>3. s \subseteq 1..n /\ \A j \in 1..n : j \in Int
    OBVIOUS
  <2> QED
    BY <2>1, <2>2, <2>3
<1> QED
  BY <1>3 DEF Max

(* The numbers up to i, and those below it.                                *)
LEMMA LastOfRange ==
  ASSUME NEW n \in Nat, NEW i \in 1..n
  PROVE  1..i \in SUBSET (1..n) /\ 1..i # {} /\ Max(1..i) = i /\ (1..i) \ {i} = 1..(i - 1)
<1>1. Max(1..i) \in 1..i /\ \A j \in 1..i : j <= Max(1..i)
  <2>1. \E j \in 1..i : \A k \in 1..i : k <= j
    OBVIOUS
  <2> QED
    BY <2>1 DEF Max
<1> QED
  BY <1>1

(* A line that is entered keeps a statement reconciled.                    *)
LEMMA EnteredOne ==
  ASSUME NEW paired \in BOOLEAN, NEW st \in Reconciled(paired), NEW raw \in RawEntries
  PROVE  Entered(st, raw) \in Reconciled(paired)
<1>0. /\ st \in Seq(EntryRows) /\ Len(st) \in Nat /\ DOMAIN st = 1..Len(st)
      /\ KnownOnce(st) /\ (paired => PairedUp(st))
      /\ \A i \in DOMAIN st : st[i] \in EntryRows
  BY DEF Reconciled
<1>1. /\ raw.type \in {"DEBIT", "CREDIT"} /\ raw.amount \in Nat
      /\ raw.our \in STRING /\ raw.their \in STRING
  BY NostroConstants
<1>2. ASSUME NEW u, NEW e, NEW o \in Nat,
             u = [i \in DOMAIN st |-> IF i = o THEN [st[o] EXCEPT !.status = "MATCHED", !.partner = Len(st) + 1]
                                      ELSE st[i]],
             e \in EntryRows, e.our = raw.our, e.type = raw.type, ~SeenBefore(st, raw),
             \/ o = 0 /\ e.partner = 0 /\ e.status = "UNMATCHED"
             \/ o \in Opposites(st, raw) /\ e.partner = o /\ e.status = "MATCHED"
      PROVE  Append(u, e) \in Reconciled(paired)
  <2> DEFINE n == Len(st) + 1
             v == Append(u, e)
  <2>1. ASSUME NEW i \in DOMAIN st
        PROVE  /\ u[i] \in EntryRows /\ u[i].our = st[i].our /\ u[i].type = st[i].type
               /\ i # o => u[i] = st[i]
               /\ i = o => u[i].partner = n /\ u[i].status = "MATCHED"
    <3>1. st[i] \in EntryRows /\ n \in Nat
      BY <1>0
    <3> QED
      BY <1>2, <3>1 DEF EntryRows
  <2>2. /\ u \in Seq(EntryRows) /\ Len(u) = Len(st) /\ DOMAIN u = 1..Len(st)
    <3>1. DOMAIN u = 1..Len(st) /\ u = [i \in 1..Len(st) |-> u[i]]
      BY <1>0, <1>2
    <3>2. \A i \in 1..Len(st) : u[i] \in EntryRows
      BY <2>1, <1>0
    <3> QED
      BY <3>1, <3>2, <1>0
  <2>3. /\ v \in Seq(EntryRows) /\ Len(v) = n /\ DOMAIN v = 1..n
        /\ v[n] = e /\ \A i \in DOMAIN st : v[i] = u[i]
    BY <2>2, <1>0, <1>2
  <2> HIDE DEF v
  <2>4. \A i \in DOMAIN st : v[i].our = st[i].our /\ v[i].type = st[i].type
    BY <2>1, <2>3
  <2>5. \A i \in 1..n : i = n \/ i \in DOMAIN st
    BY <1>0
  <2>6. n \notin DOMAIN st /\ n # 0 /\ \A i \in DOMAIN st : i # 0
    BY <1>0
  <2>7. KnownOnce(v)
    <3>1. ASSUME NEW i \in 1..n, NEW j \in 1..n, i # j, v[i].our # NoReference PROVE v[i].our # v[j].our
      <4>1. CASE i \in DOMAIN st /\ j \in DOMAIN st
        BY <4>1, <3>1, <2>4, <1>0 DEF KnownOnce
      <4>2. CASE i = n /\ j \in DOMAIN st
        BY <4>2, <3>1, <2>3, <2>4, <1>2 DEF SeenBefore
      <4>3. CASE j = n /\ i \in DOMAIN st
        <5>1. v[i].our = st[i].our /\ v[n].our = raw.our
          BY <4>3, <2>3, <2>4, <1>2
        <5>2. raw.our = v[i].our => SeenBefore(st, raw)
          BY <5>1, <4>3, <3>1 DEF SeenBefore
        <5> QED
          BY <5>1, <5>2, <4>3, <1>2
      <4> QED
        BY <4>1, <4>2, <4>3, <2>5, <3>1
    <3> QED
      BY <3>1, <2>3 DEF KnownOnce
  <2>8. ASSUME paired PROVE PairedUp(v)
    <3>1. PairedUp(st)
      BY <1>0, <2>8
    <3>2. o # 0 => /\ o \in DOMAIN st /\ st[o].status = "UNMATCHED" /\ st[o].type # raw.type
                   /\ st[o].partner = 0
      <4>1. o # 0 => o \in DOMAIN st /\ st[o].status = "UNMATCHED" /\ st[o].type # raw.type
        BY <1>2 DEF Opposites
      <4>2. o # 0 /\ st[o].partner # 0 => FALSE
        <5>1. ASSUME o # 0, st[o].partner # 0 PROVE FALSE
          <6>1. /\ st[o].partner \in DOMAIN st /\ st[st[o].partner].partner = o
            BY <5>1, <4>1, <3>1 DEF PairedUp
          <6>2. st[st[st[o].partner].partner].status # "UNMATCHED"
            BY <5>1, <6>1, <3>1 DEF PairedUp
          <6> QED
            BY <6>1, <6>2, <4>1, <5>1
        <5> QED
          BY <5>1
      <4> QED
        BY <4>1, <4>2
    <3>3. \A i \in DOMAIN st : o # 0 => st[i].partner # o
      <4>1. ASSUME NEW i \in DOMAIN st, o # 0, st[i].partner = o PROVE FALSE
        <5>1. st[o].partner = i
          BY <4>1, <3>1 DEF PairedUp
        <5> QED
          BY <5>1, <3>2, <4>1, <2>6
      <4> QED
        BY <4>1
    <3>4. ASSUME NEW i \in 1..n
          PROVE  /\ v[i].status = "MATCHED" => v[i].partner # 0
                 /\ v[i].partner # 0 => /\ v[i].partner \in 1..n /\ v[v[i].partner].partner = i
                                        /\ v[v[i].partner].type # v[i].type
                                        /\ v[v[i].partner].status # "UNMATCHED"
      <4>1. CASE i \in DOMAIN st /\ i # o
        <5>1. v[i] = st[i]
          BY <4>1, <2>1, <2>3
        <5>2. /\ st[i].status = "MATCHED" => st[i].partner # 0
              /\ st[i].partner # 0 => /\ st[i].partner \in DOMAIN st /\ st[st[i].partner].partner = i
                                      /\ st[st[i].partner].type # st[i].type
                                      /\ st[st[i].partner].status # "UNMATCHED"
          BY <4>1, <3>1 DEF PairedUp
        <5>3. st[i].partner # 0 => v[st[i].partner] = st[st[i].partner]
          <6>1. st[i].partner # 0 => st[i].partner \in DOMAIN st /\ st[i].partner # o
            BY <5>2, <3>3, <4>1
          <6> QED
            BY <6>1, <2>1, <2>3
        <5>4. DOMAIN st \subseteq 1..n
          BY <1>0
        <5> QED
          BY <5>1, <5>2, <5>3, <5>4
      <4>2. CASE i \in DOMAIN st /\ i = o
        <5>1. v[i].partner = n /\ v[i].status = "MATCHED" /\ v[i].type = st[o].type
          BY <4>2, <2>1, <2>3
        <5>2. v[n].partner = i /\ v[n].status = "MATCHED" /\ v[n].type # st[o].type
          BY <4>2, <2>3, <2>6, <1>2, <3>2
        <5>3. n \in 1..n
          BY <1>0
        <5> QED
          BY <5>1, <5>2, <5>3, <2>6
      <4>3. CASE i = n
        <5>1. v[i] = e
          BY <4>3, <2>3
        <5>2. CASE o = 0
          BY <5>1, <5>2, <1>2 DEF Opposites
        <5>3. CASE o # 0
          <6>1. e.partner = o /\ o \in DOMAIN st
            BY <5>3, <1>2, <3>2
          <6>2. v[o].partner = n /\ v[o].status = "MATCHED" /\ v[o].type = st[o].type
            BY <6>1, <2>1, <2>3
          <6>3. DOMAIN st \subseteq 1..n
            BY <1>0
          <6> QED
            BY <5>1, <5>3, <6>1, <6>2, <6>3, <4>3, <3>2, <1>2
        <5> QED
          BY <5>2, <5>3
      <4> QED
        BY <4>1, <4>2, <4>3, <2>5
    <3> QED
      BY <3>4, <2>3 DEF PairedUp
  <2> QED
    BY <2>3, <2>7, <2>8 DEF Reconciled, v
<1>3. CASE SeenBefore(st, raw)
  BY <1>3 DEF Entered
<1>4. CASE ~SeenBefore(st, raw) /\ Opposites(st, raw) = {}
  <2>1. PICK e : e = Entry(raw, "UNMATCHED", 0)
    OBVIOUS
  <2>2. e \in EntryRows /\ e.our = raw.our /\ e.type = raw.type /\ e.partner = 0 /\ e.status = "UNMATCHED"
    BY <2>1, <1>1 DEF Entry, EntryRows
  <2>3. Entered(st, raw) = Append(st, e)
    BY <1>4, <2>1 DEF Entered
  <2>4. st = [i \in DOMAIN st |-> IF i = 0 THEN [st[0] EXCEPT !.status = "MATCHED", !.partner = Len(st) + 1]
                                  ELSE st[i]]
    <3>1. \A i \in DOMAIN st : i # 0
      BY <1>0
    <3>2. st = [i \in DOMAIN st |-> st[i]]
      BY <1>0
    <3> QED
      BY <3>1, <3>2
  <2>5. Append(st, e) \in Reconciled(paired)
    <3>1. 0 \in Nat
      OBVIOUS
    <3> QED
      BY ONLY <1>2, <1>4, <2>2, <2>4, <3>1
  <2> QED
    BY <2>3, <2>5
<1>5. CASE ~SeenBefore(st, raw) /\ Opposites(st, raw) # {}
  <2>1. PICK o : o = Min(Opposites(st, raw))
    OBVIOUS
  <2>2. o \in Opposites(st, raw) /\ o \in Nat /\ o \in DOMAIN st
    <3>1. Opposites(st, raw) \in SUBSET Nat
      BY <1>0 DEF Opposites
    <3> QED
      BY <2>1, <3>1, <1>5, FirstOpposite DEF Opposites
  <2>3. PICK e : e = Entry(raw, "MATCHED", o)
    OBVIOUS
  <2>4. e \in EntryRows /\ e.our = raw.our /\ e.type = raw.type /\ e.partner = o /\ e.status = "MATCHED"
    BY <2>2, <2>3, <1>1 DEF Entry, EntryRows
  <2>5. PICK u : u = [i \in DOMAIN st |-> IF i = o THEN [st[o] EXCEPT !.status = "MATCHED", !.partner = Len(st) + 1]
                                          ELSE st[i]]
    OBVIOUS
  <2>6. u = [st EXCEPT ![o].status = "MATCHED", ![o].partner = Len(st) + 1]
    BY <2>2, <2>5, <1>0
  <2>7. Entered(st, raw) = Append(u, e)
    BY <1>5, <2>1, <2>3, <2>6 DEF Entered
  <2> QED
    BY <1>2, <1>5, <2>2, <2>4, <2>5, <2>7
<1> QED
  BY <1>3, <1>4, <1>5

(* And so does a whole statement of lines, folded from the first.          *)
LEMMA EnteredAll ==
  ASSUME NEW paired \in BOOLEAN, NEW st \in Reconciled(paired), NEW n \in Nat,
         NEW batch \in [1..n -> RawEntries]
  PROVE  FoldLeft(Entered, st, batch) \in Reconciled(paired)
<1> DEFINE X == Reconciled(paired)
           S == 1..n
           first == [s \in SUBSET S |-> Max(s)]
           step == [p \in S \X X |-> Entered(p[2], batch[p[1]])]
           Solves(it) == it = [s \in SUBSET S |-> IF s = {} THEN st
                                ELSE Entered(it[s \ {Max(s)}], batch[Max(s)])]
<1>1. \A s \in SUBSET S : s # {} => first[s] = Max(s) /\ Max(s) \in s
  <2>1. ASSUME NEW s \in SUBSET S, s # {} PROVE Max(s) \in s
    BY <2>1, LastOfMany
  <2> QED
    BY <2>1
<1>2. StaysIn(S, X, first, step)
  <2>1. \A i \in S : \A x \in X : step[<<i, x>>] \in X
    BY EnteredOne
  <2> QED
    BY <1>1, <2>1 DEF StaysIn
<1>3. PICK it : FoldsTo(it, S, X, st, first, step)
  <2>1. IsFiniteSet(S) /\ st \in X
    BY FS_Interval
  <2> HIDE DEF S, X, first, step
  <2> QED
    BY <1>2, <2>1, FoldExists
<1>4. Solves(it)
  <2>1. ASSUME NEW s \in SUBSET S, s # {}
        PROVE  it[s] = Entered(it[s \ {Max(s)}], batch[Max(s)])
    <3>1. first[s] = Max(s) /\ Max(s) \in S /\ s \ {Max(s)} \in SUBSET S
      BY <1>1, <2>1
    <3>2. it[s \ {Max(s)}] \in X
      BY <1>3, <3>1 DEF FoldsTo
    <3>3. step[<<Max(s), it[s \ {Max(s)}]>>] = Entered(it[s \ {Max(s)}], batch[Max(s)])
      BY <3>1, <3>2
    <3> QED
      BY <1>3, <2>1, <3>1, <3>3 DEF FoldsTo
  <2>2. it[{}] = st
    BY <1>3 DEF FoldsTo
  <2>3. it = [s \in SUBSET S |-> it[s]]
    BY <1>3 DEF FoldsTo
  <2> HIDE DEF first, step, X, S
  <2> QED
    BY <2>1, <2>2, <2>3
<1>5. PICK jt : Solves(jt) /\ FoldLeft(Entered, st, batch) = jt[S]
  <2> DEFINE jt == CHOOSE jt : Solves(jt)
  <2>1. Solves(jt)
    <3> HIDE DEF Solves
    <3> QED
      BY <1>4
  <2>2. FoldLeft(Entered, st, batch) = jt[S]
    <3>1. DOMAIN batch = S
      OBVIOUS
    <3> QED
      BY <3>1 DEF FoldLeft, MapThenFoldSet
  <2> HIDE DEF jt, Solves
  <2> QED
    BY <2>1, <2>2
<1>6. jt[{}] \in X
  BY <1>5
<1>7. ASSUME NEW i \in 1..n, jt[1..(i - 1)] \in X PROVE jt[1..i] \in X
  <2>1. 1..i \in SUBSET S /\ 1..i # {} /\ Max(1..i) = i /\ (1..i) \ {i} = 1..(i - 1)
    BY LastOfRange
  <2>2. jt[1..i] = Entered(jt[1..(i - 1)], batch[i])
    BY <1>5, <2>1
  <2> HIDE DEF X
  <2> QED
    BY <2>2, <1>7, EnteredOne DEF X
<1>8. jt[1..n] \in X
  <2> DEFINE good == [i \in 0..n |-> X]
  <2>1. jt[{}] \in good[0] /\ \A i \in 1..n : jt[1..(i - 1)] \in good[i - 1] => jt[1..i] \in good[i]
    <3>1. ASSUME NEW i \in 1..n PROVE i \in 0..n /\ i - 1 \in 0..n
      OBVIOUS
    <3> HIDE DEF X
    <3> QED
      BY <1>6, <1>7, <3>1
  <2>2. good[n] = X
    OBVIOUS
  <2> HIDE DEF good, X
  <2> QED
    BY <2>1, <2>2, FoldKeeps
<1> QED
  BY <1>5, <1>8

NostroInv == entries \in Reconciled(~rematched) /\ rematched \in BOOLEAN

(* Two entries are matched by hand.                                        *)
LEMMA MatchedByHand ==
  ASSUME NostroInv, NEW i \in DOMAIN entries, NEW j \in DOMAIN entries, ManualMatch(i, j)
  PROVE  NostroInv'
<1> DEFINE u == entries'
<1>0. /\ entries \in Seq(EntryRows) /\ DOMAIN entries = 1..Len(entries) /\ Len(entries) \in Nat
      /\ KnownOnce(entries) /\ (~rematched => PairedUp(entries))
      /\ rematched \in BOOLEAN /\ i # 0 /\ j # 0 /\ i \in Nat /\ j \in Nat
      /\ \A k \in DOMAIN entries : entries[k] \in EntryRows
  BY DEF NostroInv, Reconciled
<1>1. /\ i # j /\ entries[i].type # entries[j].type
      /\ rematched' = (\/ rematched \/ entries[i].partner \notin {0, j} \/ entries[j].partner \notin {0, i})
  BY DEF ManualMatch
<1>2. PICK a : a = [entries[i] EXCEPT !.status = "MATCHED", !.partner = j]
  OBVIOUS
<1>3. PICK b : b = [entries[j] EXCEPT !.status = "MATCHED", !.partner = i]
  OBVIOUS
<1>4. /\ a \in EntryRows /\ a.our = entries[i].our /\ a.type = entries[i].type
      /\ a.partner = j /\ a.status = "MATCHED"
  BY <1>0, <1>2 DEF EntryRows
<1>5. /\ b \in EntryRows /\ b.our = entries[j].our /\ b.type = entries[j].type
      /\ b.partner = i /\ b.status = "MATCHED"
  BY <1>0, <1>3 DEF EntryRows
<1>6. u = [k \in DOMAIN entries |-> IF k = i THEN a ELSE IF k = j THEN b ELSE entries[k]]
  <2>1. entries' = [entries EXCEPT ![i].status = "MATCHED", ![i].partner = j,
                                   ![j].status = "MATCHED", ![j].partner = i]
    BY DEF ManualMatch
  <2> QED
    BY <2>1, <1>0, <1>1, <1>2, <1>3
<1>7. /\ DOMAIN u = DOMAIN entries /\ u[i] = a /\ u[j] = b
      /\ \A k \in DOMAIN entries : k # i /\ k # j => u[k] = entries[k]
      /\ \A k \in DOMAIN entries : u[k] \in EntryRows /\ u[k].our = entries[k].our /\ u[k].type = entries[k].type
  BY <1>0, <1>1, <1>4, <1>5, <1>6
<1>8. u \in Seq(EntryRows)
  <2>1. u = [k \in 1..Len(entries) |-> u[k]]
    BY <1>0, <1>6
  <2> HIDE DEF u
  <2> QED
    BY <1>0, <1>7, <2>1
<1>9. KnownOnce(u)
  BY <1>0, <1>7 DEF KnownOnce
<1>10. ASSUME ~rematched' PROVE PairedUp(u)
  <2>1. /\ PairedUp(entries) /\ entries[i].partner \in {0, j} /\ entries[j].partner \in {0, i}
    BY <1>0, <1>1, <1>10
  <2>2. ASSUME NEW k \in DOMAIN entries
        PROVE  /\ u[k].status = "MATCHED" => u[k].partner # 0
               /\ u[k].partner # 0 => /\ u[k].partner \in DOMAIN u /\ u[u[k].partner].partner = k
                                      /\ u[u[k].partner].type # u[k].type
                                      /\ u[u[k].partner].status # "UNMATCHED"
    <3>1. CASE k = i
      BY <3>1, <1>0, <1>1, <1>4, <1>5, <1>7
    <3>2. CASE k = j
      BY <3>2, <1>0, <1>1, <1>4, <1>5, <1>7
    <3>3. CASE k # i /\ k # j
      <4>1. /\ entries[k].status = "MATCHED" => entries[k].partner # 0
            /\ entries[k].partner # 0 =>
                 /\ entries[k].partner \in DOMAIN entries /\ entries[entries[k].partner].partner = k
                 /\ entries[entries[k].partner].type # entries[k].type
                 /\ entries[entries[k].partner].status # "UNMATCHED"
        BY <2>1 DEF PairedUp
      <4>2. k # 0
        BY <1>0
      <4>3. entries[k].partner # 0 => entries[k].partner # i /\ entries[k].partner # j
        BY <4>1, <4>2, <2>1, <3>3
      <4>4. u[k] = entries[k] /\ (entries[k].partner # 0 => u[entries[k].partner] = entries[entries[k].partner])
        BY <1>7, <3>3, <4>1, <4>3
      <4> QED
        BY <4>1, <4>4, <1>7
    <3> QED
      BY <3>1, <3>2, <3>3
  <2> HIDE DEF u
  <2> QED
    BY <2>2, <1>7 DEF PairedUp
<1>11. rematched' \in BOOLEAN
  BY <1>1
<1> QED
  BY <1>8, <1>9, <1>10, <1>11 DEF NostroInv, Reconciled

(* An entry is disputed: its partner stays as it is.                       *)
LEMMA Disputed ==
  ASSUME NostroInv, NEW i \in DOMAIN entries, DisputeEntry(i)
  PROVE  NostroInv'
<1> DEFINE u == entries'
<1>0. /\ entries \in Seq(EntryRows) /\ DOMAIN entries = 1..Len(entries) /\ Len(entries) \in Nat
      /\ KnownOnce(entries) /\ (~rematched => PairedUp(entries)) /\ rematched \in BOOLEAN
      /\ \A k \in DOMAIN entries : entries[k] \in EntryRows
  BY DEF NostroInv, Reconciled
<1>1. PICK a : a = [entries[i] EXCEPT !.status = "DISPUTED"]
  OBVIOUS
<1>2. /\ a \in EntryRows /\ a.our = entries[i].our /\ a.type = entries[i].type
      /\ a.partner = entries[i].partner /\ a.status = "DISPUTED"
  BY <1>0, <1>1 DEF EntryRows
<1>3. u = [entries EXCEPT ![i] = a] /\ rematched' = rematched
  BY <1>1 DEF DisputeEntry
<1>4. /\ DOMAIN u = DOMAIN entries /\ u[i] = a /\ u \in Seq(EntryRows)
      /\ \A k \in DOMAIN entries : k # i => u[k] = entries[k]
  BY <1>0, <1>2, <1>3
<1> HIDE DEF u
<1>5. \A k \in DOMAIN entries :
        /\ u[k].our = entries[k].our /\ u[k].type = entries[k].type /\ u[k].partner = entries[k].partner
        /\ u[k].status = "UNMATCHED" => entries[k].status = "UNMATCHED"
        /\ u[k].status = "MATCHED" => entries[k].status = "MATCHED"
  BY <1>2, <1>4
<1>6. KnownOnce(u)
  BY <1>0, <1>4, <1>5 DEF KnownOnce
<1>7. PairedUp(entries) => PairedUp(u)
  BY <1>4, <1>5 DEF PairedUp
<1> QED
  BY <1>0, <1>3, <1>4, <1>6, <1>7 DEF NostroInv, Reconciled, u

(* NostroService: matches are pairs of opposite entries that name each     *)
(* other until a match by hand takes one out of its pair, and a statement  *)
(* that is sent again adds nothing with a reference that is there.         *)
THEOREM NostroReconciled == NostroSpec => [](NostroTypeOK /\ NostroSound)
<1>1. NostroInit => NostroInv
  <2>1. <<>> \in Seq(EntryRows) /\ DOMAIN <<>> = {}
    OBVIOUS
  <2> HIDE DEF EntryRows
  <2>2. <<>> \in Reconciled(TRUE)
    BY <2>1 DEF Reconciled, KnownOnce, PairedUp
  <2>3. (~FALSE) = TRUE
    OBVIOUS
  <2> QED
    BY <2>2, <2>3 DEF NostroInit, NostroInv
<1>2. NostroInv /\ [NostroNext]_nostroVars => NostroInv'
  <2> SUFFICES ASSUME NostroInv, [NostroNext]_nostroVars PROVE NostroInv'
    OBVIOUS
  <2>1. CASE UNCHANGED nostroVars
    BY <2>1 DEF nostroVars, NostroInv
  <2>2. ASSUME NEW n \in 1..MaxBatch, NEW batch \in [1..n -> RawEntries], ProcessStatementEntries(batch)
        PROVE  NostroInv'
    <3>1. (~rematched) \in BOOLEAN /\ n \in Nat /\ entries \in Reconciled(~rematched)
      BY NostroConstants DEF NostroInv
    <3>2. FoldLeft(Entered, entries, batch) \in Reconciled(~rematched)
      BY <3>1, EnteredAll
    <3>3. entries' = FoldLeft(Entered, entries, batch) /\ rematched' = rematched
      BY <2>2 DEF ProcessStatementEntries
    <3> HIDE DEF Reconciled
    <3> QED
      BY <3>2, <3>3 DEF NostroInv
  <2> QED
    BY <2>1, <2>2, MatchedByHand, Disputed DEF NostroNext
<1>3. NostroInv => NostroTypeOK /\ NostroSound
  BY DEF NostroInv, Reconciled, EntryRows, NostroTypeOK, NostroSound, MatchedInPairs, NoEntryTwice,
         PairedUp, KnownOnce
<1> QED
  BY <1>1, <1>2, <1>3, PTL DEF NostroSpec

-----------------------------------------------------------------------------
(* Cash pools: a sweep is a fold that moves money one account at a time.   *)

PoolStates == [PoolAccounts -> Int]

(* The balances of the pool are integers, finitely many.                   *)
LEMMA BalancesSum ==
  ASSUME NEW b \in PoolStates
  PROVE  /\ DOMAIN b = PoolAccounts /\ IsFiniteSet(DOMAIN b) /\ \A a \in PoolAccounts : b[a] \in Int
         /\ PoolTotal(b) = IntegerSum(b) /\ PoolTotal(b) \in Int
<1>1. DOMAIN b = PoolAccounts /\ \A a \in PoolAccounts : b[a] \in Int
  BY DEF PoolStates
<1>2. IsFiniteSet(PoolAccounts)
  <2>1. 1 \in Int /\ Sub + 1 \in Int
    BY PoolConstants
  <2> QED
    BY <2>1, FS_Interval DEF PoolAccounts
<1>3. PoolTotal(b) = IntegerSum(b)
  BY DEF PoolTotal, IntegerSum
<1> QED
  BY <1>1, <1>2, <1>3, SumType

(* What the sweep leaves a swept account with, from the balance n.         *)
Levelled(a, n, m) ==
  IF Sweeps[a] /\ n >= Target[a] THEN m = Target[a]
  ELSE m \in n..(IF Sweeps[a] THEN Target[a] ELSE n)

(* One turn moves money between an account and the header.                 *)
LEMMA SweptMoves ==
  ASSUME NEW b \in PoolStates, NEW a \in PoolAccounts \ {1}
  PROVE  /\ SweptOne(b, a) \in PoolStates /\ PoolTotal(SweptOne(b, a)) = PoolTotal(b)
         /\ \A x \in PoolAccounts \ {1, a} : SweptOne(b, a)[x] = b[x]
         /\ SweptOne(b, a)[1] >= Least(b[1], HeaderMin)
         /\ Levelled(a, b[a], SweptOne(b, a)[a])
<1>0. /\ 1 \in PoolAccounts /\ b[a] \in Int /\ b[1] \in Int /\ HeaderMin \in Int
      /\ Target[a] \in Int /\ Sweeps[a] \in BOOLEAN
  BY PoolConstants DEF PoolStates, PoolAccounts
<1>1. PICK d \in Int : /\ SweptOne(b, a) = [b EXCEPT ![a] = b[a] + d, ![1] = b[1] - d]
                       /\ Levelled(a, b[a], b[a] + d)
                       /\ b[1] - d >= Least(b[1], HeaderMin)
  <2>1. CASE ~Sweeps[a]
    <3>1. SweptOne(b, a) = b /\ b = [b EXCEPT ![a] = b[a] + 0, ![1] = b[1] - 0]
      BY <2>1, <1>0 DEF SweptOne, PoolStates
    <3> QED
      BY <2>1, <3>1, <1>0 DEF Levelled, Least
  <2>2. CASE Sweeps[a] /\ b[a] > Target[a]
    <3>1. SweptOne(b, a) = [b EXCEPT ![a] = Target[a], ![1] = b[1] + b[a] - Target[a]]
      BY <2>2, <1>0 DEF SweptOne, PoolStates
    <3>2. PICK d \in Int : d = Target[a] - b[a]
      BY <1>0
    <3>3. Target[a] = b[a] + d /\ b[1] + b[a] - Target[a] = b[1] - d
      BY <1>0, <3>2
    <3>4. SweptOne(b, a) = [b EXCEPT ![a] = b[a] + d, ![1] = b[1] - d]
      <4>1. PICK t : t = Target[a]
        OBVIOUS
      <4> QED
        BY <3>1, <3>3, <4>1
    <3>5. Levelled(a, b[a], b[a] + d)
      BY <2>2, <3>3, <1>0 DEF Levelled
    <3>6. b[1] - d >= Least(b[1], HeaderMin)
      BY <2>2, <3>2, <1>0 DEF Least
    <3> QED
      BY <3>2, <3>4, <3>5, <3>6
  <2>3. CASE Sweeps[a] /\ ~(b[a] > Target[a])
    <3>1. PICK d : d = Lends(b, Target[a] - b[a])
      OBVIOUS
    <3>2. d \in Int /\ 0 <= d /\ d <= Target[a] - b[a] /\ (d = 0 \/ b[1] - d >= HeaderMin)
      BY <1>0, <2>3, <3>1 DEF Lends, Least
    <3>3. SweptOne(b, a) = [b EXCEPT ![a] = b[a] + d, ![1] = b[1] - d]
      BY <2>3, <3>1, <1>0 DEF SweptOne, PoolStates
    <3>4. Levelled(a, b[a], b[a] + d) /\ b[1] - d >= Least(b[1], HeaderMin)
      BY <1>0, <2>3, <3>2 DEF Levelled, Least
    <3> QED
      BY <3>2, <3>3, <3>4
  <2> QED
    BY <1>0, <2>1, <2>2, <2>3
<1>2. PICK c : c = [b EXCEPT ![a] = b[a] + d]
  OBVIOUS
<1>3. PICK e : e = [c EXCEPT ![1] = b[1] - d]
  OBVIOUS
<1>4. /\ c \in PoolStates /\ c[a] = b[a] + d /\ c[1] = b[1]
      /\ \A x \in PoolAccounts : x # a => c[x] = b[x]
  BY <1>0, <1>2 DEF PoolStates
<1>5. /\ e \in PoolStates /\ e[1] = b[1] - d /\ e[a] = b[a] + d
      /\ \A x \in PoolAccounts : x # 1 => e[x] = c[x]
  BY <1>0, <1>3, <1>4 DEF PoolStates
<1>6. SweptOne(b, a) = e
  BY <1>1, <1>2, <1>3
<1>7. PoolTotal(c) = PoolTotal(b) + d
  <2>1. IntegerSum(c) = IntegerSum(b) - b[a] + c[a]
    <3>1. /\ DOMAIN b = PoolAccounts /\ IsFiniteSet(DOMAIN b) /\ \A x \in PoolAccounts : b[x] \in Int
      BY BalancesSum
    <3>2. DOMAIN c = DOMAIN b /\ c[a] \in Int
      BY <1>0, <1>4 DEF PoolStates
    <3> QED
      BY <3>1, <3>2, <1>4, SumChange
  <2> QED
    BY <2>1, <1>0, <1>4, BalancesSum
<1>8. PoolTotal(e) = PoolTotal(c) - d
  <2>1. IntegerSum(e) = IntegerSum(c) - c[1] + e[1]
    <3>1. /\ DOMAIN c = PoolAccounts /\ IsFiniteSet(DOMAIN c) /\ \A x \in PoolAccounts : c[x] \in Int
      BY <1>4, BalancesSum
    <3>2. DOMAIN e = DOMAIN c /\ e[1] \in Int
      BY <1>0, <1>4, <1>5 DEF PoolStates
    <3> QED
      BY <3>1, <3>2, <1>0, <1>5, SumChange
  <2> QED
    BY <2>1, <1>0, <1>4, <1>5, BalancesSum
<1>9. PoolTotal(b) \in Int
  BY BalancesSum
<1>10. PoolTotal(e) = PoolTotal(b)
  BY <1>1, <1>7, <1>8, <1>9
<1>11. \A x \in PoolAccounts \ {1, a} : e[x] = b[x]
  BY <1>4, <1>5
<1>12. e[1] >= Least(b[1], HeaderMin) /\ Levelled(a, b[a], e[a])
  BY <1>1, <1>5
<1> QED
  BY <1>5, <1>6, <1>10, <1>11, <1>12

(* The balances after the first i turns of a sweep of b.                   *)
SweptSoFar(b, i) ==
  {c \in PoolStates :
     /\ PoolTotal(c) = PoolTotal(b) /\ c[1] >= Least(b[1], HeaderMin)
     /\ \A a \in PoolAccounts \ {1} : IF a <= i + 1 THEN Levelled(a, b[a], c[a]) ELSE c[a] = b[a]}

(* A sweep is its turns, one after the other.                              *)
LEMMA SweepFolds ==
  ASSUME NEW b \in PoolStates
  PROVE  FoldLeft(SweptOne, b, [i \in 1..Sub |-> i + 1]) \in SweptSoFar(b, Sub)
<1> DEFINE S == 1..Sub
           row == [i \in S |-> i + 1]
           X == PoolStates
           first == [s \in SUBSET S |-> Max(s)]
           step == [p \in S \X X |-> SweptOne(p[2], row[p[1]])]
           Solves(it) == it = [s \in SUBSET S |-> IF s = {} THEN b
                                ELSE SweptOne(it[s \ {Max(s)}], row[Max(s)])]
<1>0. Sub \in Nat /\ \A i \in S : row[i] = i + 1 /\ i + 1 \in PoolAccounts \ {1}
  BY PoolConstants DEF PoolAccounts
<1>1. \A s \in SUBSET S : s # {} => first[s] = Max(s) /\ Max(s) \in s
  <2>1. ASSUME NEW s \in SUBSET S, s # {} PROVE Max(s) \in s
    BY <1>0, <2>1, LastOfMany
  <2> QED
    BY <2>1
<1>2. StaysIn(S, X, first, step)
  <2>1. \A i \in S : \A x \in X : step[<<i, x>>] \in X
    <3>1. ASSUME NEW i \in S, NEW x \in X PROVE step[<<i, x>>] = SweptOne(x, row[i])
      OBVIOUS
    <3> QED
      BY <1>0, <3>1, SweptMoves
  <2> QED
    BY <1>1, <2>1 DEF StaysIn
<1>3. PICK it : FoldsTo(it, S, X, b, first, step)
  <2>1. IsFiniteSet(S) /\ b \in X
    <3>1. 1 \in Int /\ Sub \in Int
      BY <1>0
    <3> QED
      BY <3>1, FS_Interval
  <2> HIDE DEF S, X, first, step
  <2> QED
    BY <1>2, <2>1, FoldExists
<1>4. Solves(it)
  <2>1. ASSUME NEW s \in SUBSET S, s # {}
        PROVE  it[s] = SweptOne(it[s \ {Max(s)}], row[Max(s)])
    <3>1. first[s] = Max(s) /\ Max(s) \in S /\ s \ {Max(s)} \in SUBSET S
      BY <1>1, <2>1
    <3>2. it[s \ {Max(s)}] \in X
      BY <1>3, <3>1 DEF FoldsTo
    <3>3. step[<<Max(s), it[s \ {Max(s)}]>>] = SweptOne(it[s \ {Max(s)}], row[Max(s)])
      <4> HIDE DEF row, X
      <4> QED
        BY <3>1, <3>2
    <3> QED
      BY <1>3, <2>1, <3>1, <3>3 DEF FoldsTo
  <2>2. it[{}] = b
    BY <1>3 DEF FoldsTo
  <2>3. it = [s \in SUBSET S |-> it[s]]
    BY <1>3 DEF FoldsTo
  <2> HIDE DEF first, step, X, S, row
  <2> QED
    BY <2>1, <2>2, <2>3
<1>5. PICK jt : Solves(jt) /\ FoldLeft(SweptOne, b, row) = jt[S]
  <2> DEFINE jt == CHOOSE jt : Solves(jt)
  <2>1. Solves(jt)
    <3> HIDE DEF Solves
    <3> QED
      BY <1>4
  <2>2. FoldLeft(SweptOne, b, row) = jt[S]
    <3>1. DOMAIN row = S
      OBVIOUS
    <3> HIDE DEF row
    <3> QED
      BY <3>1 DEF FoldLeft, MapThenFoldSet
  <2> HIDE DEF jt, Solves, row
  <2> QED
    BY <2>1, <2>2
<1>6. jt[{}] \in SweptSoFar(b, 0)
  <2>1. jt[{}] = b
    BY <1>5
  <2>2. \A a \in PoolAccounts \ {1} : ~(a <= 0 + 1)
    BY PoolConstants DEF PoolAccounts
  <2>3. b[1] \in Int /\ b[1] >= Least(b[1], HeaderMin)
    BY PoolConstants DEF PoolStates, PoolAccounts, Least
  <2> QED
    BY <2>1, <2>2, <2>3 DEF SweptSoFar
<1>7. ASSUME NEW i \in 1..Sub, jt[1..(i - 1)] \in SweptSoFar(b, i - 1) PROVE jt[1..i] \in SweptSoFar(b, i)
  <2>1. 1..i \in SUBSET S /\ 1..i # {} /\ Max(1..i) = i /\ (1..i) \ {i} = 1..(i - 1)
    BY <1>0, LastOfRange
  <2>2. jt[1..i] = SweptOne(jt[1..(i - 1)], row[i])
    <3> HIDE DEF row
    <3> QED
      BY <1>5, <2>1
  <2>3. PICK c : c = jt[1..(i - 1)]
    OBVIOUS
  <2>4. PICK e : e = SweptOne(c, i + 1)
    OBVIOUS
  <2>5. /\ c \in PoolStates /\ PoolTotal(c) = PoolTotal(b) /\ c[1] >= Least(b[1], HeaderMin)
        /\ \A a \in PoolAccounts \ {1} : IF a <= i - 1 + 1 THEN Levelled(a, b[a], c[a]) ELSE c[a] = b[a]
    BY <1>7, <2>3 DEF SweptSoFar
  <2>6. /\ e \in PoolStates /\ PoolTotal(e) = PoolTotal(c)
        /\ \A x \in PoolAccounts \ {1, i + 1} : e[x] = c[x]
        /\ e[1] >= Least(c[1], HeaderMin)
        /\ Levelled(i + 1, c[i + 1], e[i + 1])
    BY <1>0, <2>4, <2>5, SweptMoves
  <2>7. e[1] >= Least(b[1], HeaderMin)
    <3>1. e[1] \in Int /\ c[1] \in Int /\ b[1] \in Int /\ HeaderMin \in Int
      BY <2>5, <2>6, PoolConstants DEF PoolStates, PoolAccounts
    <3> QED
      BY <2>5, <2>6, <3>1 DEF Least
  <2>8. ASSUME NEW a \in PoolAccounts \ {1}
        PROVE  IF a <= i + 1 THEN Levelled(a, b[a], e[a]) ELSE e[a] = b[a]
    <3>1. a \in Int /\ i \in Int
      BY <1>0 DEF PoolAccounts
    <3>2. CASE a = i + 1
      <4>1. ~(a <= i - 1 + 1) /\ a <= i + 1
        BY <3>1, <3>2
      <4>2. c[a] = b[a] /\ Levelled(a, c[a], e[a])
        BY <2>5, <2>6, <3>2, <4>1
      <4> QED
        BY <4>1, <4>2
    <3>3. CASE a # i + 1
      <4>1. e[a] = c[a] /\ (a <= i + 1 <=> a <= i - 1 + 1)
        BY <2>6, <3>1, <3>3
      <4> QED
        BY <2>5, <4>1
    <3> QED
      BY <3>2, <3>3
  <2>9. jt[1..i] = e
    BY <1>0, <2>2, <2>3, <2>4
  <2> QED
    BY <2>5, <2>6, <2>7, <2>8, <2>9 DEF SweptSoFar
<1>8. jt[1..Sub] \in SweptSoFar(b, Sub)
  <2> DEFINE good == [i \in 0..Sub |-> SweptSoFar(b, i)]
  <2>1. jt[{}] \in good[0] /\ \A i \in 1..Sub : jt[1..(i - 1)] \in good[i - 1] => jt[1..i] \in good[i]
    <3>1. \A i \in 1..Sub : i \in 0..Sub /\ i - 1 \in 0..Sub
      BY <1>0
    <3>2. 0 \in 0..Sub
      BY <1>0
    <3> QED
      BY <1>6, <1>7, <3>1, <3>2
  <2>2. good[Sub] = SweptSoFar(b, Sub)
    BY <1>0
  <2> HIDE DEF good
  <2> QED
    BY <1>0, <2>1, <2>2, FoldKeeps
<1> HIDE DEF row
<1> QED
  BY <1>5, <1>8 DEF row

-----------------------------------------------------------------------------
(* Netting, and the interest handed out, from the balances alone.          *)
LEMMA NettingHelps ==
  ASSUME poolBalance \in PoolStates
  PROVE  NettingNeverCosts
<1> DEFINE over == [a \in PoolAccounts |-> Overdrawn(poolBalance[a])]
           kept == [a \in PoolAccounts |-> Overdrawn(poolBalance[a]) + poolBalance[a]]
<1>1. /\ DOMAIN poolBalance = PoolAccounts /\ IsFiniteSet(PoolAccounts)
      /\ \A a \in PoolAccounts : poolBalance[a] \in Int
      /\ PoolTotal(poolBalance) = IntegerSum(poolBalance) /\ PoolTotal(poolBalance) \in Int
  BY BalancesSum
<1>2. \A a \in PoolAccounts : /\ over[a] \in Nat /\ kept[a] \in Nat
                              /\ kept[a] = over[a] + poolBalance[a]
  BY <1>1 DEF Overdrawn
<1>3. DOMAIN over = PoolAccounts /\ DOMAIN kept = PoolAccounts
  OBVIOUS
<1>4. PoolTotal(over) = IntegerSum(over)
  BY DEF PoolTotal, IntegerSum
<1> HIDE DEF over, kept
<1>5. IntegerSum(over) \in Nat /\ IntegerSum(kept) \in Nat
  BY <1>1, <1>2, <1>3, SumOfNaturals
<1>6. IntegerSum(kept) = IntegerSum(over) + IntegerSum(poolBalance)
  <2>1. \A a \in DOMAIN over : over[a] \in Int /\ poolBalance[a] \in Int /\ kept[a] = over[a] + poolBalance[a]
    BY <1>1, <1>2, <1>3
  <2> QED
    BY <1>1, <1>3, <2>1, SumPlus
<1>7. NetBenefit = PoolTotal(over) - Overdrawn(PoolTotal(poolBalance))
  BY DEF NetBenefit, over
<1> QED
  BY <1>1, <1>4, <1>5, <1>6, <1>7 DEF NettingNeverCosts, Overdrawn

(* Rounding to the nearest misses by no more than half.                    *)
LEMMA ShareNear ==
  ASSUME NEW part \in Nat, NEW whole \in Nat \ {0}
  PROVE  /\ RoundedShare(part, whole) \in Nat
         /\ 2 * part - whole <= 2 * whole * RoundedShare(part, whole)
         /\ 2 * whole * RoundedShare(part, whole) <= 2 * part + whole
<1>1. \A m \in Nat, n \in Nat \ {0} :
        m \div n \in Nat /\ n * (m \div n) <= m /\ m < n * (m \div n) + n
  OBVIOUS
<1>2. 2 * part + whole \in Nat /\ 2 * whole \in Nat \ {0}
  OBVIOUS
<1>3. PICK q : q = RoundedShare(part, whole)
  OBVIOUS
<1>4. q \in Nat /\ 2 * whole * q <= 2 * part + whole /\ 2 * part + whole < 2 * whole * q + 2 * whole
  BY <1>1, <1>2, <1>3 DEF RoundedShare
<1>5. 2 * whole * q \in Int
  BY <1>4
<1> QED
  BY <1>3, <1>4, <1>5

(* So the allocations miss the total by half a unit each at most.          *)
LEMMA AllocationNear ==
  ASSUME poolBalance \in PoolStates
  PROVE  AllocationNearTotal
<1> DEFINE n == Sub + 1
           sizes == [a \in PoolAccounts |-> Absolute(poolBalance[a])]
           whole == PoolTotal(sizes)
           T == TotalInterest
<1>1. /\ DOMAIN poolBalance = PoolAccounts /\ IsFiniteSet(PoolAccounts)
      /\ \A a \in PoolAccounts : poolBalance[a] \in Int
  BY BalancesSum
<1>2. n \in Nat \ {0} /\ T \in Nat /\ Cardinality(PoolAccounts) = n
  <2>1. 1 \in Int /\ n \in Int /\ n >= 1 /\ T \in Nat /\ n \in Nat \ {0}
    BY PoolConstants
  <2>2. Cardinality(1..n) = n - 1 + 1
    <3> HIDE DEF n
    <3> QED
      BY <2>1, FS_Interval
  <2> QED
    BY <2>1, <2>2 DEF PoolAccounts
<1>3. \A a \in PoolAccounts : sizes[a] \in Nat
  BY <1>1 DEF Absolute
<1>4. DOMAIN sizes = PoolAccounts /\ whole = IntegerSum(sizes) /\ whole \in Nat
  <2>1. DOMAIN sizes = PoolAccounts /\ whole = IntegerSum(sizes)
    BY DEF PoolTotal, IntegerSum
  <2> HIDE DEF sizes
  <2> QED
    BY <2>1, <1>1, <1>3, SumOfNaturals
<1>5. PICK R : R = Allocation
  OBVIOUS
<1>6. /\ DOMAIN R = PoolAccounts /\ PoolTotal(Allocation) = IntegerSum(R)
      /\ \A a \in PoolAccounts : R[a] = IF whole = 0 THEN RoundedShare(T, n) ELSE RoundedShare(sizes[a] * T, whole)
  <2>1. PoolTotal(R) = IntegerSum(R)
    BY DEF PoolTotal, IntegerSum
  <2>2. R = [a \in PoolAccounts |-> IF whole = 0 THEN RoundedShare(T, n) ELSE RoundedShare(sizes[a] * T, whole)]
    BY <1>5 DEF Allocation
  <2> HIDE DEF whole, sizes, n, T
  <2> QED
    BY <1>5, <2>1, <2>2
<1> HIDE DEF n, sizes, whole, T
<1>7. CASE whole = 0
  <2>1. PICK q : q = RoundedShare(T, n)
    OBVIOUS
  <2>2. q \in Nat /\ 2 * T - n <= 2 * n * q /\ 2 * n * q <= 2 * T + n
    BY <1>2, <2>1, ShareNear
  <2>3. IntegerSum(R) = q * n
    <3>1. R = [a \in PoolAccounts |-> q]
      <4>1. R = [a \in PoolAccounts |-> R[a]]
        BY <1>5, <1>6 DEF Allocation
      <4> QED
        BY <4>1, <1>6, <1>7, <2>1
    <3>2. IntegerSum([a \in PoolAccounts |-> q]) = q * n
      <4>1. q \in Int /\ IsFiniteSet(PoolAccounts)
        BY <1>1, <2>2
      <4>2. IntegerSum([a \in PoolAccounts |-> q]) = q * Cardinality(PoolAccounts)
        BY <4>1, SumConstant
      <4> QED
        BY <1>2, <4>2
    <3> QED
      BY <3>1, <3>2
  <2>4. q * n \in Nat /\ 2 * n * q = 2 * (q * n)
    BY <1>2, <2>2
  <2>5. 2 * Absolute(q * n - T) <= n
    BY <1>2, <2>2, <2>4 DEF Absolute
  <2> QED
    BY <1>6, <2>3, <2>5 DEF AllocationNearTotal, n, T
<1>8. CASE whole # 0
  <2>1. whole \in Nat \ {0}
    BY <1>4, <1>8
  <2>2. ASSUME NEW a \in PoolAccounts
        PROVE  /\ R[a] \in Nat /\ 2 * whole * R[a] <= 2 * T * sizes[a] + whole
               /\ 2 * T * sizes[a] - whole <= 2 * whole * R[a]
    <3>1. sizes[a] * T \in Nat /\ 2 * (sizes[a] * T) = 2 * T * sizes[a]
      BY <1>2, <1>3
    <3>2. R[a] = RoundedShare(sizes[a] * T, whole)
      BY <1>6, <1>8
    <3> QED
      BY <2>1, <3>1, <3>2, ShareNear
  <2> DEFINE shares == [a \in PoolAccounts |-> 2 * whole * R[a]]
             exact == [a \in PoolAccounts |-> 2 * T * sizes[a]]
             one == [a \in PoolAccounts |-> whole]
             upper == [a \in PoolAccounts |-> exact[a] + one[a]]
             above == [a \in PoolAccounts |-> shares[a] + one[a]]
  <2>3. 2 * whole \in Int /\ 2 * T \in Int /\ whole \in Int
    BY <1>2, <2>1
  <2>4. \A a \in PoolAccounts : /\ shares[a] = 2 * whole * R[a] /\ exact[a] = 2 * T * sizes[a] /\ one[a] = whole
                                /\ upper[a] = exact[a] + one[a] /\ above[a] = shares[a] + one[a]
                                /\ shares[a] \in Int /\ exact[a] \in Int /\ one[a] \in Int
                                /\ upper[a] \in Int /\ above[a] \in Int /\ R[a] \in Int /\ sizes[a] \in Int
                                /\ shares[a] <= upper[a] /\ exact[a] <= above[a]
    <3>1. ASSUME NEW a \in PoolAccounts PROVE 2 * whole * R[a] \in Int /\ 2 * T * sizes[a] \in Int
      BY <1>3, <2>2, <2>3
    <3> QED
      BY <3>1, <1>3, <2>2, <2>3
  <2>5. DOMAIN shares = PoolAccounts /\ DOMAIN exact = PoolAccounts /\ DOMAIN one = PoolAccounts
        /\ DOMAIN upper = PoolAccounts /\ DOMAIN above = PoolAccounts
    OBVIOUS
  <2>6. IntegerSum(one) = whole * n
    BY <1>1, <1>2, <2>3, SumConstant
  <2> HIDE DEF shares, exact, one, upper, above
  <2>7. IntegerSum(shares) = 2 * whole * IntegerSum(R) /\ IntegerSum(R) \in Int
    BY <1>1, <1>6, <2>3, <2>4, <2>5, SumScaled, SumType
  <2>8. IntegerSum(exact) = 2 * T * whole
    BY <1>1, <1>4, <2>3, <2>4, <2>5, SumScaled
  <2>9. IntegerSum(upper) = IntegerSum(exact) + IntegerSum(one)
    BY <1>1, <2>4, <2>5, SumPlus
  <2>10. IntegerSum(above) = IntegerSum(shares) + IntegerSum(one)
    BY <1>1, <2>4, <2>5, SumPlus
  <2>11. IntegerSum(shares) <= IntegerSum(upper)
    BY <1>1, <2>4, <2>5, SumMonotone
  <2>12. IntegerSum(exact) <= IntegerSum(above)
    BY <1>1, <2>4, <2>5, SumMonotone
  <2>13. PICK r \in Int : r = IntegerSum(R)
    BY <2>7
  <2>14. whole * (2 * (r - T) - n) <= 0 /\ 0 <= whole * (2 * (r - T) + n)
    <3>1. 2 * whole * r <= 2 * T * whole + whole * n /\ 2 * T * whole <= 2 * whole * r + whole * n
      BY <2>6, <2>7, <2>8, <2>9, <2>10, <2>11, <2>12, <2>13
    <3>2. \A w, x, t, k \in Int : /\ w * (2 * (x - t) - k) = 2 * w * x - 2 * t * w - w * k
                                  /\ w * (2 * (x - t) + k) = 2 * w * x - 2 * t * w + w * k
                                  /\ 2 * w * x \in Int /\ 2 * t * w \in Int /\ w * k \in Int
      OBVIOUS
    <3>3. whole \in Int /\ n \in Int /\ T \in Int
      BY <1>2, <2>1
    <3> HIDE DEF T
    <3> QED
      BY <3>1, <3>2, <3>3
  <2>15. \A w \in Nat \ {0}, x \in Int : (w * x <= 0 => x <= 0) /\ (0 <= w * x => 0 <= x)
    OBVIOUS
  <2>16. 2 * (r - T) - n <= 0 /\ 0 <= 2 * (r - T) + n
    <3>1. 2 * (r - T) - n \in Int /\ 2 * (r - T) + n \in Int
      BY <1>2
    <3> QED
      BY <2>1, <2>14, <2>15, <3>1
  <2>17. 2 * Absolute(r - T) <= n
    BY <1>2, <2>16 DEF Absolute
  <2> QED
    BY <1>6, <2>13, <2>17 DEF AllocationNearTotal, n, T
<1> QED
  BY <1>7, <1>8

(* CashPoolingService: a sweep conserves the pool's money and levels each  *)
(* account as far as the header can, netting never costs, and the interest *)
(* allocated misses the total by rounding only.                            *)
THEOREM PoolsKeepMoney == PoolSpec => [](PoolTypeOK /\ PoolSound)
<1> DEFINE Inv == PoolTypeOK /\ SweepConserves
<1>1. PoolInit => Inv
  BY DEF PoolInit, PoolTypeOK, SweepConserves
<1>2. Inv /\ [PoolNext]_poolVars => Inv'
  <2> SUFFICES ASSUME Inv, [PoolNext]_poolVars PROVE Inv'
    OBVIOUS
  <2>0. poolBalance \in PoolStates
    BY DEF PoolTypeOK, PoolStates
  <2>1. CASE UNCHANGED poolVars
    BY <2>1 DEF poolVars, PoolTypeOK, SweepConserves
  <2>2. ASSUME NEW a \in PoolAccounts, NEW m \in PoolBalances, UpdateAccountBalance(a, m) PROVE Inv'
    BY <2>2, PoolConstants DEF UpdateAccountBalance, PoolTypeOK, SweepConserves
  <2>3. CASE RunPhysicalSweep
    <3>1. poolBalance' \in SweptSoFar(poolBalance, Sub) /\ swept' = poolBalance
      BY <2>0, <2>3, SweepFolds DEF RunPhysicalSweep
    <3>2. \A a \in PoolAccounts : a <= Sub + 1
      BY PoolConstants DEF PoolAccounts
    <3> QED
      BY <2>0, <3>1, <3>2 DEF SweptSoFar, Levelled, PoolTypeOK, SweepConserves, PoolStates
  <2> QED
    BY <2>1, <2>2, <2>3 DEF PoolNext
<1>3. Inv => PoolTypeOK /\ PoolSound
  BY NettingHelps, AllocationNear DEF PoolTypeOK, PoolSound, PoolStates
<1> QED
  BY <1>1, <1>2, <1>3, PTL DEF PoolSpec

-----------------------------------------------------------------------------
(* The FX desk: a deal is worth, settled or marked, what Result says of    *)
(* its own quote, and quotes of one pair, spelling and tenor never cross.  *)

FxDeal ==
  [pair : Pairs, spelling : Spellings, tenor : Tenors \cup {Spot}, side : {"BUY", "SELL"},
   base : Nat \ {0}, rate : Int, status : {"CONFIRMED", "SETTLED", "CANCELLED"},
   unrealized : Int, realized : Int]

(* A deal at its quote, and what it has come to if it was marked.          *)
AtItsQuote(deal, d, marked) ==
  /\ deal \in FxDeal
  /\ deal.rate = Quote(deal.pair, deal.spelling, deal.tenor, deal.side)
  /\ IF deal.status = "SETTLED" THEN deal.unrealized = 0 ELSE deal.realized = 0
  /\ deal.realized + deal.unrealized =
       IF deal.status = "SETTLED" \/ d \in marked THEN Result(deal) ELSE 0

FxInv ==
  /\ marks \subseteq DOMAIN deals
  /\ \A d \in DOMAIN deals : AtItsQuote(deals[d], d, marks)

(* Rates and results are whole numbers.                                    *)
LEMMA CentsTyped == ASSUME NEW n \in Int PROVE Cents(n) \in Int
BY DEF Cents

(* A quote is a whole number of units,                                     *)
LEMMA QuoteTyped ==
  ASSUME NEW p \in Pairs, NEW s \in Spellings, NEW t \in Tenors \cup {Spot}, NEW side \in {"BUY", "SELL"}
  PROVE  Quote(p, s, t, side) \in Int
<1>1. Mid[p] \in Nat /\ Spread[p] \in Nat /\ PipUnits(p, s) \in Nat
  BY DeskConstants DEF PipUnits
<1>2. CASE t = Spot
  <2>1. Spread[p] \div 2 \in Int
    BY <1>1
  <2> QED
    BY <1>1, <1>2, <2>1 DEF Quote
<1>3. CASE t # Spot
  <2>1. Points[p][t].bid \in Int /\ Points[p][t].ask \in Int
    BY <1>3, DeskConstants
  <2>2. \A k \in Nat, n \in Int : k * n \in Int
    OBVIOUS
  <2>3. PipUnits(p, s) * Points[p][t].bid \in Int /\ PipUnits(p, s) * Points[p][t].ask \in Int
    BY <1>1, <2>1, <2>2
  <2> QED
    BY <1>1, <1>3, <2>3 DEF Quote
<1> QED
  BY <1>2, <1>3

(* and a deal comes to a whole number of cents.                            *)
LEMMA ResultTyped == ASSUME NEW deal \in FxDeal PROVE Result(deal) \in Int
<1>1. deal.rate \in Int /\ deal.base \in Int /\ Mid[deal.pair] \in Int
  BY DeskConstants DEF FxDeal
<1>2. (IF deal.side = "BUY" THEN Mid[deal.pair] - deal.rate ELSE deal.rate - Mid[deal.pair]) \in Int
  BY <1>1
<1>3. \A k, n \in Int : k * n \in Int
  OBVIOUS
<1> QED
  BY <1>1, <1>2, <1>3, CentsTyped DEF Result

(* Rounding is the same on both sides of zero, and never turns an order.   *)
LEMMA CentsBalance ==
  ASSUME NEW m \in Int, NEW n \in Int, m + n <= 0
  PROVE  Cents(m) + Cents(n) <= 0
<1>1. \A a, b \in Int : a <= b => (a + 500) \div 1000 <= (b + 500) \div 1000
  OBVIOUS
<1>2. \A a \in Nat : (a + 500) \div 1000 \in Nat
  OBVIOUS
<1>3. CASE m < 0 /\ n < 0
  <2>1. -m \in Nat /\ -n \in Nat /\ 500 - m = -m + 500 /\ 500 - n = -n + 500
    BY <1>3
  <2>2. (500 - m) \div 1000 \in Nat /\ (500 - n) \div 1000 \in Nat
    BY <1>2, <2>1
  <2> QED
    BY <1>3, <2>2 DEF Cents
<1>4. CASE m >= 0 /\ n < 0
  <2>1. m <= -n /\ -n \in Int /\ 500 - n = -n + 500 /\ m \in Nat /\ -n \in Nat
    BY <1>4
  <2>2. /\ (m + 500) \div 1000 <= (500 - n) \div 1000
        /\ (m + 500) \div 1000 \in Nat /\ (500 - n) \div 1000 \in Nat
    BY <1>1, <1>2, <2>1
  <2> QED
    BY <1>4, <2>2 DEF Cents
<1>5. CASE m < 0 /\ n >= 0
  <2>1. n <= -m /\ -m \in Int /\ 500 - m = -m + 500 /\ n \in Nat /\ -m \in Nat
    BY <1>5
  <2>2. /\ (n + 500) \div 1000 <= (500 - m) \div 1000
        /\ (n + 500) \div 1000 \in Nat /\ (500 - m) \div 1000 \in Nat
    BY <1>1, <1>2, <2>1
  <2> QED
    BY <1>5, <2>2 DEF Cents
<1>6. CASE m >= 0 /\ n >= 0
  <2>1. m = 0 /\ n = 0
    BY <1>6
  <2>2. Cents(0) = 0
    BY DEF Cents
  <2> QED
    BY <2>1, <2>2
<1> QED
  BY <1>3, <1>4, <1>5, <1>6

(* The desk buys at no more than it sells at.                              *)
LEMMA QuotesApart ==
  ASSUME NEW p \in Pairs, NEW s \in Spellings, NEW t \in Tenors \cup {Spot}
  PROVE  Quote(p, s, t, "SELL") <= Quote(p, s, t, "BUY")
<1>1. Mid[p] \in Nat /\ Spread[p] \in Nat /\ PipUnits(p, s) \in Nat
  BY DeskConstants DEF PipUnits
<1>2. CASE t = Spot
  <2>1. Spread[p] \div 2 \in Nat
    BY <1>1
  <2> QED
    BY <1>1, <1>2, <2>1 DEF Quote
<1>3. CASE t # Spot
  <2>1. Points[p][t].bid \in Int /\ Points[p][t].ask \in Int /\ Points[p][t].bid <= Points[p][t].ask
    BY <1>3, DeskConstants
  <2>2. \A k \in Nat : \A a, b \in Int : a <= b => k * a <= k * b /\ k * a \in Int /\ k * b \in Int
    OBVIOUS
  <2>3. /\ PipUnits(p, s) * Points[p][t].bid <= PipUnits(p, s) * Points[p][t].ask
        /\ PipUnits(p, s) * Points[p][t].bid \in Int /\ PipUnits(p, s) * Points[p][t].ask \in Int
    BY <1>1, <2>1, <2>2
  <2> QED
    BY <1>1, <1>3, <2>3 DEF Quote
<1> QED
  BY <1>2, <1>3

(* Deals at their quotes lose on a round trip, or break even.              *)
LEMMA RoundTrip ==
  ASSUME FxInv
  PROVE  RoundTripsCost
<1> SUFFICES ASSUME NEW d \in DOMAIN deals, NEW e \in DOMAIN deals,
                    deals[d].side = "BUY" /\ deals[e].side = "SELL",
                    \A field \in {"pair", "spelling", "tenor", "base"} : deals[d][field] = deals[e][field],
                    {d, e} \subseteq {f \in DOMAIN deals : deals[f].status = "SETTLED" \/ f \in marks}
             PROVE  Outcome(d) + Outcome(e) <= 0
  BY DEF RoundTripsCost
<1>1. PICK x \in FxDeal : x = deals[d]
  BY DEF FxInv, AtItsQuote
<1>2. PICK y \in FxDeal : y = deals[e]
  BY DEF FxInv, AtItsQuote
<1>3. Outcome(d) = Result(x) /\ Outcome(e) = Result(y)
  BY <1>1, <1>2 DEF FxInv, AtItsQuote, Outcome
<1>4. x.pair = y.pair /\ x.spelling = y.spelling /\ x.tenor = y.tenor /\ x.base = y.base
  <2>1. \A field \in {"pair", "spelling", "tenor", "base"} : x[field] = y[field]
    BY <1>1, <1>2
  <2> QED
    BY <2>1
<1>5. /\ x.side = "BUY" /\ y.side = "SELL"
      /\ x.rate = Quote(x.pair, x.spelling, x.tenor, "BUY")
      /\ y.rate = Quote(x.pair, x.spelling, x.tenor, "SELL")
  BY <1>1, <1>2, <1>4 DEF FxInv, AtItsQuote
<1>6. /\ x.pair \in Pairs /\ x.spelling \in Spellings /\ x.tenor \in Tenors \cup {Spot}
      /\ x.rate \in Int /\ y.rate \in Int /\ x.base \in Nat
  BY DEF FxDeal
<1>7. y.rate <= x.rate
  BY <1>5, <1>6, QuotesApart
<1>8. PICK m \in Int : m = Mid[x.pair]
  BY <1>6, DeskConstants
<1>9. \A a, b \in Int, k \in Nat : a + b <= 0 => a * k + b * k <= 0 /\ a * k \in Int /\ b * k \in Int
  <2>1. \A a, b \in Int, k \in Nat : a * k + b * k = (a + b) * k /\ a * k \in Int /\ b * k \in Int
    OBVIOUS
  <2>2. \A a \in Int, k \in Nat : a <= 0 => a * k <= 0
    OBVIOUS
  <2> QED
    BY <2>1, <2>2
<1>10. /\ (m - x.rate) * x.base + (y.rate - m) * x.base <= 0
       /\ (m - x.rate) * x.base \in Int /\ (y.rate - m) * x.base \in Int
  <2>1. m - x.rate \in Int /\ y.rate - m \in Int /\ (m - x.rate) + (y.rate - m) <= 0
    BY <1>6, <1>7
  <2> QED
    BY <1>6, <1>9, <2>1
<1>11. Result(x) = Cents((m - x.rate) * x.base) /\ Result(y) = Cents((y.rate - m) * x.base)
  BY <1>4, <1>5, <1>8 DEF Result
<1> QED
  BY <1>3, <1>10, <1>11, CentsBalance

(* What a call leaves a deal as keeps its quote and its outcome.           *)
LEMMA DealKept ==
  ASSUME NEW deal, NEW d, NEW marked, AtItsQuote(deal, d, marked)
  PROVE  /\ deal.status # "SETTLED" => AtItsQuote([deal EXCEPT !.status = "CANCELLED"], d, marked)
         /\ deal.status = "CONFIRMED" =>
              /\ AtItsQuote([deal EXCEPT !.status = "SETTLED", !.realized = Result(deal), !.unrealized = 0],
                            d, marked)
              /\ AtItsQuote([deal EXCEPT !.unrealized = Result(deal)], d, marked \cup {d})
<1>0. deal \in FxDeal /\ Result(deal) \in Int
  BY ResultTyped DEF AtItsQuote
<1>1. ASSUME deal.status # "SETTLED"
      PROVE  AtItsQuote([deal EXCEPT !.status = "CANCELLED"], d, marked)
  <2>1. PICK new : new = [deal EXCEPT !.status = "CANCELLED"]
    OBVIOUS
  <2>2. /\ new \in FxDeal /\ new.status = "CANCELLED" /\ new.pair = deal.pair /\ new.side = deal.side
        /\ new.spelling = deal.spelling /\ new.tenor = deal.tenor /\ new.base = deal.base
        /\ new.rate = deal.rate /\ new.unrealized = deal.unrealized /\ new.realized = deal.realized
    BY <1>0, <2>1 DEF FxDeal
  <2>3. Result(new) = Result(deal)
    BY <2>2 DEF Result
  <2>4. AtItsQuote(new, d, marked)
    BY <1>1, <2>2, <2>3 DEF AtItsQuote
  <2> QED
    BY <2>1, <2>4
<1>2. ASSUME deal.status = "CONFIRMED"
      PROVE  AtItsQuote([deal EXCEPT !.status = "SETTLED", !.realized = Result(deal), !.unrealized = 0],
                        d, marked)
  <2>1. PICK new : new = [deal EXCEPT !.status = "SETTLED", !.realized = Result(deal), !.unrealized = 0]
    OBVIOUS
  <2>2. /\ new \in FxDeal /\ new.status = "SETTLED" /\ new.pair = deal.pair /\ new.side = deal.side
        /\ new.spelling = deal.spelling /\ new.tenor = deal.tenor /\ new.base = deal.base
        /\ new.rate = deal.rate /\ new.unrealized = 0 /\ new.realized = Result(deal)
    <3>1. PICK mid : mid = [deal EXCEPT !.status = "SETTLED"]
      OBVIOUS
    <3>2. PICK out \in Int : out = Result(deal)
      BY <1>0
    <3>3. PICK next : next = [mid EXCEPT !.realized = out]
      OBVIOUS
    <3>4. new = [next EXCEPT !.unrealized = 0]
      BY <2>1, <3>1, <3>2, <3>3
    <3>5. /\ mid \in FxDeal /\ mid.status = "SETTLED" /\ mid.pair = deal.pair /\ mid.side = deal.side
          /\ mid.spelling = deal.spelling /\ mid.tenor = deal.tenor /\ mid.base = deal.base
          /\ mid.rate = deal.rate
      BY <1>0, <3>1 DEF FxDeal
    <3>6. /\ next \in FxDeal /\ next.status = "SETTLED" /\ next.pair = deal.pair /\ next.side = deal.side
          /\ next.spelling = deal.spelling /\ next.tenor = deal.tenor /\ next.base = deal.base
          /\ next.rate = deal.rate /\ next.realized = out
      BY <3>2, <3>3, <3>5 DEF FxDeal
    <3> QED
      BY <3>2, <3>4, <3>6 DEF FxDeal
  <2>3. Result(new) = Result(deal)
    BY <2>2 DEF Result
  <2>4. AtItsQuote(new, d, marked)
    BY <1>0, <1>2, <2>2, <2>3 DEF AtItsQuote
  <2> QED
    BY <2>1, <2>4
<1>3. ASSUME deal.status = "CONFIRMED"
      PROVE  AtItsQuote([deal EXCEPT !.unrealized = Result(deal)], d, marked \cup {d})
  <2>1. PICK new : new = [deal EXCEPT !.unrealized = Result(deal)]
    OBVIOUS
  <2>2. /\ new \in FxDeal /\ new.status = "CONFIRMED" /\ new.pair = deal.pair /\ new.side = deal.side
        /\ new.spelling = deal.spelling /\ new.tenor = deal.tenor /\ new.base = deal.base
        /\ new.rate = deal.rate /\ new.unrealized = Result(deal) /\ new.realized = deal.realized
    BY <1>0, <1>3, <2>1 DEF FxDeal
  <2>3. Result(new) = Result(deal)
    BY <2>2 DEF Result
  <2>4. AtItsQuote(new, d, marked \cup {d})
    BY <1>0, <1>3, <2>2, <2>3 DEF AtItsQuote
  <2> QED
    BY <2>1, <2>4
<1> QED
  BY <1>1, <1>2, <1>3

(* Every call keeps them.                                                  *)
LEMMA FxStep == FxInv /\ [FxNext]_fxVars => FxInv'
<1> SUFFICES ASSUME FxInv, [FxNext]_fxVars PROVE FxInv'
  OBVIOUS
<1>1. CASE UNCHANGED fxVars
  BY <1>1 DEF fxVars, FxInv, AtItsQuote
<1>2. ASSUME NEW d \in DOMAIN deals, NEW new, deals' = [deals EXCEPT ![d] = new],
             marks' \in {marks, marks \cup {d}}, AtItsQuote(new, d, marks')
      PROVE  FxInv'
  <2>1. /\ DOMAIN deals' = DOMAIN deals /\ deals'[d] = new
        /\ \A e \in DOMAIN deals : e # d => deals'[e] = deals[e] /\ (e \in marks' <=> e \in marks)
        /\ marks' \subseteq DOMAIN deals
    BY <1>2 DEF FxInv
  <2>2. ASSUME NEW e \in DOMAIN deals PROVE AtItsQuote(deals'[e], e, marks')
    <3>1. CASE e = d
      BY <1>2, <2>1, <3>1
    <3>2. CASE e # d
      <4>1. AtItsQuote(deals[e], e, marks)
        BY DEF FxInv
      <4> QED
        BY <2>1, <3>2, <4>1 DEF AtItsQuote
    <3> QED
      BY <3>1, <3>2
  <2> QED
    BY <2>1, <2>2 DEF FxInv
<1>3. ASSUME NEW d \in Deals, CancelDeal(d) PROVE FxInv'
  <2>1. PICK new : new = [deals[d] EXCEPT !.status = "CANCELLED"]
    OBVIOUS
  <2>2. d \in DOMAIN deals /\ deals' = [deals EXCEPT ![d] = new] /\ marks' = marks
    BY <1>3, <2>1 DEF CancelDeal
  <2>3. AtItsQuote(new, d, marks)
    BY <1>3, <2>1, DealKept DEF CancelDeal, FxInv
  <2> QED
    BY <1>2, <2>2, <2>3
<1>4. ASSUME NEW d \in Deals, SettleDeal(d) PROVE FxInv'
  <2>1. PICK new : new = [deals[d] EXCEPT !.status = "SETTLED", !.realized = Result(deals[d]), !.unrealized = 0]
    OBVIOUS
  <2>2. d \in DOMAIN deals /\ deals' = [deals EXCEPT ![d] = new] /\ marks' = marks
    <3>1. PICK old : old = deals[d]
      OBVIOUS
    <3>2. d \in DOMAIN deals /\ old \in FxDeal
      BY <1>4, <3>1 DEF SettleDeal, FxInv, AtItsQuote
    <3>3. PICK r : r = Result(deals[d])
      OBVIOUS
    <3> QED
      BY <1>4, <2>1, <3>1, <3>2, <3>3 DEF SettleDeal
  <2>3. AtItsQuote(new, d, marks)
    BY <1>4, <2>1, DealKept DEF SettleDeal, FxInv
  <2> QED
    BY <1>2, <2>2, <2>3
<1>5. ASSUME NEW d \in Deals, MarkToMarket(d) PROVE FxInv'
  <2>1. PICK new : new = [deals[d] EXCEPT !.unrealized = Result(deals[d])]
    OBVIOUS
  <2>2. d \in DOMAIN deals /\ deals' = [deals EXCEPT ![d] = new] /\ marks' = marks \cup {d}
    BY <1>5, <2>1 DEF MarkToMarket
  <2>3. AtItsQuote(new, d, marks \cup {d})
    BY <1>5, <2>1, DealKept DEF MarkToMarket, FxInv
  <2> QED
    BY <1>2, <2>2, <2>3
<1>6. ASSUME NEW d \in Deals, NEW p \in Pairs, NEW s \in Spellings, NEW t \in Tenors \cup {Spot},
             NEW side \in {"BUY", "SELL"}, NEW b \in BaseAmounts, Book(d, p, s, t, side, b)
      PROVE  FxInv'
  <2>1. PICK q \in Int : q = Quote(p, s, t, side)
    BY QuoteTyped
  <2>2. PICK new : new = [pair |-> p, spelling |-> s, tenor |-> t, side |-> side, base |-> b,
                          rate |-> q, status |-> "CONFIRMED", unrealized |-> 0, realized |-> 0]
    OBVIOUS
  <2>3. /\ new \in FxDeal /\ new.pair = p /\ new.spelling = s /\ new.tenor = t /\ new.side = side
        /\ new.rate = q /\ new.status = "CONFIRMED" /\ new.unrealized = 0 /\ new.realized = 0
    BY <2>2, DeskConstants DEF FxDeal
  <2>4. /\ d \notin DOMAIN deals /\ DOMAIN deals' = DOMAIN deals \cup {d} /\ deals'[d] = new
        /\ \A e \in DOMAIN deals : deals'[e] = deals[e]
        /\ marks' = marks /\ d \notin marks /\ marks \subseteq DOMAIN deals
    BY <1>6, <2>1, <2>2 DEF Book, FxInv
  <2>5. AtItsQuote(new, d, marks)
    BY <2>1, <2>3, <2>4 DEF AtItsQuote
  <2>6. ASSUME NEW e \in DOMAIN deals' PROVE AtItsQuote(deals'[e], e, marks')
    BY <2>4, <2>5 DEF FxInv
  <2> QED
    BY <2>4, <2>6 DEF FxInv
<1> QED
  BY <1>1, <1>3, <1>4, <1>5, <1>6 DEF FxNext, BookSpotDeal, BookForwardDeal

(* FxDeskService: no round trip at the desk's quotes makes money, whatever *)
(* is cancelled, settled, marked and rounded in between.                   *)
THEOREM NoFreeRoundTrip == FxSpec => [](FxTypeOK /\ RoundTripsCost)
<1>1. FxInit => FxInv
  BY DEF FxInit, FxInv
<1>2. FxInv /\ [FxNext]_fxVars => FxInv'
  BY FxStep
<1>3. FxInv => FxTypeOK /\ RoundTripsCost
  BY RoundTrip DEF FxInv, AtItsQuote, FxDeal, FxTypeOK
<1> QED
  BY <1>1, <1>2, <1>3, PTL DEF FxSpec

-----------------------------------------------------------------------------
(* Marking: what a call has read of a position is what the position still  *)
(* is, as long as no fill has overtaken the call.                          *)

Lot == [qty : Int, avgCost : Nat, costBasis : Nat, realized : Int]

(* Products of whole numbers are whole.                                    *)
LEMMA WholeProducts ==
  /\ \A m, n \in Nat : m * n \in Nat
  /\ \A m, n \in Int : m * n \in Int
OBVIOUS

(* toFixed keeps a natural number natural.                                 *)
LEMMA WholeRounded ==
  ASSUME NEW n \in Nat, NEW d \in Nat, d > 0
  PROVE  Lots!Rounded(n, d) \in Nat
<1>1. (2 * n + d) \in Nat /\ (2 * d) \in Nat /\ 2 * d > 0
  OBVIOUS
<1>2. \A k, e \in Nat : e > 0 => k \div e \in Nat
  OBVIOUS
<1> QED
  BY <1>1, <1>2 DEF Lots!Rounded

(* A trade turns a well-typed position into a well-typed position: average *)
(* costs and cost bases are never negative, on either side of zero.        *)
LEMMA LotTraded ==
  ASSUME NEW pos \in Lot \cup {NoRow},
         NEW trade \in [side : STRING, qty : Nat, price : Nat], trade.qty > 0
  PROVE  Lots!ApplyTrade(pos, trade) \in Lot
<1> USE DEF Lot
<1>1. trade.qty \in Nat /\ trade.price \in Nat
  OBVIOUS
<1>2. CASE pos = NoRow
  <2>1. trade.qty * trade.price \in Nat
    BY <1>1, WholeProducts
  <2> QED
    BY <1>1, <1>2, <2>1 DEF Lots!ApplyTrade, Lots!Opened
<1>3. CASE pos # NoRow
  <2>1. /\ pos \in Lot /\ pos.qty \in Int /\ pos.avgCost \in Nat
        /\ pos.costBasis \in Nat /\ pos.realized \in Int
    BY <1>3
  <2>2. \A n \in Int : Lots!Magnitude(n) \in Nat
    BY DEF Lots!Magnitude
  <2>3. \A m, n \in Int : Lots!Smaller(m, n) \in Int
    BY DEF Lots!Smaller
  <2>4. Lots!Sold(pos, trade) \in Lot
    <3> DEFINE qty == pos.qty - trade.qty
               sold == Lots!Smaller(trade.qty, Lots!Magnitude(pos.qty))
               avg == IF qty = 0 THEN 0 ELSE pos.avgCost
    <3>1. qty \in Int /\ sold \in Int /\ avg \in Nat /\ Lots!Magnitude(qty) \in Nat
      <4>1. qty \in Int /\ avg \in Nat
        BY <1>1, <2>1
      <4>2. Lots!Magnitude(pos.qty) \in Int
        BY <2>1, <2>2
      <4>3. sold \in Int
        BY <1>1, <2>3, <4>2
      <4>4. Lots!Magnitude(qty) \in Nat
        BY <2>2, <4>1
      <4> QED
        BY <4>1, <4>3, <4>4
    <3>2. Lots!Magnitude(qty) * avg \in Nat /\ sold * (trade.price - pos.avgCost) \in Int
      <4>1. trade.price - pos.avgCost \in Int
        BY <1>1, <2>1
      <4> HIDE DEF qty, sold, avg
      <4> QED
        BY <3>1, <4>1, WholeProducts
    <3> HIDE DEF qty, sold, avg
    <3>3. [qty |-> qty, avgCost |-> avg, costBasis |-> Lots!Magnitude(qty) * avg,
           realized |-> pos.realized + sold * (trade.price - pos.avgCost)] \in Lot
      BY <2>1, <3>1, <3>2
    <3> QED
      BY <3>3 DEF Lots!Sold, qty, sold, avg
  <2>5. CASE pos.qty >= 0 /\ Lots!IsBuy(trade)
    <3> DEFINE cost == pos.qty * pos.avgCost + trade.qty * trade.price
    <3>1. cost \in Nat
      <4>1. pos.qty * pos.avgCost \in Nat /\ trade.qty * trade.price \in Nat
        BY <1>1, <2>1, <2>5, WholeProducts
      <4> QED
        BY <4>1
    <3>2. pos.qty + trade.qty \in Nat /\ pos.qty + trade.qty > 0
      BY <1>1, <2>1, <2>5
    <3>3. Lots!Rounded(cost, pos.qty + trade.qty) \in Nat
      BY <3>1, <3>2, WholeRounded
    <3> HIDE DEF cost
    <3>4. [qty |-> pos.qty + trade.qty, avgCost |-> Lots!Rounded(cost, pos.qty + trade.qty),
           costBasis |-> cost, realized |-> pos.realized] \in Lot
      BY <2>1, <3>1, <3>2, <3>3
    <3> QED
      BY <1>3, <2>5, <3>4 DEF Lots!ApplyTrade, Lots!AddedToLong, cost
  <2>6. CASE pos.qty < 0 /\ Lots!IsBuy(trade)
    <3> DEFINE qty == pos.qty + trade.qty
               covered == Lots!Smaller(trade.qty, -pos.qty)
               avg == IF trade.qty > -pos.qty THEN trade.price ELSE pos.avgCost
    <3>1. qty \in Int /\ covered \in Int /\ avg \in Nat /\ Lots!Magnitude(qty) \in Nat
      <4>1. qty \in Int /\ avg \in Nat /\ -pos.qty \in Int
        BY <1>1, <2>1
      <4>2. covered \in Int
        BY <1>1, <4>1 DEF Lots!Smaller
      <4>3. Lots!Magnitude(qty) \in Nat
        BY <2>2, <4>1
      <4> QED
        BY <4>1, <4>2, <4>3
    <3>2. Lots!Magnitude(qty) * avg \in Nat /\ covered * (pos.avgCost - trade.price) \in Int
      <4>1. pos.avgCost - trade.price \in Int
        BY <1>1, <2>1
      <4> HIDE DEF qty, covered, avg
      <4> QED
        BY <3>1, <4>1, WholeProducts
    <3> HIDE DEF qty, covered, avg
    <3>3. [qty |-> qty, avgCost |-> avg, costBasis |-> Lots!Magnitude(qty) * avg,
           realized |-> pos.realized + covered * (pos.avgCost - trade.price)] \in Lot
      BY <2>1, <3>1, <3>2
    <3>4. Lots!CoveredShort(pos, trade) \in Lot
      BY <3>3 DEF Lots!CoveredShort, qty, covered, avg
    <3> QED
      BY <1>3, <2>1, <2>6, <3>4 DEF Lots!ApplyTrade
  <2> QED
    BY <1>3, <2>1, <2>4, <2>5, <2>6 DEF Lots!ApplyTrade
<1> QED
  BY <1>2, <1>3

-----------------------------------------------------------------------------
Row == [cost : Lot \cup {NoRow}, value : Int, unrealized : Int, total : Int, day : Int, mark : Nat]
MarkCall ==
  [left : SUBSET Instruments, on : Instruments \cup {"none"}, price : Nat,
   rows : {<<>>} \cup [Instruments -> Row], fills : {<<>>} \cup [Instruments -> Nat]]
Traced == [fills : Nat, day : Int, mark : Nat]

(* The day's result of a row, from its result and mark at the last fill.   *)
OnceCounted(row, last) == row.day = last.day + Lots!Magnitude(row.cost.qty) * (row.mark - last.mark)

(* What a call has read of a position it has yet to write: without a fill  *)
(* since, the quantity and cost it has, and a day's result that counts     *)
(* once if the row's own does.                                             *)
Abreast(call, i) ==
  /\ call.rows \in [Instruments -> Row] /\ call.fills \in [Instruments -> Nat]
  /\ call.rows[i].cost \in Lot /\ call.fills[i] <= since[i].fills
  /\ call.fills[i] = since[i].fills =>
       /\ call.rows[i].cost = held[i].cost
       /\ i \notin stale.day => OnceCounted(call.rows[i], since[i])

MarkInv ==
  /\ lastPrice \in [Instruments -> LastPrices \cup {NoPrice}]
  /\ held \in [Instruments -> Row] /\ since \in [Instruments -> Traced]
  /\ marking \in [Markings -> MarkCall]
  /\ \A c \in Markings :
       /\ marking[c].left \subseteq Owned /\ marking[c].on \in marking[c].left \cup {"none"}
       /\ \A i \in marking[c].left : Abreast(marking[c], i)
  /\ FiguresAgree /\ DayCountsOnce

(* A lot is not the absence of one.                                        *)
LEMMA NoLot == NoRow \notin Lot
BY DEF NoRow, Lot

(* A magnitude is never negative.                                          *)
LEMMA WholeMagnitude == ASSUME NEW n \in Int PROVE Lots!Magnitude(n) \in Nat
BY DEF Lots!Magnitude

(* The figures of a lot at a price agree with it.                          *)
LEMMA FiguresOfLot ==
  ASSUME NEW cost \in Lot, NEW price \in Nat, NEW day \in Int, NEW row, row = Figures(cost, price, day)
  PROVE  /\ row \in Row /\ row.cost = cost /\ row.day = day /\ row.mark = price
         /\ row.value = Lots!Magnitude(row.cost.qty) * row.mark
         /\ row.total = row.cost.realized + row.unrealized
         /\ row.value = row.cost.costBasis + (IF row.cost.qty < 0 THEN -1 ELSE 1) * row.unrealized
<1>1. cost.qty \in Int /\ cost.costBasis \in Nat /\ cost.realized \in Int
  BY DEF Lot
<1>2. PICK v \in Int : v = Value(cost, price) /\ v = Lots!Magnitude(cost.qty) * price
  <2>1. Lots!Magnitude(cost.qty) \in Int
    BY <1>1, WholeMagnitude
  <2> QED
    BY <2>1, WholeProducts DEF Value
<1>3. PICK u \in Int : /\ u = Unrealized(cost, price)
                       /\ v = cost.costBasis + (IF cost.qty < 0 THEN -1 ELSE 1) * u
  BY <1>1, <1>2 DEF Unrealized
<1>4. row = [cost |-> cost, value |-> v, unrealized |-> u, total |-> cost.realized + u,
             day |-> day, mark |-> price]
  BY <1>2, <1>3 DEF Figures
<1>5. /\ row.cost = cost /\ row.value = v /\ row.unrealized = u /\ row.total = cost.realized + u
      /\ row.day = day /\ row.mark = price
  BY <1>4
<1>6. row \in Row
  BY <1>1, <1>4 DEF Row
<1> QED
  BY <1>1, <1>2, <1>3, <1>5, <1>6

(* Prices move: nothing of a position does.                                *)
LEMMA PriceStep ==
  ASSUME MarkInv, NEW i \in Instruments, NEW price \in LastPrices, UpdatePrice(i, price)
  PROVE  MarkInv'
<1>1. lastPrice' \in [Instruments -> LastPrices \cup {NoPrice}]
  BY DEF MarkInv, UpdatePrice
<1>2. UNCHANGED <<held, marking, since, stale>>
  BY DEF UpdatePrice
<1> QED
  BY <1>1, <1>2 DEF MarkInv, Owned, Abreast, OnceCounted, FiguresAgree, DayCountsOnce

(* A fill writes one row anew; calls that have read it know they are late. *)
LEMMA FillStep ==
  ASSUME MarkInv, NEW i \in Instruments, NEW trade \in FillReports, ApplyExecution(i, trade)
  PROVE  MarkInv'
<1>1. trade \in [side : STRING, qty : Nat, price : Nat] /\ trade.qty > 0 /\ trade.price \in Nat /\ trade.qty \in Nat
  BY MarkingConstants
<1>2. PICK row \in Row : row = held[i]
  BY DEF MarkInv
<1>3. PICK cost \in Lot : cost = Lots!ApplyTrade(row.cost, trade)
  <2>1. row.cost \in Lot \cup {NoRow}
    BY DEF Row
  <2> QED
    BY <1>1, <2>1, LotTraded
<1>4. PICK day \in Int :
        day = IF row.cost = NoRow \/ Lots!IsBuy(trade) THEN row.day
              ELSE row.day + trade.qty * (trade.price - row.cost.avgCost)
  <2>1. row.day \in Int /\ (row.cost # NoRow => row.cost.avgCost \in Int)
    BY DEF Row, Lot
  <2>2. row.cost # NoRow => trade.qty * (trade.price - row.cost.avgCost) \in Int
    BY <1>1, <2>1, WholeProducts
  <2> QED
    BY <2>1, <2>2
<1>5. PICK new : new = Figures(cost, trade.price, day)
  OBVIOUS
<1>6. /\ held' = [held EXCEPT ![i] = new]
      /\ since' = [since EXCEPT ![i] = [fills |-> @.fills + 1, day |-> day, mark |-> trade.price]]
      /\ stale' = [figures |-> stale.figures \ {i}, day |-> stale.day \ {i}]
      /\ UNCHANGED <<lastPrice, marking>>
  BY <1>2, <1>3, <1>4, <1>5 DEF ApplyExecution
<1>7. /\ new \in Row /\ new.cost = cost /\ new.day = day /\ new.mark = trade.price
      /\ new.value = Lots!Magnitude(new.cost.qty) * new.mark
      /\ new.total = new.cost.realized + new.unrealized
      /\ new.value = new.cost.costBasis + (IF new.cost.qty < 0 THEN -1 ELSE 1) * new.unrealized
  BY <1>1, <1>5, FiguresOfLot
<1>8. PICK last : last = [fills |-> since[i].fills + 1, day |-> day, mark |-> trade.price]
  OBVIOUS
<1>9. /\ last \in Traced /\ last.fills = since[i].fills + 1 /\ since[i].fills \in Nat
      /\ last.day = day /\ last.mark = trade.price
  <2>1. since[i].fills \in Nat
    BY DEF MarkInv, Traced
  <2> QED
    BY <1>1, <1>8, <2>1 DEF Traced
<1>10. since' = [since EXCEPT ![i] = last]
  BY <1>6, <1>8
<1>11. /\ held' \in [Instruments -> Row] /\ since' \in [Instruments -> Traced]
       /\ held'[i] = new /\ since'[i] = last
       /\ \A j \in Instruments : j # i => held'[j] = held[j] /\ since'[j] = since[j]
  BY <1>6, <1>7, <1>9, <1>10 DEF MarkInv
<1>12. Owned \subseteq Owned' /\ Owned' \subseteq Owned \cup {i}
  BY <1>7, <1>11, NoLot DEF Owned
<1>13. /\ stale'.figures = stale.figures \ {i} /\ stale'.day = stale.day \ {i}
       /\ marking' = marking /\ lastPrice' = lastPrice
  BY <1>6
<1>14. ASSUME NEW c \in Markings, NEW j \in marking[c].left PROVE Abreast(marking[c], j)'
  <2>1. Abreast(marking[c], j) /\ j \in Instruments
    BY DEF MarkInv, Owned
  <2>2. CASE j = i
    <3>1. marking[c].fills[j] \in Nat /\ marking[c].fills[j] < since'[j].fills
      BY <1>9, <1>11, <2>1, <2>2 DEF Abreast
    <3>2. marking[c].fills[j] # since'[j].fills /\ marking[c].fills[j] <= since'[j].fills
      BY <1>9, <1>11, <2>2, <3>1
    <3> QED
      BY <1>13, <2>1, <3>2 DEF Abreast
  <2>3. CASE j # i
    BY <1>11, <1>13, <2>1, <2>3 DEF Abreast, OnceCounted
  <2> QED
    BY <2>2, <2>3
<1>15. FiguresAgree'
  <2>1. ASSUME NEW j \in Owned' \ stale'.figures
        PROVE  /\ held'[j].value = Lots!Magnitude(held'[j].cost.qty) * held'[j].mark
               /\ held'[j].total = held'[j].cost.realized + held'[j].unrealized
               /\ held'[j].value = held'[j].cost.costBasis + (IF held'[j].cost.qty < 0 THEN -1 ELSE 1) * held'[j].unrealized
    <3>1. CASE j = i
      BY <1>7, <1>11, <3>1
    <3>2. CASE j # i
      BY <1>11, <1>12, <1>13, <3>2 DEF MarkInv, FiguresAgree, Owned
    <3> QED
      BY <3>1, <3>2
  <2> QED
    BY <2>1 DEF FiguresAgree
<1>16. DayCountsOnce'
  <2>1. ASSUME NEW j \in Owned' \ stale'.day
        PROVE  held'[j].day = since'[j].day + Lots!Magnitude(held'[j].cost.qty) * (held'[j].mark - since'[j].mark)
    <3>1. CASE j = i
      <4>1. Lots!Magnitude(new.cost.qty) \in Int
        BY <1>7, WholeMagnitude DEF Lot
      <4>2. \A k \in Int, p \in Nat : k * (p - p) = 0
        OBVIOUS
      <4>3. Lots!Magnitude(new.cost.qty) * (trade.price - trade.price) = 0
        BY <1>1, <4>1, <4>2
      <4> QED
        BY <1>7, <1>9, <1>11, <3>1, <4>3
    <3>2. CASE j # i
      BY <1>11, <1>12, <1>13, <3>2 DEF MarkInv, DayCountsOnce, Owned
    <3> QED
      BY <3>1, <3>2
  <2> QED
    BY <2>1 DEF DayCountsOnce
<1> QED
  BY <1>11, <1>12, <1>13, <1>14, <1>15, <1>16 DEF MarkInv

(* A call that starts has read every row as it is.                         *)
LEMMA ReadStep ==
  ASSUME MarkInv, NEW c \in Markings, ReadPositions(c)
  PROVE  MarkInv'
<1>1. PICK call : call = [left |-> Owned, on |-> "none", price |-> 0, rows |-> held,
                          fills |-> [i \in Instruments |-> since[i].fills]]
  OBVIOUS
<1>2. marking' = [marking EXCEPT ![c] = call] /\ UNCHANGED <<lastPrice, held, since, stale>>
  BY <1>1 DEF ReadPositions
<1>3. /\ call.left = Owned /\ call.on = "none" /\ call.rows = held
      /\ call.fills = [i \in Instruments |-> since[i].fills]
  BY <1>1
<1>4. \A i \in Instruments : since[i].fills \in Nat
  BY DEF MarkInv, Traced
<1>5. call \in MarkCall
  <2>1. Owned \in SUBSET Instruments /\ [i \in Instruments |-> since[i].fills] \in [Instruments -> Nat]
    BY <1>4 DEF Owned
  <2> QED
    BY <1>1, <2>1 DEF MarkCall, MarkInv
<1>6. ASSUME NEW i \in Owned PROVE Abreast(call, i)
  <2>1. i \in Instruments /\ held[i].cost # NoRow /\ held[i] \in Row
    BY DEF Owned, MarkInv
  <2>2. held[i].cost \in Lot
    BY <2>1 DEF Row
  <2>3. i \notin stale.day => OnceCounted(held[i], since[i])
    BY DEF MarkInv, DayCountsOnce, OnceCounted
  <2>4. call.fills \in [Instruments -> Nat] /\ call.fills[i] = since[i].fills
    BY <1>3, <1>4, <2>1
  <2> QED
    BY <1>3, <1>4, <2>1, <2>2, <2>3, <2>4 DEF Abreast, MarkInv
<1>7. /\ marking' \in [Markings -> MarkCall] /\ marking'[c] = call
      /\ \A d \in Markings : d # c => marking'[d] = marking[d]
  BY <1>2, <1>5 DEF MarkInv
<1>8. ASSUME NEW d \in Markings
      PROVE  /\ marking'[d].left \subseteq Owned /\ marking'[d].on \in marking'[d].left \cup {"none"}
             /\ \A i \in marking'[d].left : Abreast(marking'[d], i)
  BY <1>3, <1>6, <1>7 DEF MarkInv
<1> QED
  BY <1>2, <1>7, <1>8 DEF MarkInv, Owned, Abreast, FiguresAgree, DayCountsOnce

(* A call that is through with one position has what it read of the rest.  *)
LEMMA WithoutOne ==
  ASSUME MarkInv, NEW c \in Markings, NEW i \in marking[c].left, NEW call, call = Without(marking[c], i)
  PROVE  /\ call \in MarkCall /\ call.left \subseteq marking[c].left /\ call.on = "none"
         /\ \A j \in call.left : call.rows = marking[c].rows /\ call.fills = marking[c].fills
<1>1. PICK old \in MarkCall : old = marking[c]
  BY DEF MarkInv
<1>2. CASE old.left = {i}
  <2>1. call = Resting
    BY <1>1, <1>2 DEF Without
  <2>2. Resting \in MarkCall /\ Resting.left = {} /\ Resting.on = "none"
    BY DEF Resting, MarkCall
  <2> QED
    BY <2>1, <2>2
<1>3. CASE old.left # {i}
  <2>1. PICK rest : rest = [old EXCEPT !.left = old.left \ {i}]
    OBVIOUS
  <2>2. /\ rest \in MarkCall /\ rest.left = old.left \ {i} /\ rest.rows = old.rows /\ rest.fills = old.fills
    BY <2>1 DEF MarkCall
  <2>3. PICK idle : idle = [rest EXCEPT !.on = "none"]
    OBVIOUS
  <2>4. /\ idle \in MarkCall /\ idle.left = old.left \ {i} /\ idle.on = "none"
        /\ idle.rows = old.rows /\ idle.fills = old.fills
    BY <2>2, <2>3 DEF MarkCall
  <2>5. call = [idle EXCEPT !.price = 0]
    BY <1>1, <1>3, <2>1, <2>3 DEF Without
  <2>6. /\ call \in MarkCall /\ call.left = old.left \ {i} /\ call.on = "none"
        /\ call.rows = old.rows /\ call.fills = old.fills
    BY <2>4, <2>5 DEF MarkCall
  <2> QED
    BY <1>1, <2>6
<1> QED
  BY <1>2, <1>3

(* Looking a price up changes the call alone.                              *)
LEMMA FindStep ==
  ASSUME MarkInv, NEW c \in Markings, NEW i \in Instruments, FindInstrument(c, i)
  PROVE  MarkInv'
<1>1. i \in marking[c].left /\ UNCHANGED <<lastPrice, held, since, stale>>
  BY DEF FindInstrument
<1>2. PICK old \in MarkCall : old = marking[c]
  BY DEF MarkInv
<1>3. PICK call \in MarkCall :
        /\ marking' = [marking EXCEPT ![c] = call]
        /\ call.left \subseteq old.left /\ call.on \in call.left \cup {"none"}
        /\ \A j \in call.left : call.rows = old.rows /\ call.fills = old.fills
  <2>1. CASE lastPrice[i] = NoPrice
    <3>1. PICK call : call = Without(marking[c], i)
      OBVIOUS
    <3>2. marking' = [marking EXCEPT ![c] = call]
      BY <2>1, <3>1 DEF FindInstrument
    <3> QED
      BY <1>1, <1>2, <3>1, <3>2, WithoutOne
  <2>2. CASE lastPrice[i] # NoPrice
    <3>1. lastPrice[i] \in Nat
      BY <2>2, MarkingConstants DEF MarkInv
    <3>2. PICK mid : mid = [old EXCEPT !.on = i]
      OBVIOUS
    <3>3. mid \in MarkCall /\ mid.left = old.left /\ mid.on = i /\ mid.rows = old.rows /\ mid.fills = old.fills
      BY <3>2 DEF MarkCall
    <3>4. PICK call : call = [mid EXCEPT !.price = lastPrice[i]]
      OBVIOUS
    <3>5. call \in MarkCall /\ call.left = old.left /\ call.on = i /\ call.rows = old.rows /\ call.fills = old.fills
      BY <3>1, <3>3, <3>4 DEF MarkCall
    <3>6. marking' = [marking EXCEPT ![c] = call]
      BY <1>2, <2>2, <3>2, <3>4 DEF FindInstrument
    <3> QED
      BY <1>1, <1>2, <3>5, <3>6
  <2> QED
    BY <2>1, <2>2
<1>4. /\ marking' \in [Markings -> MarkCall] /\ marking'[c] = call
      /\ \A d \in Markings : d # c => marking'[d] = marking[d]
  BY <1>3 DEF MarkInv
<1>5. ASSUME NEW d \in Markings
      PROVE  /\ marking'[d].left \subseteq Owned /\ marking'[d].on \in marking'[d].left \cup {"none"}
             /\ \A j \in marking'[d].left : Abreast(marking'[d], j)
  <2>1. CASE d = c
    BY <1>2, <1>3, <1>4, <2>1 DEF MarkInv, Abreast
  <2>2. CASE d # c
    BY <1>4, <2>2 DEF MarkInv
  <2> QED
    BY <2>1, <2>2
<1> QED
  BY <1>1, <1>4, <1>5 DEF MarkInv, Owned, Abreast, FiguresAgree, DayCountsOnce

(* A mark writes the figures of what it read.                              *)
LEMMA WriteStep ==
  ASSUME MarkInv, NEW c \in Markings, WriteMark(c)
  PROVE  MarkInv'
<1>1. PICK old \in MarkCall : old = marking[c]
  BY DEF MarkInv
<1>2. PICK i \in Instruments : i = old.on /\ i \in old.left
  BY <1>1 DEF WriteMark, MarkInv, MarkCall
<1>3. Abreast(old, i) /\ i \in Owned
  BY <1>1, <1>2 DEF MarkInv
<1>4. PICK read \in Row : read = old.rows[i] /\ read.cost \in Lot
  BY <1>3 DEF Abreast
<1>5. /\ old.price \in Nat /\ read.cost.qty \in Int /\ read.day \in Int /\ read.mark \in Nat
      /\ Lots!Magnitude(read.cost.qty) \in Int
  <2>1. old.price \in Nat
    BY <1>1 DEF MarkCall
  <2>2. read.cost.qty \in Int /\ read.day \in Int /\ read.mark \in Nat
    BY <1>4 DEF Row, Lot
  <2> QED
    BY <2>1, <2>2, WholeMagnitude
<1>6. PICK day \in Int : day = read.day + Lots!Magnitude(read.cost.qty) * (old.price - read.mark)
  <2>1. Lots!Magnitude(read.cost.qty) * (old.price - read.mark) \in Int
    BY <1>5, WholeProducts
  <2> QED
    BY <1>5, <2>1
<1>7. PICK row : row = Figures(read.cost, old.price, day)
  OBVIOUS
<1>8. /\ row \in Row /\ row.cost = read.cost /\ row.day = day /\ row.mark = old.price
      /\ row.value = Lots!Magnitude(row.cost.qty) * row.mark
      /\ row.total = row.cost.realized + row.unrealized
      /\ row.value = row.cost.costBasis + (IF row.cost.qty < 0 THEN -1 ELSE 1) * row.unrealized
  BY <1>4, <1>5, <1>7, FiguresOfLot
<1>9. PICK new : new = [row EXCEPT !.cost = held[i].cost]
  OBVIOUS
<1>10. /\ new \in Row /\ new.cost = held[i].cost /\ new.cost \in Lot
       /\ (read.cost = held[i].cost => new = row)
  <2>1. held[i].cost \in Lot
    BY <1>3 DEF MarkInv, Owned, Row
  <2> QED
    BY <1>8, <1>9, <2>1 DEF Row
<1>11. PICK call : call = Without(marking[c], i)
  OBVIOUS
<1>12. /\ call \in MarkCall /\ call.left \subseteq old.left /\ call.on = "none"
       /\ \A j \in call.left : call.rows = old.rows /\ call.fills = old.fills
  BY <1>1, <1>2, <1>11, WithoutOne
<1>13. /\ held' = [held EXCEPT ![i] = new] /\ marking' = [marking EXCEPT ![c] = call]
       /\ stale' = [figures |-> IF old.fills[i] # since[i].fills THEN stale.figures \cup {i} ELSE stale.figures \ {i},
                    day |-> IF old.fills[i] # since[i].fills THEN stale.day \cup {i} ELSE stale.day]
       /\ UNCHANGED <<lastPrice, since>>
  BY <1>1, <1>2, <1>4, <1>6, <1>7, <1>9, <1>11 DEF WriteMark
<1>14. /\ held' \in [Instruments -> Row] /\ held'[i] = new /\ held'[i].cost = held[i].cost
       /\ \A j \in Instruments : j # i => held'[j] = held[j]
       /\ marking' \in [Markings -> MarkCall] /\ marking'[c] = call
       /\ \A d \in Markings : d # c => marking'[d] = marking[d]
  BY <1>10, <1>12, <1>13 DEF MarkInv
<1>15. Owned' = Owned
  BY <1>14 DEF Owned
<1>16. /\ stale'.figures = IF old.fills[i] # since[i].fills THEN stale.figures \cup {i} ELSE stale.figures \ {i}
       /\ stale'.day = IF old.fills[i] # since[i].fills THEN stale.day \cup {i} ELSE stale.day
       /\ since' = since /\ lastPrice' = lastPrice
  BY <1>13
<1>17. \A j \in Instruments : held'[j].cost = held[j].cost
  BY <1>14
<1>18. \A j : j \notin stale'.day => j \notin stale.day
  BY <1>16
<1>19. ASSUME NEW d \in Markings
       PROVE  /\ marking'[d].left \subseteq Owned' /\ marking'[d].on \in marking'[d].left \cup {"none"}
              /\ \A j \in marking'[d].left : Abreast(marking[d], j)'
  <2>1. /\ marking'[d].left \subseteq marking[d].left /\ marking'[d].on \in marking'[d].left \cup {"none"}
        /\ \A j \in marking'[d].left :
             marking'[d].rows = marking[d].rows /\ marking'[d].fills = marking[d].fills
    BY <1>1, <1>12, <1>14 DEF MarkInv
  <2>2. ASSUME NEW j \in marking'[d].left PROVE Abreast(marking[d], j)'
    <3>1. Abreast(marking[d], j) /\ j \in Instruments
      BY <2>1 DEF MarkInv, Owned
    <3> QED
      BY <1>16, <1>17, <1>18, <2>1, <3>1 DEF Abreast, OnceCounted
  <2>3. marking[d].left \subseteq Owned
    BY DEF MarkInv
  <2> QED
    BY <1>15, <2>1, <2>2, <2>3
<1>20. ASSUME old.fills[i] = since[i].fills
       PROVE  new = row /\ (i \notin stale.day => OnceCounted(new, since[i]))
  <2>1. new = row
    BY <1>3, <1>4, <1>10, <1>20 DEF Abreast
  <2>2. ASSUME i \notin stale.day PROVE OnceCounted(row, since[i])
    <3>1. PICK k \in Int : k = Lots!Magnitude(read.cost.qty)
      BY <1>5
    <3>2. read.day = since[i].day + k * (read.mark - since[i].mark)
      BY <1>3, <1>4, <1>20, <2>2, <3>1 DEF Abreast, OnceCounted
    <3>3. since[i].day \in Int /\ since[i].mark \in Int
      BY DEF MarkInv, Traced
    <3>4. \A n, x, y, z \in Int : /\ n * (x - z) + n * (y - x) = n * (y - z)
                                  /\ n * (x - z) \in Int /\ n * (y - x) \in Int
      OBVIOUS
    <3>5. /\ k * (read.mark - since[i].mark) + k * (old.price - read.mark) = k * (old.price - since[i].mark)
          /\ k * (read.mark - since[i].mark) \in Int /\ k * (old.price - read.mark) \in Int
      BY <1>5, <3>1, <3>3, <3>4
    <3>6. day = since[i].day + k * (old.price - since[i].mark)
      BY <1>6, <3>1, <3>2, <3>3, <3>5
    <3> QED
      BY <1>8, <3>1, <3>6 DEF OnceCounted
  <2> QED
    BY <2>1, <2>2
<1>21. FiguresAgree'
  <2>1. ASSUME NEW j \in Owned' \ stale'.figures
        PROVE  /\ held'[j].value = Lots!Magnitude(held'[j].cost.qty) * held'[j].mark
               /\ held'[j].total = held'[j].cost.realized + held'[j].unrealized
               /\ held'[j].value = held'[j].cost.costBasis + (IF held'[j].cost.qty < 0 THEN -1 ELSE 1) * held'[j].unrealized
    <3>1. CASE j = i
      <4>1. new = row
        BY <1>16, <1>20, <3>1
      <4> QED
        BY <1>8, <1>14, <3>1, <4>1
    <3>2. CASE j # i
      BY <1>14, <1>15, <1>16, <3>2 DEF MarkInv, FiguresAgree, Owned
    <3> QED
      BY <3>1, <3>2
  <2> QED
    BY <2>1 DEF FiguresAgree
<1>22. DayCountsOnce'
  <2>1. ASSUME NEW j \in Owned' \ stale'.day
        PROVE  held'[j].day = since'[j].day + Lots!Magnitude(held'[j].cost.qty) * (held'[j].mark - since'[j].mark)
    <3>1. CASE j = i
      <4>1. OnceCounted(new, since[i])
        BY <1>16, <1>20, <3>1
      <4> QED
        BY <1>14, <1>16, <3>1, <4>1 DEF OnceCounted
    <3>2. CASE j # i
      BY <1>14, <1>15, <1>16, <3>2 DEF MarkInv, DayCountsOnce, Owned
    <3> QED
      BY <3>1, <3>2
  <2> QED
    BY <2>1 DEF DayCountsOnce
<1> QED
  BY <1>14, <1>16, <1>19, <1>21, <1>22 DEF MarkInv

(* PositionsService.markToMarket: whatever marks and fills overlap, the    *)
(* figures of a row agree with its quantity and cost, and the result of    *)
(* the day counts each price change once, unless a fill has overtaken the  *)
(* mark that wrote it.                                                     *)
THEOREM MarksAgree == MarkingSpec => [](MarkingTypeOK /\ MarksSound)
<1>1. MarkingInit => MarkInv
  <2> SUFFICES ASSUME MarkingInit PROVE MarkInv
    OBVIOUS
  <2>1. Unheld \in Row /\ Unheld.cost = NoRow
    BY DEF Unheld, Row
  <2>2. Resting \in MarkCall /\ Resting.left = {} /\ Resting.on = "none"
    BY DEF Resting, MarkCall
  <2>3. [fills |-> 0, day |-> 0, mark |-> 0] \in Traced
    BY DEF Traced
  <2>4. /\ held \in [Instruments -> Row] /\ since \in [Instruments -> Traced]
        /\ marking \in [Markings -> MarkCall] /\ Owned = {}
        /\ \A c \in Markings : marking[c].left = {} /\ marking[c].on = "none"
    BY <2>1, <2>2, <2>3 DEF MarkingInit, Owned
  <2>5. lastPrice \in [Instruments -> LastPrices \cup {NoPrice}]
    BY DEF MarkingInit
  <2> QED
    BY <2>4, <2>5 DEF MarkInv, FiguresAgree, DayCountsOnce
<1>2. MarkInv /\ [MarkingNext]_markingVars => MarkInv'
  <2> SUFFICES ASSUME MarkInv, [MarkingNext]_markingVars PROVE MarkInv'
    OBVIOUS
  <2>1. CASE UNCHANGED markingVars
    BY <2>1 DEF markingVars, MarkInv, Owned, Abreast, OnceCounted, FiguresAgree, DayCountsOnce
  <2> QED
    BY <2>1, PriceStep, FillStep, ReadStep, FindStep, WriteStep DEF MarkingNext
<1>3. MarkInv => MarkingTypeOK /\ MarksSound
  BY DEF MarkInv, MarkingTypeOK, MarksSound, Owned, Row, Lot
<1> QED
  BY <1>1, <1>2, <1>3, PTL DEF MarkingSpec

-----------------------------------------------------------------------------
(* The estates.                                                            *)

(* A case has passed the first stages, as many as it has passed, and who   *)
(* was paid has a claim.                                                   *)
EstateInv ==
  /\ EstateTypeOK
  /\ Len(passed) \in 1..6 /\ passed = [j \in 1..Len(passed) |-> Stages[j]]
  /\ stage = Stages[Len(passed)]
  /\ everPaid \subseteq DOMAIN claims
  /\ \A c \in DOMAIN claims : claims[c].dated <=> c \in everPaid

(* The stages of an estate.                                                *)
Phases == {Stages[i] : i \in 1..6}

(* The six stages are different.                                           *)
LEMMA StagesDiffer ==
  /\ Len(Stages) = 6 /\ Stages \in Seq(Phases) /\ DOMAIN Stages = 1..6
  /\ \A i, j \in 1..6 : Stages[i] = Stages[j] => i = j
<1>1. \A i \in 1..6 : i = 1 \/ i = 2 \/ i = 3 \/ i = 4 \/ i = 5 \/ i = 6
  OBVIOUS
<1>2. Len(Stages) = 6 /\ DOMAIN Stages = 1..6
  BY DEF Stages
<1>3. /\ Stages[1] = "OPEN" /\ Stages[2] = "PROBATE_IN_PROGRESS"
      /\ Stages[3] = "CREDITOR_NOTICE_PERIOD" /\ Stages[4] = "ASSETS_INVENTORIED"
      /\ Stages[5] = "DISTRIBUTION_IN_PROGRESS" /\ Stages[6] = "CLOSED"
  BY DEF Stages
<1>4. \A i \in 1..6 : Stages[i] \in Phases
  BY DEF Phases
<1>5. Stages = [i \in 1..6 |-> Stages[i]]
  BY <1>2 DEF Stages
<1>6. Stages \in Seq(Phases)
  BY <1>4, <1>5
<1> QED
  BY <1>1, <1>2, <1>3, <1>6

(* The first elements of a sequence.                                       *)
LEMMA PrefixIs ==
  ASSUME NEW S, NEW s \in Seq(S), NEW n \in Int, 1 <= n, n <= Len(s)
  PROVE  SubSeq(s, 1, n) = [j \in 1..n |-> s[j]]
OBVIOUS

(* Every step of an estate keeps its stages and its claims.                *)
LEMMA EstateStep == EstateInv /\ [EstateNext]_estateVars => EstateInv'
<1> SUFFICES ASSUME EstateInv, [EstateNext]_estateVars PROVE EstateInv'
  OBVIOUS
<1>1. CASE UNCHANGED estateVars
  BY <1>1 DEF estateVars, EstateInv, EstateTypeOK
<1>2. CASE AdvanceEstateStatus
  <2>1. PICK i \in 1..5 : /\ stage = Stages[i] /\ passed' = Append(passed, Stages[i + 1])
                          /\ stage' = Stages[i + 1] /\ UNCHANGED <<estate, claims, bequests, everPaid>>
    BY <1>2, StagesDiffer DEF AdvanceEstateStatus
  <2>2. Len(passed) = i
    <3>1. PICK n \in 1..6 : n = Len(passed)
      BY DEF EstateInv
    <3>2. stage = Stages[n] /\ n \in 1..6 /\ i \in 1..6
      BY <3>1 DEF EstateInv
    <3>3. i = n
      BY <2>1, <3>2, StagesDiffer
    <3> QED
      BY <3>1, <3>3
  <2>3. passed \in Seq(Phases) /\ Stages[i + 1] \in Phases
    <3>1. \A j \in 1..6 : Stages[j] \in Phases
      BY DEF Phases
    <3>2. passed = [j \in 1..i |-> Stages[j]]
      BY <2>2 DEF EstateInv
    <3>3. passed \in [1..i -> Phases] /\ i \in Nat
      BY <3>1, <3>2
    <3>4. i + 1 \in 1..6
      OBVIOUS
    <3> QED
      BY <3>1, <3>3, <3>4
  <2>4. /\ Len(passed') = i + 1 /\ DOMAIN passed' = 1..(i + 1)
        /\ passed'[i + 1] = Stages[i + 1] /\ \A j \in 1..i : passed'[j] = passed[j]
        /\ passed' \in Seq(Phases)
    BY <2>1, <2>2, <2>3
  <2>5. \A j \in 1..(i + 1) : passed'[j] = Stages[j]
    BY <2>2, <2>4 DEF EstateInv
  <2>6. passed' = [j \in 1..(i + 1) |-> passed'[j]]
    BY <2>4
  <2>7. passed' = [j \in 1..(i + 1) |-> Stages[j]]
    BY <2>5, <2>6
  <2> QED
    BY <2>1, <2>4, <2>7 DEF EstateInv, EstateTypeOK
<1>3. ASSUME NEW a \in EstateAssets, NEW d \in EstateValues, NEW v \in EstateValues,
             AddEstateAsset(a, d, v)
      PROVE  EstateInv'
  BY <1>3 DEF AddEstateAsset, EstateInv, EstateTypeOK, Filed
<1>4. ASSUME NEW c \in Claims, NEW v \in EstateValues, FileCreditorClaim(c, v) PROVE EstateInv'
  <2>1. /\ c \notin DOMAIN claims /\ DOMAIN claims' = DOMAIN claims \cup {c}
        /\ claims'[c] = [status |-> "FILED", amount |-> v, allowed |-> NotAllowed, dated |-> FALSE]
        /\ \A e \in DOMAIN claims : claims'[e] = claims[e]
        /\ UNCHANGED <<stage, estate, bequests, passed, everPaid>>
    BY <1>4 DEF FileCreditorClaim, Filed
  <2>2. claims'[c] \in [status : ClaimStatuses, amount : EstateValues,
                        allowed : EstateValues \cup {NotAllowed}, dated : BOOLEAN]
    BY <2>1 DEF ClaimStatuses
  <2>3. claims'[c].dated = FALSE
    BY <2>1
  <2> QED
    BY <2>1, <2>2, <2>3 DEF EstateInv, EstateTypeOK
<1>5. ASSUME NEW c \in Claims, NEW s \in ClaimStatuses, NEW v \in EstateValues \cup {NotAllowed},
             UpdateCreditorClaim(c, s, v)
      PROVE  EstateInv'
  <2> DEFINE Claim == [status : ClaimStatuses, amount : EstateValues,
                       allowed : EstateValues \cup {NotAllowed}, dated : BOOLEAN]
  <2>1. c \in DOMAIN claims /\ UNCHANGED <<stage, estate, bequests, passed>>
    BY <1>5 DEF UpdateCreditorClaim
  <2>2. PICK r \in Claim : r = claims[c]
    BY <2>1 DEF EstateInv, EstateTypeOK
  <2>3. PICK n : n = [status |-> s, amount |-> r.amount,
                      allowed |-> IF v = NotAllowed THEN r.allowed ELSE v,
                      dated |-> (r.dated \/ s = "PAID")]
    OBVIOUS
  <2>4. n \in Claim /\ n.dated = (r.dated \/ s = "PAID")
    BY <2>2, <2>3
  <2>5. claims' = [claims EXCEPT ![c].status = s,
                     ![c].allowed = IF v = NotAllowed THEN @ ELSE v,
                     ![c].dated = @ \/ s = "PAID"]
    BY <1>5 DEF UpdateCreditorClaim
  <2>6. claims' = [claims EXCEPT ![c] = n]
    <3>1. PICK one : one = [r EXCEPT !.status = s]
      OBVIOUS
    <3>2. one = [status |-> s, amount |-> r.amount, allowed |-> r.allowed, dated |-> r.dated]
      BY <2>2, <3>1
    <3>3. PICK two : two = [one EXCEPT !.allowed = IF v = NotAllowed THEN one.allowed ELSE v]
      OBVIOUS
    <3>4. two = [status |-> s, amount |-> r.amount,
                 allowed |-> IF v = NotAllowed THEN r.allowed ELSE v, dated |-> r.dated]
      BY <3>2, <3>3
    <3>5. [two EXCEPT !.dated = (two.dated \/ s = "PAID")] = n
      BY <2>3, <3>4
    <3>6. claims' = [claims EXCEPT ![c] = [two EXCEPT !.dated = (two.dated \/ s = "PAID")]]
      BY <2>1, <2>2, <2>5, <3>1, <3>3
    <3> QED
      BY <3>5, <3>6
  <2>7. /\ DOMAIN claims' = DOMAIN claims /\ claims'[c] = n
        /\ \A e \in DOMAIN claims : e # c => claims'[e] = claims[e]
    BY <2>1, <2>6
  <2>8. everPaid' = IF s = "PAID" THEN everPaid \cup {c} ELSE everPaid
    BY <1>5 DEF UpdateCreditorClaim
  <2>9. n.dated <=> c \in everPaid'
    BY <2>1, <2>2, <2>4, <2>8 DEF EstateInv
  <2>10. \A e \in DOMAIN claims' : claims'[e].dated <=> e \in everPaid'
    BY <2>7, <2>8, <2>9 DEF EstateInv
  <2>11. EstateTypeOK'
    BY <2>1, <2>4, <2>7 DEF EstateInv, EstateTypeOK
  <2> QED
    BY <2>1, <2>7, <2>8, <2>10, <2>11 DEF EstateInv
<1>6. ASSUME NEW b \in Bequests, NEW v \in EstateValues, RecordEstateDistribution(b, v)
      PROVE  EstateInv'
  BY <1>6 DEF RecordEstateDistribution, EstateInv, EstateTypeOK, Filed
<1> QED
  BY <1>1, <1>2, <1>3, <1>4, <1>5, <1>6 DEF EstateNext

(* An estate passes its stages one by one and in their order, and a claim  *)
(* has a date of payment once it was paid.                                 *)
THEOREM EstatesOrdered == EstateSpec => [](EstateTypeOK /\ EstateInOrder)
<1>1. EstateInit => EstateInv
  <2> SUFFICES ASSUME EstateInit PROVE EstateInv
    OBVIOUS
  <2>1. /\ stage = Stages[1] /\ passed = <<Stages[1]>> /\ DOMAIN claims = {} /\ DOMAIN estate = {}
        /\ DOMAIN bequests = {} /\ everPaid = {}
    BY DEF EstateInit
  <2>2. Len(passed) = 1 /\ passed = [j \in 1..1 |-> Stages[j]]
    BY <2>1
  <2> QED
    BY <2>1, <2>2 DEF EstateInv, EstateTypeOK
<1>2. EstateInv => EstateInOrder
  <2> SUFFICES ASSUME EstateInv PROVE EstateInOrder
    OBVIOUS
  <2>1. PICK n \in 1..6 : n = Len(passed)
    BY DEF EstateInv
  <2>2. passed = [j \in 1..n |-> Stages[j]] /\ stage = Stages[n]
    BY <2>1 DEF EstateInv
  <2>3. SubSeq(Stages, 1, n) = [j \in 1..n |-> Stages[j]]
    <3>1. Stages \in Seq(Phases) /\ n \in Int /\ 1 <= n /\ n <= Len(Stages)
      <4>1. n \in Int /\ 1 <= n /\ n <= 6
        BY <2>1
      <4>2. Stages \in Seq(Phases) /\ Len(Stages) = 6
        BY StagesDiffer, Zenon
      <4> QED
        BY <4>1, <4>2
    <3> QED
      BY <3>1, PrefixIs
  <2>4. passed[n] = Stages[n]
    <3>1. n \in 1..n
      BY <2>1
    <3> QED
      BY <2>2, <3>1
  <2> QED
    BY <2>1, <2>2, <2>3, <2>4 DEF EstateInOrder, EstateInv
<1>3. EstateInv => EstateTypeOK
  BY DEF EstateInv
<1> QED
  BY <1>1, <1>2, <1>3, EstateStep, PTL DEF EstateSpec

-----------------------------------------------------------------------------
(* The collateral: what the optimizer posts covers what was needed, or is  *)
(* everything eligible, and what is pledged stays where it was sent.       *)

(* The allocations an optimization can have made.                          *)
Allocations == [filled : Nat, used : SUBSET Assets]

(* What assets are worth as collateral, together.                          *)
BackingOf(s) == IntegerSum([a \in s |-> Eligible(a)])

(* What the optimizer has made of the assets of s.                         *)
PostedFrom(need, s, acc) ==
  /\ acc \in Allocations /\ acc.used \subseteq s
  /\ acc.filled = Lesser(need, BackingOf(s))
  /\ acc.filled < need => acc.used = s
  /\ \A a \in acc.used, b \in s \ acc.used : Haircut[b] <= Haircut[a]

(* What an asset counts for is a number of hundredths.                     *)
LEMMA EligibleTyped ==
  ASSUME CollateralTypeOK, NEW a \in Assets
  PROVE  Eligible(a) \in Nat /\ Haircut[a] \in Nat
<1>1. PICK h \in 0..200 : h = Haircut[a]
  BY CollateralConstants
<1>2. PICK v \in Nat : v = asset[a].value
  BY DEF CollateralTypeOK
<1>3. CASE h >= 100
  BY <1>1, <1>3 DEF Eligible, Ineligible
<1>4. CASE h < 100
  <2>1. PICK k \in Nat : k = 100 - h
    BY <1>1, <1>4
  <2>2. v * k \in Nat
    OBVIOUS
  <2> QED
    BY <1>1, <1>2, <1>4, <2>1, <2>2 DEF Eligible, Ineligible
<1> QED
  BY <1>1, <1>3, <1>4

(* The worth of a set without one of its assets.                           *)
LEMMA WorthWithout ==
  ASSUME CollateralTypeOK, NEW s \in SUBSET Assets, NEW a \in s
  PROVE  BackingOf(s) = Eligible(a) + BackingOf(s \ {a}) /\ BackingOf(s \ {a}) \in Nat
<1> DEFINE f == [x \in s |-> Eligible(x)]
           g == [x \in s \ {a} |-> Eligible(x)]
<1>1. /\ DOMAIN f = s /\ DOMAIN g = s \ {a} /\ IsFiniteSet(s) /\ IsFiniteSet(s \ {a})
      /\ \A x \in s : f[x] = Eligible(x) /\ f[x] \in Nat
      /\ \A x \in s \ {a} : g[x] = f[x] /\ g[x] \in Nat
  BY EligibleTyped, CollateralConstants, FS_Subset
<1>2. IntegerSum(g) \in Nat
  <2> HIDE DEF f, g
  <2> QED
    BY <1>1, SumOfNaturals
<1>3. IntegerSum(f) = f[a] + IntegerSum(g)
  <2>1. \A x \in DOMAIN f : f[x] \in Int
    BY <1>1
  <2> HIDE DEF f, g
  <2> QED
    BY <1>1, <2>1, SumWithout
<1> QED
  BY <1>1, <1>2, <1>3 DEF BackingOf

(* A finite set of assets has one that is posted last.                     *)
LEMMA LastExists ==
  ASSUME NEW s \in SUBSET Assets, s # {}
  PROVE  LastPosted(s) \in s /\ \A b \in s : Haircut[LastPosted(s)] <= Haircut[b]
<1>1. PICK h \in {Haircut[a] : a \in s} : \A k \in {Haircut[a] : a \in s} : h <= k
  <2>1. {Haircut[a] : a \in s} \in SUBSET Nat /\ {Haircut[a] : a \in s} # {}
    BY CollateralConstants
  <2> QED
    BY <2>1, LeastNatural
<1>2. \E a \in s : \A b \in s : Haircut[a] <= Haircut[b]
  BY <1>1
<1> QED
  BY <1>2 DEF LastPosted

(* One turn of the loop.                                                   *)
LEMMA PostKeeps ==
  ASSUME CollateralTypeOK, NEW need \in Nat, NEW s \in SUBSET Assets, NEW c \in s,
         \A b \in s : Haircut[c] <= Haircut[b],
         NEW acc, PostedFrom(need, s \ {c}, acc)
  PROVE  PostedFrom(need, s, Post(need, c, acc))
<1>1. PICK m \in Nat : m = acc.filled
  BY DEF PostedFrom, Allocations
<1>2. PICK e \in Nat : e = Eligible(c)
  BY EligibleTyped
<1>3. PICK w \in Nat : w = BackingOf(s \ {c}) /\ BackingOf(s) = e + w
  BY <1>2, WorthWithout
<1>4. m = Lesser(need, w)
  BY <1>1, <1>3 DEF PostedFrom
<1>5. CASE m >= need
  <2>1. Post(need, c, acc) = acc
    BY <1>1, <1>5 DEF Post
  <2>2. m = Lesser(need, e + w)
    BY <1>4, <1>5 DEF Lesser
  <2> QED
    BY <1>1, <1>3, <1>5, <2>1, <2>2 DEF PostedFrom
<1>6. CASE m < need
  <2>1. Post(need, c, acc) = [filled |-> m + Lesser(e, need - m), used |-> acc.used \cup {c}]
    BY <1>1, <1>2, <1>6 DEF Post
  <2>2. m = w /\ m + Lesser(e, need - m) = Lesser(need, e + w)
    BY <1>4, <1>6 DEF Lesser
  <2>3. m + Lesser(e, need - m) \in Nat
    BY <1>6 DEF Lesser
  <2>4. acc.used \cup {c} = s
    BY <1>1, <1>6 DEF PostedFrom
  <2> QED
    BY <1>3, <2>1, <2>2, <2>3, <2>4 DEF PostedFrom, Allocations
<1> QED
  BY <1>5, <1>6

(* The optimizer's loop is its turns, in the order of the haircuts.        *)
LEMMA OptimizerLoops ==
  ASSUME CollateralTypeOK, NEW need \in Nat
  PROVE  PostedFrom(need, Candidates, Optimized(need))
<1> DEFINE S == Candidates
           X == Allocations
           none == [filled |-> 0, used |-> {}]
           first == [s \in SUBSET S |-> LastPosted(s)]
           step == [p \in S \X X |-> Post(need, p[1], p[2])]
           Solves(it) == it = [s \in SUBSET S |-> IF s = {} THEN none
                                ELSE Post(need, LastPosted(s), it[s \ {LastPosted(s)}])]
<1>0. S \subseteq Assets /\ IsFiniteSet(S)
  BY CollateralConstants, FS_Subset DEF Candidates
<1>1. \A s \in SUBSET S : s # {} => first[s] = LastPosted(s) /\ LastPosted(s) \in s
  BY <1>0, LastExists
<1>2. StaysIn(S, X, first, step)
  <2>1. ASSUME NEW i \in S, NEW x \in X PROVE step[<<i, x>>] \in X
    <3>1. step[<<i, x>>] = Post(need, i, x)
      OBVIOUS
    <3>2. x.filled \in Nat /\ Eligible(i) \in Nat /\ x.used \in SUBSET Assets /\ i \in Assets
      BY <1>0, EligibleTyped DEF Allocations
    <3>3. ~(x.filled >= need) => x.filled + Lesser(Eligible(i), need - x.filled) \in Nat
      BY <3>2 DEF Lesser
    <3>4. Post(need, i, x) \in X
      BY <3>2, <3>3 DEF Post, Allocations
    <3> QED
      BY <3>1, <3>4
  <2> QED
    BY <1>1, <2>1 DEF StaysIn
<1>3. PICK it : FoldsTo(it, S, X, none, first, step)
  <2>1. none \in X
    BY DEF Allocations
  <2> HIDE DEF S, X, first, step, none
  <2> QED
    BY <1>0, <1>2, <2>1, FoldExists
<1>4. Solves(it)
  <2>1. ASSUME NEW s \in SUBSET S, s # {}
        PROVE  it[s] = Post(need, LastPosted(s), it[s \ {LastPosted(s)}])
    <3>1. first[s] = LastPosted(s) /\ LastPosted(s) \in S /\ s \ {LastPosted(s)} \in SUBSET S
      BY <1>1, <2>1
    <3>2. it[s \ {LastPosted(s)}] \in X
      BY <1>3, <3>1 DEF FoldsTo
    <3>3. step[<<LastPosted(s), it[s \ {LastPosted(s)}]>>]
            = Post(need, LastPosted(s), it[s \ {LastPosted(s)}])
      <4> HIDE DEF X, S
      <4> QED
        BY <3>1, <3>2
    <3> QED
      BY <1>3, <2>1, <3>1, <3>3 DEF FoldsTo
  <2>2. it[{}] = none
    BY <1>3 DEF FoldsTo
  <2>3. it = [s \in SUBSET S |-> it[s]]
    BY <1>3 DEF FoldsTo
  <2> HIDE DEF first, step, X, S, none
  <2> QED
    BY <2>1, <2>2, <2>3
<1>5. PICK jt : Solves(jt) /\ Optimized(need) = jt[S]
  <2> DEFINE jt == CHOOSE jt : Solves(jt)
  <2>1. Solves(jt)
    <3> HIDE DEF Solves
    <3> QED
      BY <1>4
  <2>2. Optimized(need) = jt[S]
    BY Zenon DEF Optimized, MapThenFoldSet
  <2> HIDE DEF jt, Solves
  <2> QED
    BY <2>1, <2>2
<1> DEFINE Bad == {s \in SUBSET S : ~PostedFrom(need, s, jt[s])}
<1>6. SUFFICES ASSUME Bad # {} PROVE FALSE
  BY <1>5
<1>7. Bad \subseteq FiniteSubsetsOf(Assets)
  BY <1>0, CollateralConstants, FS_Subset DEF FiniteSubsetsOf
<1>8. PICK s \in Bad : \A t \in Bad : t \subseteq s => t = s
  <2> HIDE DEF Bad
  <2> QED
    BY <1>6, <1>7, SmallestSubset
<1>9. CASE s = {}
  <2>1. jt[s] = none
    BY <1>5, <1>9
  <2>2. BackingOf({}) = 0
    <3>1. DOMAIN [a \in {} |-> Eligible(a)] = {}
      OBVIOUS
    <3> QED
      BY <3>1, SumEmpty DEF BackingOf
  <2>3. Lesser(need, 0) = 0
    BY DEF Lesser
  <2>4. PostedFrom(need, {}, none)
    BY <2>2, <2>3 DEF PostedFrom, Allocations
  <2> QED
    BY <1>9, <2>1, <2>4
<1>10. CASE s # {}
  <2>1. PICK c : c = LastPosted(s)
    OBVIOUS
  <2>2. c \in s /\ s \in SUBSET Assets /\ \A b \in s : Haircut[c] <= Haircut[b]
    BY <1>0, <1>10, <2>1, LastExists
  <2>3. PostedFrom(need, s \ {c}, jt[s \ {c}])
    BY <1>8, <2>2
  <2>4. jt[s] = Post(need, c, jt[s \ {c}])
    BY <1>5, <1>10, <2>1
  <2>5. PostedFrom(need, s, jt[s])
    BY <2>2, <2>3, <2>4, PostKeeps
  <2> QED
    BY <2>5
<1> QED
  BY <1>9, <1>10

(* What the candidates are worth is the sum the property speaks of.        *)
LEMMA CandidatesWorth ==
  ASSUME CollateralTypeOK
  PROVE  MapThenSumSet(Eligible, Candidates) = BackingOf(Candidates)
<1> DEFINE S == Candidates
           f == [a \in S |-> Eligible(a)]
           U(it) == it = [s \in SUBSET S |-> IF s = {} THEN 0
                            ELSE Eligible(Chosen(s)) + it[s \ {Chosen(s)}]]
           fold == CHOOSE it : U(it)
<1>1. MapThenSumSet(Eligible, S) = fold[S]
  BY Zenon DEF MapThenSumSet, MapThenFoldSet, Chosen
<1>2. ASSUME NEW it PROVE U(it) <=> Unfolds(it, f)
  <2>1. \A s \in SUBSET S : s # {} => Chosen(s) \in S
    BY DEF Chosen
  <2>2. \A s \in SUBSET S : s # {} => f[Chosen(s)] = Eligible(Chosen(s))
    <3> HIDE DEF S
    <3> QED
      BY <2>1
  <2>3. DOMAIN f = S
    OBVIOUS
  <2> HIDE DEF f, S
  <2> QED
    BY <2>2, <2>3 DEF Unfolds
<1>3. IsFiniteSet(S) /\ DOMAIN f = S
  BY CollateralConstants, FS_Subset DEF Candidates
<1> HIDE DEF f, S
<1>4. U(fold)
  <2>1. \E it : U(it)
    BY <1>2, <1>3, Recursion
  <2> HIDE DEF U
  <2> QED
    BY <2>1
<1>5. Unfolds(fold, f)
  BY <1>2, <1>4
<1> HIDE DEF fold
<1>6. fold[S] = IntegerSum(f)
  BY <1>3, <1>5, FoldEndsInSum
<1> QED
  BY <1>1, <1>6 DEF BackingOf, f, S

(* The optimizer fills the requirement or uses up what there is, and posts *)
(* the largest haircuts first.                                             *)
LEMMA OptimizerKeeps ==
  ASSUME CollateralTypeOK
  PROVE  OptimizerFills
<1> SUFFICES ASSUME NEW need \in Required
             PROVE  LET got == Optimized(need) IN
                    /\ got.filled = Lesser(need, MapThenSumSet(Eligible, Candidates))
                    /\ \A a \in got.used, b \in Candidates \ got.used : Haircut[b] <= Haircut[a]
  BY Zenon DEF OptimizerFills
<1>1. need \in Nat
  BY CollateralConstants
<1>2. PostedFrom(need, Candidates, Optimized(need))
  BY <1>1, OptimizerLoops
<1>3. MapThenSumSet(Eligible, Candidates) = BackingOf(Candidates)
  BY CandidatesWorth
<1> QED
  BY <1>2, <1>3 DEF PostedFrom

(* An asset on its way in is in no live pledge, cannot be pledged, and is  *)
(* on its way into one pledge only, while settlements come in time.        *)
OnTheirWay ==
  ~late => \A s \in Substitutions : substitution[s].status = "PENDING" =>
    /\ asset[substitution[s].in].status \in {"IN_TRANSIT", "SUBSTITUTION_PENDING"}
    /\ \A p \in Pledges : Live(p) => substitution[s].in \notin Listed(p)
    /\ \A t \in Substitutions \ {s} :
         substitution[t].status = "PENDING" => substitution[t].in # substitution[s].in

PledgeInv == CollateralTypeOK /\ LivePledgesDisjoint /\ PledgedIsBacked /\ OnTheirWay

(* What the type invariant says of one row.                                *)
LEMMA RowTyped ==
  ASSUME CollateralTypeOK
  PROVE  /\ \A a \in Assets : asset[a].status \in AssetStatuses /\ asset[a].value \in Nat
         /\ \A p \in Pledges : pledge[p].list \in [Assets -> Nat]
         /\ \A s \in Substitutions : substitution[s].status = "PENDING" =>
              /\ substitution[s].pledge \in Pledges
              /\ substitution[s].out \in Assets /\ substitution[s].in \in Assets
BY DEF CollateralTypeOK

(* Marking assets changes the status of those, and nothing else.           *)
LEMMA MarkedIs ==
  ASSUME CollateralTypeOK, NEW taken, NEW st \in AssetStatuses
  PROVE  /\ Marked(taken, st) \in [Assets -> [status : AssetStatuses, value : Nat]]
         /\ \A a \in Assets :
              Marked(taken, st)[a].status = IF a \in taken THEN st ELSE asset[a].status
<1>1. ASSUME NEW a \in Assets
      PROVE  /\ [asset[a] EXCEPT !.status = st] \in [status : AssetStatuses, value : Nat]
             /\ [asset[a] EXCEPT !.status = st].status = st
  BY DEF CollateralTypeOK
<1>2. asset \in [Assets -> [status : AssetStatuses, value : Nat]]
  BY DEF CollateralTypeOK
<1> QED
  BY <1>1, <1>2 DEF Marked

(* A new asset or price.                                                   *)
LEMMA AssetKeeps ==
  ASSUME PledgeInv, NEW a \in Assets, NEW v \in Prices[a],
         RegisterAsset(a, v) \/ UpdateAssetPrice(a, v)
  PROVE  PledgeInv'
<1>1. v \in Nat
  BY CollateralConstants
<1>2. /\ asset' \in [Assets -> [status : AssetStatuses, value : Nat]]
      /\ \A b \in Assets : \/ asset'[b].status = asset[b].status
                           \/ asset[b].status = "none" /\ asset'[b].status = "AVAILABLE"
  <2>1. asset \in [Assets -> [status : AssetStatuses, value : Nat]]
    BY DEF PledgeInv, CollateralTypeOK
  <2>2. CASE RegisterAsset(a, v)
    BY <1>1, <2>1, <2>2 DEF RegisterAsset, AssetStatuses
  <2>3. CASE UpdateAssetPrice(a, v)
    <3>1. [asset[a] EXCEPT !.value = v] \in [status : AssetStatuses, value : Nat]
      BY <1>1, <2>1
    <3>2. [asset[a] EXCEPT !.value = v].status = asset[a].status
      BY <2>1
    <3>3. asset' = [asset EXCEPT ![a] = [asset[a] EXCEPT !.value = v]]
      BY <2>3 DEF UpdateAssetPrice
    <3> QED
      BY <2>1, <3>1, <3>2, <3>3
  <2> QED
    BY <2>2, <2>3
<1>3. UNCHANGED <<pledge, substitution, late, abandoned>>
  BY DEF RegisterAsset, UpdateAssetPrice
<1>4. \A b \in Assets : asset'[b].status # asset[b].status =>
        asset[b].status = "none" /\ asset'[b].status = "AVAILABLE"
  BY <1>2
<1>5. CollateralTypeOK'
  BY <1>2, <1>3 DEF PledgeInv, CollateralTypeOK
<1>6. LivePledgesDisjoint'
  BY <1>3, <1>4 DEF PledgeInv, LivePledgesDisjoint, Live, Listed
<1>7. PledgedIsBacked'
  BY <1>3, <1>4 DEF PledgeInv, PledgedIsBacked, Live, Listed
<1>8. OnTheirWay'
  BY <1>3, <1>4, RowTyped DEF PledgeInv, OnTheirWay, Live, Listed
<1> QED
  BY <1>5, <1>6, <1>7, <1>8 DEF PledgeInv

(* A new pledge, or one that is refused half-way.                          *)
LEMMA CreateKeeps ==
  ASSUME PledgeInv, NEW p \in Pledges, NEW x \in Assets, NEW y \in Assets, CreatePledge(p, x, y)
  PROVE  PledgeInv'
<1>0. CollateralTypeOK /\ pledge[p].status = "none" /\ UNCHANGED <<substitution, late>>
  BY DEF PledgeInv, CreatePledge
<1>1. PICK taken \in SUBSET Assets :
        /\ asset' = Marked(taken, "PLEDGED")
        /\ \A a \in taken : asset[a].status = "AVAILABLE"
        /\ \/ /\ abandoned' = abandoned
              /\ pledge' = [pledge EXCEPT ![p] =
                   [status |-> "ACTIVE", list |-> [a \in Assets |-> IF a \in taken THEN 1 ELSE 0]]]
           \/ abandoned' = TRUE /\ pledge' = pledge
  <2>1. CASE asset[y].status = "AVAILABLE"
    BY <2>1 DEF CreatePledge
  <2>2. CASE asset[y].status # "AVAILABLE"
    BY <2>2 DEF CreatePledge
  <2> QED
    BY <2>1, <2>2
<1>2. /\ asset' \in [Assets -> [status : AssetStatuses, value : Nat]]
      /\ \A a \in Assets : asset'[a].status = IF a \in taken THEN "PLEDGED" ELSE asset[a].status
  BY <1>0, <1>1, MarkedIs DEF AssetStatuses
<1>3. /\ \A q \in Pledges : q # p => pledge'[q] = pledge[q]
      /\ \/ /\ pledge'[p].status = "ACTIVE" /\ abandoned' = abandoned
            /\ \A a \in Assets : pledge'[p].list[a] = IF a \in taken THEN 1 ELSE 0
         \/ pledge'[p] = pledge[p] /\ abandoned' = TRUE
  BY <1>0, <1>1 DEF CollateralTypeOK
<1>4. CollateralTypeOK'
  <2>1. pledge' \in [Pledges -> [status : {"none", "ACTIVE", "PARTIALLY_RELEASED", "FULLY_RELEASED"},
                             list : [Assets -> Nat]]]
    <3>1. [a \in Assets |-> IF a \in taken THEN 1 ELSE 0] \in [Assets -> Nat]
      OBVIOUS
    <3> QED
      BY <1>0, <1>1, <3>1 DEF CollateralTypeOK
  <2>2. abandoned' \in BOOLEAN
    BY <1>0, <1>1 DEF CollateralTypeOK
  <2> QED
    BY <1>0, <1>2, <2>1, <2>2 DEF CollateralTypeOK
<1>5. ~late => \A q \in Pledges : Live(q) => q # p /\ \A a \in Listed(q) : a \notin taken
  BY <1>0, <1>1 DEF PledgeInv, LivePledgesDisjoint, Live, Listed
<1>6. \A q \in Pledges : q # p => Live(q)' = Live(q) /\ Listed(q)' = Listed(q)
  BY <1>3 DEF Live, Listed
<1>7. Live(p)' => Listed(p)' = taken /\ abandoned' = abandoned /\ \A a \in taken : pledge'[p].list[a] = 1
  BY <1>0, <1>3 DEF Live, Listed
<1>8. ~Live(p)' => abandoned' = TRUE
  BY <1>3 DEF Live
<1>9. LivePledgesDisjoint'
  BY <1>0, <1>2, <1>3, <1>5, <1>6, <1>7 DEF PledgeInv, LivePledgesDisjoint, Listed
<1>10. PledgedIsBacked'
  BY <1>0, <1>2, <1>5, <1>6, <1>7, <1>8, <1>3 DEF PledgeInv, PledgedIsBacked
<1>11. OnTheirWay'
  BY <1>0, <1>1, <1>2, <1>6, <1>7, RowTyped DEF PledgeInv, OnTheirWay
<1> QED
  BY <1>4, <1>9, <1>10, <1>11 DEF PledgeInv

(* Assets given back: some of the assets of one live pledge become         *)
(* available and leave its list, or the pledge is over.                    *)
LEMMA GivenBackKeeps ==
  ASSUME PledgeInv, NEW p \in Pledges, Live(p), NEW back \in SUBSET Listed(p),
         asset' = Marked(back, "AVAILABLE"), UNCHANGED <<substitution, late, abandoned>>,
         CollateralTypeOK', \A q \in Pledges \ {p} : pledge'[q] = pledge[q],
         ~late /\ Live(p)' => /\ Listed(p)' = Listed(p) \ back
                              /\ \A a \in Listed(p)' : pledge'[p].list[a] = pledge[p].list[a],
         ~late /\ ~Live(p)' => back = Listed(p)
  PROVE  PledgeInv'
<1>1. \A a \in Assets : asset'[a].status = IF a \in back THEN "AVAILABLE" ELSE asset[a].status
  BY MarkedIs DEF PledgeInv, AssetStatuses
<1>2. \A q \in Pledges : q # p => Live(q)' = Live(q) /\ Listed(q)' = Listed(q)
  BY DEF Live, Listed
<1>3. ~late => \A q \in Pledges : Live(q) /\ q # p => \A a \in Listed(q) : a \notin back
  BY DEF PledgeInv, LivePledgesDisjoint
<1>4. \A q \in Pledges : Listed(q) \subseteq Assets /\ Listed(q)' \subseteq Assets
  BY DEF Listed
<1>5. LivePledgesDisjoint'
  <2> SUFFICES ASSUME ~late, NEW q \in Pledges, Live(q)', NEW a \in Listed(q)'
               PROVE  /\ pledge'[q].list[a] = 1
                      /\ asset'[a].status \in {"PLEDGED", "SUBSTITUTION_PENDING"}
                      /\ \A r \in Pledges \ {q} : Live(r)' => a \notin Listed(r)'
    BY DEF LivePledgesDisjoint
  <2>1. /\ Live(q) /\ a \in Listed(q) /\ a \notin back /\ pledge'[q].list[a] = pledge[q].list[a]
    BY <1>2, <1>3
  <2>2. \A r \in Pledges \ {q} : Live(r)' => Live(r) /\ (a \in Listed(r)' => a \in Listed(r))
    BY <1>2
  <2> QED
    BY <1>1, <1>4, <2>1, <2>2 DEF PledgeInv, LivePledgesDisjoint
<1>6. PledgedIsBacked'
  <2> SUFFICES ASSUME ~late, ~abandoned, NEW a \in Assets, asset'[a].status = "PLEDGED"
               PROVE  \E q \in Pledges : Live(q)' /\ a \in Listed(q)'
    BY DEF PledgedIsBacked
  <2>1. a \notin back /\ asset[a].status = "PLEDGED"
    BY <1>1
  <2>2. PICK q \in Pledges : Live(q) /\ a \in Listed(q)
    BY <2>1 DEF PledgeInv, PledgedIsBacked
  <2> QED
    BY <1>2, <2>1, <2>2
<1>7. OnTheirWay'
  <2> SUFFICES ASSUME ~late
               PROVE  OnTheirWay'
    BY DEF OnTheirWay
  <2>1. \A q \in Pledges : Live(q)' => Live(q) /\ Listed(q)' \subseteq Listed(q)
    BY <1>2
  <2>2. \A s \in Substitutions : substitution[s].status = "PENDING" =>
          substitution[s].in \in Assets /\ substitution[s].in \notin back
    BY RowTyped DEF PledgeInv, OnTheirWay
  <2> QED
    BY <1>1, <2>1, <2>2 DEF PledgeInv, OnTheirWay
<1> QED
  BY <1>5, <1>6, <1>7 DEF PledgeInv

(* A release of one asset, or of the whole pledge.                         *)
LEMMA ReleaseKeeps ==
  ASSUME PledgeInv, NEW p \in Pledges,
         ReleasePledge(p) \/ \E a \in Assets : ReleaseAsset(p, a)
  PROVE  PledgeInv'
<1> DEFINE PledgeKept == [status : {"none", "ACTIVE", "PARTIALLY_RELEASED", "FULLY_RELEASED"},
                          list : [Assets -> Nat]]
<1>0. /\ CollateralTypeOK /\ pledge \in [Pledges -> PledgeKept]
  BY DEF PledgeInv, CollateralTypeOK
<1>1. CASE ReleasePledge(p)
  <2>1. /\ Live(p) /\ asset' = Marked(Listed(p), "AVAILABLE")
        /\ UNCHANGED <<substitution, late, abandoned>>
        /\ pledge' = [pledge EXCEPT ![p] = [pledge[p] EXCEPT !.status = "FULLY_RELEASED"]]
    BY <1>1 DEF ReleasePledge
  <2>2. [pledge[p] EXCEPT !.status = "FULLY_RELEASED"] \in PledgeKept
        /\ [pledge[p] EXCEPT !.status = "FULLY_RELEASED"].status = "FULLY_RELEASED"
    BY <1>0
  <2>3. pledge' \in [Pledges -> PledgeKept] /\ ~Live(p)' /\ \A q \in Pledges \ {p} : pledge'[q] = pledge[q]
    BY <1>0, <2>1, <2>2 DEF Live
  <2>4. CollateralTypeOK'
    BY <1>0, <2>1, <2>3, MarkedIs DEF CollateralTypeOK, AssetStatuses
  <2> QED
    BY <2>1, <2>3, <2>4, GivenBackKeeps
<1>2. ASSUME NEW a \in Assets, ReleaseAsset(p, a) PROVE PledgeInv'
  <2>0. PICK n \in Nat : n = pledge[p].list[a] /\ n > 0
    BY <1>0, <1>2, RowTyped DEF ReleaseAsset, Listed
  <2>1. PICK left : left = [pledge[p].list EXCEPT ![a] = n - 1]
    OBVIOUS
  <2>2. PICK st : st = IF left = Nothing THEN "FULLY_RELEASED" ELSE "PARTIALLY_RELEASED"
    OBVIOUS
  <2>3. /\ Live(p) /\ a \in Listed(p) /\ asset' = Marked({a}, "AVAILABLE")
        /\ pledge' = [pledge EXCEPT ![p] = [status |-> st, list |-> left]]
        /\ UNCHANGED <<substitution, late, abandoned>>
    BY <1>2, <2>0, <2>1, <2>2 DEF ReleaseAsset
  <2>4. left \in [Assets -> Nat] /\ left[a] = n - 1 /\ \A b \in Assets \ {a} : left[b] = pledge[p].list[b]
    BY <1>0, <2>0, <2>1, RowTyped
  <2>5. [status |-> st, list |-> left] \in PledgeKept
    BY <2>2, <2>4
  <2>6. /\ pledge' \in [Pledges -> PledgeKept] /\ \A q \in Pledges \ {p} : pledge'[q] = pledge[q]
        /\ pledge'[p].list = left /\ pledge'[p].status = st
    BY <1>0, <2>3, <2>5
  <2>7. CollateralTypeOK'
    BY <1>0, <2>3, <2>6, MarkedIs DEF CollateralTypeOK, AssetStatuses
  <2>8. ~late => n = 1
    BY <2>0, <2>3 DEF PledgeInv, LivePledgesDisjoint
  <2>9. ~late => /\ Listed(p)' = Listed(p) \ {a}
                 /\ \A b \in Listed(p)' : pledge'[p].list[b] = pledge[p].list[b]
    BY <2>4, <2>6, <2>8 DEF Listed
  <2>10. ~late /\ ~Live(p)' => Listed(p) = {a}
    <3>1. ~Live(p)' => left = Nothing
      BY <2>2, <2>6 DEF Live
    <3>2. left = Nothing => \A b \in Assets \ {a} : pledge[p].list[b] = 0
      BY <2>4 DEF Nothing
    <3> QED
      BY <2>3, <3>1, <3>2 DEF Listed
  <2>11. {a} \in SUBSET Listed(p)
    BY <2>3
  <2> QED
    BY <2>3, <2>6, <2>7, <2>9, <2>10, <2>11, GivenBackKeeps
<1> QED
  BY <1>1, <1>2

(* A request takes one available asset and one other out of use.           *)
LEMMA RequestKeeps ==
  ASSUME PledgeInv, NEW s \in Substitutions, NEW p \in Pledges, NEW out \in Assets, NEW in \in Assets,
         RequestSubstitution(s, p, out, in)
  PROVE  PledgeInv'
<1> DEFINE row == [status |-> "PENDING", pledge |-> p, out |-> out, in |-> in]
<1>0. /\ CollateralTypeOK /\ substitution[s].status = "none"
      /\ asset[in].status = "AVAILABLE" /\ UNCHANGED <<pledge, late, abandoned>>
      /\ asset \in [Assets -> [status : AssetStatuses, value : Nat]]
  BY DEF PledgeInv, RequestSubstitution, CollateralTypeOK
<1>1. /\ asset' \in [Assets -> [status : AssetStatuses, value : Nat]]
      /\ \A a \in Assets : asset'[a].status = IF a = out THEN "SUBSTITUTION_PENDING"
                                              ELSE IF a = in THEN "IN_TRANSIT" ELSE asset[a].status
  <2>1. PICK mid : mid = [asset EXCEPT ![in].status = "IN_TRANSIT"]
    OBVIOUS
  <2>2. /\ mid \in [Assets -> [status : AssetStatuses, value : Nat]]
        /\ \A a \in Assets : mid[a].status = IF a = in THEN "IN_TRANSIT" ELSE asset[a].status
    <3>1. [asset[in] EXCEPT !.status = "IN_TRANSIT"] \in [status : AssetStatuses, value : Nat]
          /\ [asset[in] EXCEPT !.status = "IN_TRANSIT"].status = "IN_TRANSIT"
      BY <1>0 DEF AssetStatuses
    <3> QED
      BY <1>0, <2>1, <3>1
  <2>3. asset' = [mid EXCEPT ![out].status = "SUBSTITUTION_PENDING"]
    BY <2>1 DEF RequestSubstitution
  <2>4. [mid[out] EXCEPT !.status = "SUBSTITUTION_PENDING"] \in [status : AssetStatuses, value : Nat]
        /\ [mid[out] EXCEPT !.status = "SUBSTITUTION_PENDING"].status = "SUBSTITUTION_PENDING"
    BY <2>2 DEF AssetStatuses
  <2> QED
    BY <2>2, <2>3, <2>4
<1>2. /\ substitution' = [substitution EXCEPT ![s] = row]
      /\ substitution'[s] = row /\ row.status = "PENDING" /\ row.in = in
      /\ \A t \in Substitutions : t # s => substitution'[t] = substitution[t]
  BY <1>0 DEF RequestSubstitution, CollateralTypeOK
<1>3. CollateralTypeOK'
  BY <1>0, <1>1, <1>2 DEF CollateralTypeOK
<1> HIDE DEF row
<1>4. LivePledgesDisjoint'
  BY <1>0, <1>1 DEF PledgeInv, LivePledgesDisjoint, Live, Listed
<1>5. PledgedIsBacked'
  BY <1>0, <1>1 DEF PledgeInv, PledgedIsBacked, Live, Listed
<1>6. OnTheirWay'
  <2> SUFFICES ASSUME ~late, NEW t \in Substitutions, substitution'[t].status = "PENDING"
               PROVE  /\ asset'[substitution'[t].in].status \in {"IN_TRANSIT", "SUBSTITUTION_PENDING"}
                      /\ \A q \in Pledges : Live(q) => substitution'[t].in \notin Listed(q)
                      /\ \A u \in Substitutions \ {t} :
                           substitution'[u].status = "PENDING" => substitution'[u].in # substitution'[t].in
    BY <1>0 DEF OnTheirWay, Live, Listed
  <2>1. \A u \in Substitutions : substitution[u].status = "PENDING" =>
          /\ substitution[u].in \in Assets /\ substitution[u].in # in /\ u # s
          /\ asset[substitution[u].in].status \in {"IN_TRANSIT", "SUBSTITUTION_PENDING"}
          /\ \A q \in Pledges : Live(q) => substitution[u].in \notin Listed(q)
          /\ \A v \in Substitutions \ {u} :
               substitution[v].status = "PENDING" => substitution[v].in # substitution[u].in
    BY <1>0, RowTyped DEF PledgeInv, OnTheirWay
  <2>2. \A q \in Pledges : Live(q) => in \notin Listed(q)
    BY <1>0 DEF PledgeInv, LivePledgesDisjoint
  <2>3. CASE t = s
    BY <1>1, <1>2, <2>1, <2>2, <2>3
  <2>4. CASE t # s
    BY <1>1, <1>2, <2>1, <2>4
  <2> QED
    BY <2>3, <2>4
<1> QED
  BY <1>3, <1>4, <1>5, <1>6 DEF PledgeInv

(* A settlement exchanges the assets on the list of its pledge.            *)
LEMMA SettleKeeps ==
  ASSUME PledgeInv, NEW s \in Substitutions, SettleSubstitution(s)
  PROVE  PledgeInv'
<1> DEFINE PledgeKept == [status : {"none", "ACTIVE", "PARTIALLY_RELEASED", "FULLY_RELEASED"},
                          list : [Assets -> Nat]]
<1>0. /\ CollateralTypeOK /\ substitution[s].status = "PENDING" /\ UNCHANGED abandoned
      /\ asset \in [Assets -> [status : AssetStatuses, value : Nat]] /\ pledge \in [Pledges -> PledgeKept]
      /\ late \in BOOLEAN
  BY DEF PledgeInv, SettleSubstitution, CollateralTypeOK
<1>1. PICK p \in Pledges, out \in Assets, in \in Assets :
        substitution[s].pledge = p /\ substitution[s].out = out /\ substitution[s].in = in
  BY <1>0, RowTyped
<1>2. PICK list \in [Assets -> Nat] : list = pledge[p].list
  BY <1>0
<1>3. PICK without : without = [list EXCEPT ![out] = IF @ > 0 THEN @ - 1 ELSE 0]
  OBVIOUS
<1>4. without \in [Assets -> Nat] /\ \A a \in Assets :
        without[a] = IF a = out /\ list[a] > 0 THEN list[a] - 1 ELSE list[a]
  BY <1>2, <1>3
<1>5. PICK with : with = [without EXCEPT ![in] = @ + 1]
  OBVIOUS
<1>6. with \in [Assets -> Nat] /\ \A a \in Assets :
        with[a] = IF a = in THEN without[a] + 1 ELSE without[a]
  BY <1>4, <1>5
<1>7. /\ pledge' = [pledge EXCEPT ![p].list = with]
      /\ asset' = [asset EXCEPT ![out].status = "AVAILABLE", ![in].status = "PLEDGED"]
      /\ substitution' = [substitution EXCEPT ![s].status = "SETTLED"]
      /\ late' = (late \/ ~Live(p) \/ out \notin Listed(p))
  BY <1>1, <1>2, <1>3, <1>5 DEF SettleSubstitution
<1>8. /\ pledge' \in [Pledges -> PledgeKept] /\ pledge'[p].list = with
      /\ pledge'[p].status = pledge[p].status /\ \A q \in Pledges : q # p => pledge'[q] = pledge[q]
  <2>1. [pledge[p] EXCEPT !.list = with] \in PledgeKept
        /\ [pledge[p] EXCEPT !.list = with].list = with
        /\ [pledge[p] EXCEPT !.list = with].status = pledge[p].status
    BY <1>0, <1>6
  <2> QED
    BY <1>0, <1>7, <2>1
<1>9. /\ asset' \in [Assets -> [status : AssetStatuses, value : Nat]]
      /\ \A a \in Assets : asset'[a].status = IF a = in THEN "PLEDGED"
                                              ELSE IF a = out THEN "AVAILABLE" ELSE asset[a].status
  <2>1. PICK mid : mid = [asset EXCEPT ![out].status = "AVAILABLE"]
    OBVIOUS
  <2>2. /\ mid \in [Assets -> [status : AssetStatuses, value : Nat]]
        /\ \A a \in Assets : mid[a].status = IF a = out THEN "AVAILABLE" ELSE asset[a].status
    <3>1. [asset[out] EXCEPT !.status = "AVAILABLE"] \in [status : AssetStatuses, value : Nat]
          /\ [asset[out] EXCEPT !.status = "AVAILABLE"].status = "AVAILABLE"
      BY <1>0 DEF AssetStatuses
    <3> QED
      BY <1>0, <2>1, <3>1
  <2>3. asset' = [mid EXCEPT ![in].status = "PLEDGED"]
    BY <1>7, <2>1
  <2>4. [mid[in] EXCEPT !.status = "PLEDGED"] \in [status : AssetStatuses, value : Nat]
        /\ [mid[in] EXCEPT !.status = "PLEDGED"].status = "PLEDGED"
    BY <2>2 DEF AssetStatuses
  <2> QED
    BY <2>2, <2>3, <2>4
<1>10. /\ substitution' \in [Substitutions ->
            [status : {"none"}]
              \cup [status : {"PENDING", "SETTLED"}, pledge : Pledges, out : Assets, in : Assets]]
       /\ substitution'[s].status = "SETTLED"
       /\ \A t \in Substitutions : t # s => substitution'[t] = substitution[t]
  <2>1. substitution[s] \in [status : {"PENDING", "SETTLED"}, pledge : Pledges, out : Assets, in : Assets]
    BY <1>0 DEF CollateralTypeOK
  <2>2. [substitution[s] EXCEPT !.status = "SETTLED"]
          \in [status : {"PENDING", "SETTLED"}, pledge : Pledges, out : Assets, in : Assets]
        /\ [substitution[s] EXCEPT !.status = "SETTLED"].status = "SETTLED"
    BY <2>1
  <2> QED
    BY <1>0, <1>7, <2>2 DEF CollateralTypeOK
<1>11. CollateralTypeOK'
  <2>1. late' \in BOOLEAN /\ abandoned' \in BOOLEAN
    BY <1>0, <1>7 DEF CollateralTypeOK
  <2> QED
    BY <1>8, <1>9, <1>10, <2>1 DEF CollateralTypeOK
<1>12. CASE late'
  BY <1>11, <1>12 DEF PledgeInv, LivePledgesDisjoint, PledgedIsBacked, OnTheirWay
<1>13. CASE ~late'
  <2>1. ~late /\ Live(p) /\ out \in Listed(p)
    BY <1>7, <1>13
  <2>2. /\ list[out] = 1 /\ out # in /\ list[in] = 0
        /\ \A q \in Pledges : Live(q) => in \notin Listed(q)
        /\ \A q \in Pledges : Live(q) /\ q # p => out \notin Listed(q)
    BY <1>0, <1>1, <1>2, <2>1 DEF PledgeInv, LivePledgesDisjoint, OnTheirWay, Listed
  <2>3. Live(p)' /\ Listed(p)' = (Listed(p) \ {out}) \cup {in}
        /\ pledge'[p].list[in] = 1 /\ \A a \in Listed(p) \ {out} : pledge'[p].list[a] = pledge[p].list[a]
    <3>1. \A a \in Assets : with[a] = IF a = in THEN 1 ELSE IF a = out THEN 0 ELSE list[a]
      <4> SUFFICES ASSUME NEW a \in Assets
                   PROVE  with[a] = IF a = in THEN 1 ELSE IF a = out THEN 0 ELSE list[a]
        OBVIOUS
      <4>1. list[a] \in Nat
        BY <1>2
      <4>2. without[a] = IF a = out THEN 0 ELSE list[a]
        BY <1>4, <2>2, <4>1
      <4> QED
        BY <1>6, <2>2, <4>2
    <3>2. Live(p)'
      BY <1>8, <2>1 DEF Live
    <3> QED
      BY <1>2, <1>8, <2>2, <3>1, <3>2 DEF Listed
  <2>4. \A q \in Pledges : q # p => Live(q)' = Live(q) /\ Listed(q)' = Listed(q)
    BY <1>8 DEF Live, Listed
  <2>5. LivePledgesDisjoint'
    <3> SUFFICES ASSUME NEW q \in Pledges, Live(q)', NEW a \in Listed(q)'
                 PROVE  /\ pledge'[q].list[a] = 1
                        /\ asset'[a].status \in {"PLEDGED", "SUBSTITUTION_PENDING"}
                        /\ \A r \in Pledges \ {q} : Live(r)' => a \notin Listed(r)'
      BY DEF LivePledgesDisjoint
    <3>1. a \in Assets
      BY DEF Listed
    <3>2. CASE a = in
      <4>1. q = p
        BY <2>2, <2>4, <3>2
      <4> QED
        BY <1>9, <2>2, <2>3, <2>4, <3>2, <4>1
    <3>3. CASE a # in
      <4>1. Live(q) /\ a \in Listed(q) /\ a # out /\ pledge'[q].list[a] = pledge[q].list[a]
        BY <1>8, <2>1, <2>2, <2>3, <2>4, <3>3
      <4>2. /\ pledge[q].list[a] = 1 /\ asset[a].status \in {"PLEDGED", "SUBSTITUTION_PENDING"}
            /\ \A r \in Pledges \ {q} : Live(r) => a \notin Listed(r)
        BY <2>1, <4>1 DEF PledgeInv, LivePledgesDisjoint
      <4>3. asset'[a].status = asset[a].status
        BY <1>9, <3>1, <3>3, <4>1
      <4> QED
        BY <2>1, <2>3, <2>4, <3>3, <4>1, <4>2, <4>3
    <3> QED
      BY <3>2, <3>3
  <2>6. PledgedIsBacked'
    <3> SUFFICES ASSUME ~abandoned', NEW a \in Assets, asset'[a].status = "PLEDGED"
                 PROVE  \E q \in Pledges : Live(q)' /\ a \in Listed(q)'
      BY DEF PledgedIsBacked
    <3>1. CASE a = in
      BY <2>3, <3>1
    <3>2. CASE a # in
      <4>1. a # out /\ asset[a].status = "PLEDGED"
        BY <1>9, <2>2, <3>2
      <4>2. PICK q \in Pledges : Live(q) /\ a \in Listed(q)
        BY <1>0, <2>1, <4>1 DEF PledgeInv, PledgedIsBacked
      <4> QED
        BY <2>3, <2>4, <4>1, <4>2
    <3> QED
      BY <3>1, <3>2
  <2>7. OnTheirWay'
    <3> SUFFICES ASSUME NEW t \in Substitutions, substitution'[t].status = "PENDING"
                 PROVE  /\ asset'[substitution'[t].in].status \in {"IN_TRANSIT", "SUBSTITUTION_PENDING"}
                        /\ \A q \in Pledges : Live(q)' => substitution'[t].in \notin Listed(q)'
                        /\ \A u \in Substitutions \ {t} :
                             substitution'[u].status = "PENDING" => substitution'[u].in # substitution'[t].in
      BY DEF OnTheirWay
    <3>1. t # s /\ substitution'[t] = substitution[t]
      BY <1>10
    <3>2. /\ substitution[t].in \in Assets /\ substitution[t].in # in
          /\ asset[substitution[t].in].status \in {"IN_TRANSIT", "SUBSTITUTION_PENDING"}
          /\ \A q \in Pledges : Live(q) => substitution[t].in \notin Listed(q)
          /\ \A u \in Substitutions \ {t} :
               substitution[u].status = "PENDING" => substitution[u].in # substitution[t].in
      BY <1>0, <1>1, <2>1, <3>1, RowTyped DEF PledgeInv, OnTheirWay
    <3>3. substitution[t].in # out
      BY <2>1, <3>2
    <3> QED
      BY <1>9, <1>10, <2>1, <2>3, <2>4, <3>1, <3>2, <3>3
  <2> QED
    BY <1>11, <2>5, <2>6, <2>7 DEF PledgeInv
<1> QED
  BY <1>12, <1>13

(* Every step keeps assets in one pledge each.                             *)
LEMMA PledgeStep == PledgeInv /\ [CollateralNext]_collateralVars => PledgeInv'
<1> SUFFICES ASSUME PledgeInv, [CollateralNext]_collateralVars PROVE PledgeInv'
  OBVIOUS
<1>1. CASE UNCHANGED collateralVars
  BY <1>1 DEF collateralVars, PledgeInv, CollateralTypeOK, LivePledgesDisjoint, PledgedIsBacked,
              OnTheirWay, Live, Listed
<1> QED
  BY <1>1, AssetKeeps, CreateKeeps, ReleaseKeeps, RequestKeeps, SettleKeeps DEF CollateralNext

(* An asset secures at most one live pledge, none is locked away, and the  *)
(* optimizer posts the largest haircuts until the requirement is met.      *)
THEOREM CollateralSecured == CollateralSpec => [](CollateralTypeOK /\ CollateralSound)
<1>1. CollateralInit => PledgeInv
  <2> SUFFICES ASSUME CollateralInit PROVE PledgeInv
    OBVIOUS
  <2>1. Nothing \in [Assets -> Nat]
    BY DEF Nothing
  <2>2. CollateralTypeOK
    BY <2>1 DEF CollateralInit, CollateralTypeOK, AssetStatuses
  <2>3. /\ \A a \in Assets : asset[a].status = "none"
        /\ \A p \in Pledges : pledge[p].status = "none"
        /\ \A s \in Substitutions : substitution[s].status = "none"
    BY DEF CollateralInit
  <2> QED
    BY <2>2, <2>3 DEF PledgeInv, LivePledgesDisjoint, PledgedIsBacked, OnTheirWay, Live
<1>2. PledgeInv => CollateralTypeOK /\ CollateralSound
  BY OptimizerKeeps DEF PledgeInv, CollateralSound
<1> QED
  BY <1>1, <1>2, PledgeStep, PTL DEF CollateralSpec
=============================================================================
