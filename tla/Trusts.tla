------------------------------- MODULE Trusts -------------------------------
(***************************************************************************)
(* The trusts of TrustEstateService: one trust with one beneficiary, its   *)
(* life cycle, its distributions and its accounting periods, in memory.    *)
(* Amounts are in cents.  A refused call has no effect other than the one  *)
(* shown: the trust is changed in place before the last check.             *)
(***************************************************************************)
EXTENDS Integers, Sequences

CONSTANTS
  Closings,       \* per period: what opening balance, income and costs come to
  TrustAmounts,   \* amounts to distribute
  MaxPaid         \* bound: the beneficiary's total

ASSUME TrustConstants ==
  Closings \subseteq Nat /\ TrustAmounts \subseteq Nat \ {0} /\ MaxPaid \in Nat

VARIABLES
  trust,     \* [status, principal, income]
  bene,      \* totalDistributions of the beneficiary
  given,     \* distributions on record: [income, principal], BOTH in each of them
  funded,    \* history: the balances at the last accounting, both together
  paidThen,  \* history: totalDistributions at that time
  odd,       \* history: distributions of an odd amount from both since then
  torn       \* history: a distribution was refused after its first half

trustVars == <<trust, bene, given, funded, paidThen, odd, torn>>

TrustInit ==
  /\ trust = [status |-> "DRAFT", principal |-> 0, income |-> 0]
  /\ bene = 0 /\ given = [income |-> 0, principal |-> 0]
  /\ funded = 0 /\ paidThen = 0 /\ odd = 0 /\ torn = FALSE

books == <<bene, given, funded, paidThen, odd, torn>>

-----------------------------------------------------------------------------
ExecuteTrust ==
  /\ trust.status = "DRAFT"
  /\ trust' = [trust EXCEPT !.status = "EXECUTED"] /\ UNCHANGED books

ActivateTrust ==
  /\ trust.status = "EXECUTED"
  /\ trust' = [trust EXCEPT !.status = "ACTIVE"] /\ UNCHANGED books

(* amendTrust sets AMENDMENT_IN_PROGRESS and ACTIVE again in the same call. *)

TerminateTrust ==
  /\ trust.status = "ACTIVE"
  /\ trust.principal + trust.income <= 0
  /\ trust' = [trust EXCEPT !.status = "TERMINATED"] /\ UNCHANGED books

Record(a, class) ==
  /\ bene + a <= MaxPaid
  /\ bene' = bene + a
  /\ given' = [income |-> given.income + (IF class = "PRINCIPAL" THEN 0 ELSE a),
               principal |-> given.principal + (IF class = "INCOME" THEN 0 ELSE a)]
  /\ UNCHANGED <<funded, paidThen>>

(* makeDistribution of class INCOME or PRINCIPAL.                          *)
DistributeOne(a, class) ==
  /\ trust.status = "ACTIVE"
  /\ IF class = "INCOME"
     THEN a <= trust.income /\ trust' = [trust EXCEPT !.income = @ - a]
     ELSE a <= trust.principal /\ trust' = [trust EXCEPT !.principal = @ - a]
  /\ Record(a, class)
  /\ UNCHANGED <<odd, torn>>

(* Mutant: each balance pays the whole amount.                             *)
WholeAmount(a) == a

(* What toFixed(2) leaves of a deduction of a/2: the half cent is rounded  *)
(* up in the balance, so nobody pays it.                                   *)
HalfDeducted(a) == a \div 2

(* Class BOTH: half from income, then half from principal.  The income has *)
(* been reduced when the principal turns out too small.                    *)
DistributeBoth(a) ==
  /\ trust.status = "ACTIVE"
  /\ a <= 2 * trust.income
  /\ IF a <= 2 * trust.principal
     THEN /\ trust' = [trust EXCEPT !.income = @ - HalfDeducted(a),
                                    !.principal = @ - HalfDeducted(a)]
          /\ Record(a, "BOTH")
          /\ odd' = odd + (a % 2) /\ UNCHANGED torn
     ELSE /\ trust' = [trust EXCEPT !.income = @ - HalfDeducted(a)]
          /\ torn' = TRUE
          /\ UNCHANGED <<bene, given, funded, paidThen, odd>>

(* recordAccountingPeriod over all distributions on record, in any status: *)
(* the closing balances replace the ones of the trust, whatever they were. *)
RecordAccountingPeriod(income, principal) ==
  /\ trust' = [trust EXCEPT !.income = income - given.income,
                            !.principal = principal - given.principal]
  /\ funded' = trust'.income + trust'.principal
  /\ paidThen' = bene /\ odd' = 0 /\ torn' = FALSE
  /\ UNCHANGED <<bene, given>>

TrustNext ==
  \/ ExecuteTrust \/ ActivateTrust \/ TerminateTrust
  \/ \E a \in TrustAmounts :
       DistributeOne(a, "INCOME") \/ DistributeOne(a, "PRINCIPAL") \/ DistributeBoth(a)
  \/ \E i, p \in Closings : RecordAccountingPeriod(i, p)

TrustSpec == TrustInit /\ [][TrustNext]_trustVars

-----------------------------------------------------------------------------
(* The stores hold what their TypeScript types say.                        *)
TrustTypeOK ==
  /\ trust \in [status : {"DRAFT", "EXECUTED", "ACTIVE", "TERMINATED"},
                principal : Int, income : Int]
  /\ bene \in Nat /\ given \in [income : Nat, principal : Nat]
  /\ funded \in Int /\ paidThen \in Nat /\ odd \in Nat /\ torn \in BOOLEAN

(* Between two accounting periods the money is accounted for: what the     *)
(* beneficiary was paid has left the balances, but for one cent of each    *)
(* odd amount taken from both, unless a distribution was refused half-way. *)
DistributionsLeaveBalances ==
  ~torn => trust.income + trust.principal + (bene - paidThen) = funded + odd
-----------------------------------------------------------------------------
(***************************************************************************)
(* The estate cases of the same service: one case, its assets, the claims  *)
(* of creditors and the distributions.  Nothing but the order of the       *)
(* stages is enforced: an asset, a claim or a distribution is recorded in  *)
(* any of them.                                                            *)
(***************************************************************************)
CONSTANTS
  EstateAssets, EstateValues,   \* assets, and what they are worth
  Claims,                       \* creditor claims
  Bequests                      \* distributions

ASSUME EstateConstants == EstateValues \subseteq Nat

VARIABLES
  stage,       \* estateStatus
  estate,      \* estateAssetStore: asset -> [value, stepUp]
  claims,      \* creditorStore: claim -> [status, amount, allowed, dated]
  bequests,    \* estateDistributionStore: distribution -> amount
  passed,      \* history: the stages in the order they were entered
  everPaid     \* history: claims that were PAID at some time

estateVars == <<stage, estate, claims, bequests, passed, everPaid>>

Stages == <<"OPEN", "PROBATE_IN_PROGRESS", "CREDITOR_NOTICE_PERIOD", "ASSETS_INVENTORIED",
            "DISTRIBUTION_IN_PROGRESS", "CLOSED">>

EstateInit ==
  /\ stage = Stages[1] /\ passed = <<Stages[1]>>
  /\ estate = [a \in {} |-> 0] /\ claims = [c \in {} |-> 0] /\ bequests = [b \in {} |-> 0]
  /\ everPaid = {}

Filed(f, k, v) == [x \in DOMAIN f \cup {k} |-> IF x = k THEN v ELSE f[x]]

(* Each stage has one successor.                                           *)
AdvanceEstateStatus ==
  \E i \in 1..(Len(Stages) - 1) :
    /\ stage = Stages[i]
    /\ stage' = Stages[i + 1] /\ passed' = Append(passed, Stages[i + 1])
    /\ UNCHANGED <<estate, claims, bequests, everPaid>>

(* The stepped-up basis is the value at the date of death, whatever the    *)
(* appraisal says.                                                         *)
AddEstateAsset(a, died, appraised) ==
  /\ a \notin DOMAIN estate
  /\ estate' = Filed(estate, a, [value |-> appraised, stepUp |-> died])
  /\ UNCHANGED <<stage, claims, bequests, passed, everPaid>>

NotAllowed == -1   \* allowedAmount null

FileCreditorClaim(c, amount) ==
  /\ c \notin DOMAIN claims
  /\ claims' = Filed(claims, c, [status |-> "FILED", amount |-> amount, allowed |-> NotAllowed,
                                 dated |-> FALSE])
  /\ UNCHANGED <<stage, estate, bequests, passed, everPaid>>

ClaimStatuses == {"FILED", "ALLOWED", "DISPUTED", "REJECTED", "PAID"}

(* Any status follows any other; allowed = NotAllowed stands for a call    *)
(* without an allowed amount.                                              *)
UpdateCreditorClaim(c, status, allowed) ==
  /\ c \in DOMAIN claims
  /\ claims' = [claims EXCEPT ![c].status = status,
                  ![c].allowed = IF allowed = NotAllowed THEN @ ELSE allowed,
                  ![c].dated = @ \/ status = "PAID"]
  /\ everPaid' = IF status = "PAID" THEN everPaid \cup {c} ELSE everPaid
  /\ UNCHANGED <<stage, estate, bequests, passed>>

(* Neither the stage nor the net estate is looked at.                      *)
RecordEstateDistribution(b, amount) ==
  /\ b \notin DOMAIN bequests
  /\ bequests' = Filed(bequests, b, amount)
  /\ UNCHANGED <<stage, estate, claims, passed, everPaid>>

EstateNext ==
  \/ AdvanceEstateStatus
  \/ \E a \in EstateAssets : \E d, v \in EstateValues : AddEstateAsset(a, d, v)
  \/ \E c \in Claims, v \in EstateValues : FileCreditorClaim(c, v)
  \/ \E c \in Claims, s \in ClaimStatuses, v \in EstateValues \cup {NotAllowed} :
       UpdateCreditorClaim(c, s, v)
  \/ \E b \in Bequests, v \in EstateValues : RecordEstateDistribution(b, v)

EstateSpec == EstateInit /\ [][EstateNext]_estateVars

-----------------------------------------------------------------------------
(* The stores hold what their interfaces say.                              *)
EstateTypeOK ==
  /\ \A c \in DOMAIN claims : claims[c] \in [status : ClaimStatuses, amount : EstateValues,
                                allowed : EstateValues \cup {NotAllowed}, dated : BOOLEAN]
  /\ DOMAIN estate \subseteq EstateAssets /\ DOMAIN bequests \subseteq Bequests

(* A case has gone through the stages in their order, and a payment date   *)
(* is on a claim exactly when it was paid at some time: a claim reopened   *)
(* or rejected later keeps it.                                             *)
EstateInOrder ==
  /\ passed = SubSeq(Stages, 1, Len(passed)) /\ stage = passed[Len(passed)]
  /\ \A c \in DOMAIN claims : claims[c].dated <=> c \in everPaid
=============================================================================
