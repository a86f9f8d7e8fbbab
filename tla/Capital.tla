------------------------------- MODULE Capital -------------------------------
(***************************************************************************)
(* BaselService.generateCapitalAdequacyReport: capital tiers, risk-        *)
(* weighted assets with the output floor, ratios, requirements, payout     *)
(* bands and loss-absorbing capacity.  The service computes in floating    *)
(* point, the model exactly: amounts are whole units, risk-weighted assets *)
(* are in 1/800 of a unit, requirements in thousandths.                    *)
(***************************************************************************)
EXTENDS Integers, Sequences, FiniteSetsExt

CONSTANTS
  Tiers,        \* capital components: [gross, deductions]
  CreditBooks,  \* sequences of [class, amount, model], model in units or NoModel
  MarketRisks,  \* [frtb], or NoModel there and a [charge] of the internal models
  OperationalRisks, \* [approach, base, multiplier]
  LeverageExposures,
  Buffers,      \* countercyclical buffer and surcharge, in thousandths
  Tlacs         \* [instruments, rwaRatio, leverageRatio], the ratios in thousandths

NoModel == -1

(* The standardized risk weights, in units of five percent.                *)
RiskWeight ==
  [SOVEREIGNS |-> 0, PSE_DOMESTIC |-> 4, MDB |-> 0, BANKS_INVESTMENT_GRADE |-> 8,
   BANKS_OTHER |-> 15, COVERED_BONDS |-> 2, CORPORATE_INVESTMENT_GRADE |-> 13,
   CORPORATE_OTHER |-> 20, REGULATORY_RETAIL |-> 15, RESIDENTIAL_MORTGAGE_LTV_50 |-> 4,
   RESIDENTIAL_MORTGAGE_LTV_80 |-> 6, RESIDENTIAL_MORTGAGE_LTV_100 |-> 8,
   RESIDENTIAL_MORTGAGE_LTV_OVER_100 |-> 14, COMMERCIAL_REAL_ESTATE |-> 20,
   SUBORDINATED_DEBT |-> 30, EQUITY_EXCHANGE_TRADED |-> 20, EQUITY_OTHER |-> 30,
   SECURITISATION_SENIOR_HIGH_QUALITY |-> 3, SECURITISATION_OTHER |-> 16, OTHER_ASSETS |-> 20]

(* What the inputs are: exposures, incomes and charges are not negative.    *)
Components == [gross : Int, deductions : Nat]
CreditExposure == [class : DOMAIN RiskWeight, amount : Nat, model : Nat \cup {NoModel}]
MarketRisk == [frtb : Nat \cup {NoModel}, charge : Nat]
OperationalRisk == [approach : {"BIA", "TSA", "SMA"}, base : Nat, multiplier : Nat]
TlacInput == [instruments : Nat, rwaRatio : Nat, leverageRatio : Nat]

ASSUME CapitalConstants ==
  /\ Tiers \subseteq Components /\ CreditBooks \subseteq Seq(CreditExposure)
  /\ MarketRisks \subseteq MarketRisk /\ OperationalRisks \subseteq OperationalRisk
  /\ LeverageExposures \subseteq Nat /\ Buffers \subseteq Nat /\ Tlacs \subseteq TlacInput

VARIABLE capitalReport   \* the input of the last report with what it says

NoReport == [input |-> NoModel]

CapitalInit == capitalReport = NoReport

-----------------------------------------------------------------------------
AtLeast(least, n) == IF n < least THEN least ELSE n

(* computeCet1, computeAt1 and computeT2 alike.  The allowance for loan    *)
(* losses is not capped.                                                   *)
Tier(t) == AtLeast(0, t.gross - t.deductions)

SaRwa(e) == 40 * RiskWeight[e.class] * e.amount
ModelRwa(e) == IF e.model = NoModel THEN SaRwa(e) ELSE 800 * e.model

OverBook(Op(_), book) == MapThenSumSet(LAMBDA i : Op(book[i]), DOMAIN book)

(* 72.5 percent, of a number that 40 divides.                              *)
Floor(n) == (29 * n) \div 40

ComputeCreditRwa(book, floored) ==
  IF floored THEN AtLeast(Floor(OverBook(SaRwa, book)), OverBook(ModelRwa, book))
  ELSE OverBook(ModelRwa, book)

ComputeMarketRwa(m) == IF m.frtb # NoModel THEN 800 * m.frtb ELSE 10000 * m.charge

ComputeOperationalRwa(o) ==
  CASE o.approach = "BIA" -> 1500 * o.base
    [] o.approach = "TSA" -> 1200 * o.base
    [] OTHER -> 10000 * o.base * (IF o.multiplier > 5 THEN 5 ELSE AtLeast(1, o.multiplier))

(* Whether capital is at least so many thousandths of the assets: with no  *)
(* assets the ratio is infinite.                                           *)
Covers(capital, thousandths, rwa) == rwa = 0 \/ 800000 * capital >= thousandths * rwa

(* The payout the conservation bands allow, in percent; 100 is no limit.   *)
Payout(cet1, requirement, rwa) ==
  LET band(quarter) == 4 * (800000 * cet1 - 45 * rwa) < quarter * (requirement - 45) * rwa
  IN  IF ~Covers(cet1, 45, rwa) THEN 0 ELSE IF Covers(cet1, requirement, rwa) THEN 100
      ELSE IF band(1) THEN 0 ELSE IF band(2) THEN 20 ELSE IF band(3) THEN 40 ELSE 60

(* In units of 1/800000.                                                   *)
TlacShortfall(t, rwa, exposure) ==
  AtLeast(AtLeast(0, t.rwaRatio * rwa - 800000 * t.instruments),
          t.leverageRatio * 800 * exposure - 800000 * t.instruments)

(* What the report says of the input with these assets.                    *)
ReportOn(in, rwa, sa, floorApplied) ==
  LET cet1 == Tier(in.cet1)
      tier1 == cet1 + Tier(in.at1)
      requirement == 45 + 25 + in.buffer
  IN  [rwa |-> rwa, saRwa |-> sa, outputFloorApplied |-> floorApplied,
       cet1Compliant |-> Covers(cet1, requirement, rwa),
       overallCompliant |-> /\ Covers(cet1, requirement, rwa) /\ Covers(tier1, 60, rwa)
                            /\ Covers(tier1 + Tier(in.t2), 80, rwa)
                            /\ (in.exposure = 0 \/ 1000 * tier1 >= 30 * in.exposure),
       payout |-> Payout(cet1, requirement, rwa),
       tlacCompliant |-> /\ Covers(in.tlac.instruments, in.tlac.rwaRatio, rwa)
                         /\ (in.exposure = 0
                              \/ 1000 * in.tlac.instruments >= in.tlac.leverageRatio * in.exposure),
       shortfall |-> TlacShortfall(in.tlac, rwa, in.exposure)]

CapitalReport(in) ==
  LET other == ComputeMarketRwa(in.market) + ComputeOperationalRwa(in.operational)
      raw == ComputeCreditRwa(in.book, in.floored) + other
      sa == OverBook(SaRwa, in.book) + other
      again == in.floored /\ raw < Floor(sa)
  IN  ReportOn(in, IF again THEN Floor(sa) ELSE raw, sa, again)

GenerateCapitalAdequacyReport(in) ==
  /\ capitalReport = NoReport
  /\ capitalReport' = [input |-> in, report |-> CapitalReport(in)]

CapitalInputs ==
  [cet1 : Tiers, at1 : Tiers, t2 : Tiers, book : CreditBooks, floored : BOOLEAN,
   market : MarketRisks, operational : OperationalRisks, exposure : LeverageExposures,
   buffer : Buffers, tlac : Tlacs]

CapitalNext == \E in \in CapitalInputs : GenerateCapitalAdequacyReport(in)

CapitalSpec == CapitalInit /\ [][CapitalNext]_capitalReport

-----------------------------------------------------------------------------
(* A report says what its interface says it does.                          *)
CapitalTypeOK ==
  capitalReport # NoReport =>
    /\ capitalReport.report.payout \in {0, 20, 40, 60, 100}
    /\ capitalReport.report.rwa \in Nat /\ capitalReport.report.shortfall \in Nat

(* A report with the output floor never shows less than 72.5 percent of    *)
(* the standardized assets, nor less than the models say.                  *)
FloorHolds ==
  capitalReport # NoReport =>
    LET in == capitalReport.input
        r == capitalReport.report
    IN  /\ in.floored => 40 * r.rwa >= 29 * r.saRwa
        /\ r.rwa >= CapitalReport([in EXCEPT !.floored = FALSE]).rwa

(* The parts of a report agree: no limit on payouts exactly when the CET1  *)
(* requirement is met, and no TLAC shortfall exactly when both TLAC ratios *)
(* are, assets of zero included.                                           *)
ReportAgrees ==
  capitalReport # NoReport =>
    LET r == capitalReport.report
    IN  (r.payout = 100 <=> r.cet1Compliant) /\ (r.shortfall = 0 <=> r.tlacCompliant)

(* More equity never lowers the payout nor costs the compliance, and a     *)
(* further exposure never raises the one nor wins the other.               *)
CapitalHelps ==
  capitalReport # NoReport =>
    LET in == capitalReport.input
        r == capitalReport.report
        more == CapitalReport([in EXCEPT !.cet1.gross = @ + 1])
        riskier(e) == CapitalReport([in EXCEPT !.book = Append(@, e)])
    IN  /\ more.payout >= r.payout /\ (r.overallCompliant => more.overallCompliant)
        /\ \A b \in CreditBooks : \A i \in DOMAIN b :
             /\ riskier(b[i]).payout <= r.payout
             /\ riskier(b[i]).overallCompliant => r.overallCompliant
=============================================================================
