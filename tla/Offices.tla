------------------------------ MODULE Offices ------------------------------
(***************************************************************************)
(* The services behind the desks, side by side: each is a process of its   *)
(* own with stores of its own and calls none of the others, so a behaviour *)
(* of the whole is a behaviour of one of them while the others stand       *)
(* still, whichever it is.                                                 *)
(***************************************************************************)
EXTENDS SecuritiesLending, MarginCalls, Collateral, PrimeAccounts, Correspondents,
        TreasuryDesk, Trusts, LoanDesk, Filings, ReportScheduler, RoboAdvisor, PrivateBanking,
        FamilyOffice, PersonalOffice, Capital, Kyc, Monitoring, Marking

VARIABLE office   \* the service this behaviour is about

officeVars == <<office, lendingVars, marginVars, collateralVars, primeVars, correspondentVars,
                nostroVars, poolVars, trustVars, loanVars, filingVars, reportVars, roboVars,
                bankingVars, familyVars, personalVars, estateVars, fxVars,
                capitalReport, kycVars, searchVars, monitorVars, markingVars>>

Offices == {"lending", "payments", "margin", "collateral", "prime", "correspondents", "nostro",
            "pool", "trusts", "loans", "filings", "reports", "robo", "banking", "policies", "payouts",
            "vault", "worth", "goals", "heirs", "estates", "fx", "capital", "identity",
            "screening", "monitoring", "positions"}

Init ==
  /\ office \in Offices
  /\ LendingInit /\ MarginInit /\ CollateralInit /\ PrimeInit /\ CorrespondentInit
  /\ NostroInit /\ PoolInit /\ TrustInit /\ LoanInit /\ FilingInit /\ ReportInit
  /\ RoboInit /\ BankingInit /\ FamilyInit /\ PersonalInit /\ EstateInit /\ FxInit
  /\ CapitalInit /\ KycInit /\ SearchInit /\ MonitorInit
  /\ MarkingInit
  /\ office # "identity" => provider = "JUMIO"   \* elsewhere it makes no difference

(* Everything a step of one service leaves alone.                          *)
Others(o) ==
  /\ UNCHANGED office
  /\ o \notin {"lending", "payments"} => UNCHANGED lendingVars
  /\ o # "margin" => UNCHANGED marginVars
  /\ o # "collateral" => UNCHANGED collateralVars
  /\ o # "prime" => UNCHANGED primeVars
  /\ o # "correspondents" => UNCHANGED correspondentVars
  /\ o # "nostro" => UNCHANGED nostroVars
  /\ o # "pool" => UNCHANGED poolVars
  /\ o # "trusts" => UNCHANGED trustVars
  /\ o # "loans" => UNCHANGED loanVars
  /\ o # "filings" => UNCHANGED filingVars
  /\ o # "reports" => UNCHANGED reportVars
  /\ o # "robo" => UNCHANGED roboVars
  /\ o # "banking" => UNCHANGED bankingVars
  /\ o \notin {"policies", "payouts", "vault"} => UNCHANGED familyVars
  /\ o # "worth" => UNCHANGED wealthVars
  /\ o # "goals" => UNCHANGED goalVars
  /\ o # "heirs" => UNCHANGED heirVars
  /\ o # "estates" => UNCHANGED estateVars
  /\ o # "fx" => UNCHANGED fxVars
  /\ o # "capital" => UNCHANGED capitalReport
  /\ o # "identity" => UNCHANGED kycVars
  /\ o # "screening" => UNCHANGED searchVars
  /\ o # "monitoring" => UNCHANGED monitorVars
  /\ o # "positions" => UNCHANGED markingVars

Next ==
  \/ office = "lending" /\ BookNext /\ Others("lending")
  \/ office = "payments" /\ (PaymentNext \/ \E l \in Loans, d \in LoanSizes : OpenLoan(l, d))
       /\ Others("payments")
  \/ office = "margin" /\ MarginNext /\ Others("margin")
  \/ office = "collateral" /\ CollateralNext /\ Others("collateral")
  \/ office = "prime" /\ PrimeNext /\ Others("prime")
  \/ office = "correspondents" /\ CorrespondentNext /\ Others("correspondents")
  \/ office = "nostro" /\ NostroNext /\ Others("nostro")
  \/ office = "pool" /\ PoolNext /\ Others("pool")
  \/ office = "trusts" /\ TrustNext /\ Others("trusts")
  \/ office = "loans" /\ LoanNext /\ Others("loans")
  \/ office = "filings" /\ FilingNext /\ Others("filings")
  \/ office = "reports" /\ ReportNext /\ Others("reports")
  \/ office = "robo" /\ RoboNext /\ Others("robo")
  \/ office = "banking" /\ BankingNext /\ Others("banking")
  \/ office = "policies" /\ PolicyNext /\ Others("policies")
  \/ office = "payouts" /\ PayoutNext /\ Others("payouts")
  \/ office = "vault" /\ VaultNext /\ Others("vault")
  \/ office = "worth" /\ NetWorthNext /\ Others("worth")
  \/ office = "goals" /\ GoalNext /\ Others("goals")
  \/ office = "heirs" /\ HeirNext /\ Others("heirs")
  \/ office = "estates" /\ EstateNext /\ Others("estates")
  \/ office = "fx" /\ FxNext /\ Others("fx")
  \/ office = "capital" /\ CapitalNext /\ Others("capital")
  \/ office = "identity" /\ KycNext /\ Others("identity")
  \/ office = "screening" /\ SearchNext /\ Others("screening")
  \/ office = "monitoring" /\ MonitorNext /\ Others("monitoring")
  \/ office = "positions" /\ MarkingNext /\ Others("positions")

Spec == Init /\ [][Next]_officeVars

-----------------------------------------------------------------------------
(* The stores of every service hold what their types say.                  *)
OfficesTypeOK ==
  /\ office \in Offices
  /\ LendingTypeOK /\ MarginTypeOK /\ CollateralTypeOK /\ PrimeTypeOK
  /\ CorrespondentTypeOK /\ NostroTypeOK /\ PoolTypeOK /\ TrustTypeOK
  /\ LoanTypeOK /\ FilingTypeOK /\ ReportTypeOK /\ RoboTypeOK /\ BankingTypeOK
  /\ FamilyTypeOK /\ PersonalTypeOK /\ EstateTypeOK /\ FxTypeOK /\ CapitalTypeOK
  /\ KycTypeOK /\ MonitorTypeOK /\ MarkingTypeOK

(* The treasury and the trading book: the exposure to a correspondent is   *)
(* what was sent to it, a nostro account is matched in pairs whatever is   *)
(* sent again, a cash pool conserves money, a round trip on the FX desk    *)
(* never makes any, and marks and fills leave each other's figures right.  *)
TreasurySound == ExposureSound /\ NostroSound /\ PoolSound /\ RoundTripsCost /\ MarksSound

(* The advisers: a rebalancing plan trades what has drifted and reaches    *)
(* its targets within its rounding, and the stored counts and totals of    *)
(* the relationship managers follow the assignments in any order.          *)
AdviceSound ==
  PlanFollowsDrift /\ PlanReachesTarget /\ ManagersCounted /\ TotalsAreFirstAssets

(* The households: one policy in force per family, with every breach of it *)
(* on record after a check; totals that follow what was paid, bought and   *)
(* owed; shares within the whole; estates in the order of their stages.    *)
HouseholdsSound ==
  /\ PolicyInForce /\ ViolationsShow /\ TotalsFollowPayouts
  /\ NetWorthFollows /\ StoredStatusIsOld /\ SharesWithinWhole
  /\ EstateInOrder

(* The regulator's view: a report that is late is listed as overdue, and a *)
(* capital report keeps its output floor, agrees with itself, and rewards  *)
(* capital.                                                                *)
ReportingSound == OverdueListed /\ FloorHolds /\ ReportAgrees /\ CapitalHelps

(* Compliance: reports need two officers, verdicts and notes stand, nobody *)
(* exposed passes without due diligence, a customer is approved, or found  *)
(* clear, on grounds, and a monitored transaction has the alerts that the  *)
(* wired rules engine can raise.                                           *)
ComplianceSound ==
  /\ FilingsSound
  /\ ApprovedOnGrounds /\ OneActive /\ StuckWasAbandoned /\ ClearIsComplete
  /\ MonitoringSound
=============================================================================
