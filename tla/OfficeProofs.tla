---------------------------- MODULE OfficeProofs ----------------------------
(***************************************************************************)
(* Theorems about Offices: each service behaves among the others as it     *)
(* does alone, so that what DeskProofs and ClientProofs show of one holds  *)
(* of the whole.                                                           *)
(***************************************************************************)
EXTENDS Offices, DeskProofs, ClientProofs

(* The services side by side.                                              *)

(* A step of the offices is, to each service, a step of its own or none.   *)
LEMMA ServicesApart ==
  ASSUME [Next]_officeVars
  PROVE  /\ [LendingNext]_lendingVars /\ [MarginNext]_marginVars /\ [CollateralNext]_collateralVars
         /\ [PrimeNext]_primeVars /\ [CorrespondentNext]_correspondentVars /\ [NostroNext]_nostroVars
         /\ [PoolNext]_poolVars /\ [TrustNext]_trustVars /\ [LoanNext]_loanVars
         /\ [FilingNext]_filingVars /\ [ReportNext]_reportVars /\ [RoboNext]_roboVars
         /\ [BankingNext]_bankingVars /\ [FamilyNext]_familyVars /\ [EstateNext]_estateVars
         /\ [FxNext]_fxVars /\ [CapitalNext]_capitalReport /\ [MonitorNext]_monitorVars
         /\ [MarkingNext]_markingVars /\ [NetWorthNext]_wealthVars /\ [GoalNext]_goalVars
         /\ [HeirNext]_heirVars /\ [KycNext]_kycVars /\ [SearchNext]_searchVars
<1>1. CASE UNCHANGED officeVars
  BY <1>1 DEF officeVars, personalVars
<1>2. CASE Next
  <2>1. [LendingNext]_lendingVars
    BY <1>2 DEF Next, Others, LendingNext, BookNext
  <2>2. [MarginNext]_marginVars
    BY <1>2 DEF Next, Others
  <2>3. [CollateralNext]_collateralVars
    BY <1>2 DEF Next, Others
  <2>4. [PrimeNext]_primeVars
    BY <1>2 DEF Next, Others
  <2>5. [CorrespondentNext]_correspondentVars
    BY <1>2 DEF Next, Others
  <2>6. [NostroNext]_nostroVars
    BY <1>2 DEF Next, Others
  <2>7. [PoolNext]_poolVars
    BY <1>2 DEF Next, Others
  <2>8. [TrustNext]_trustVars
    BY <1>2 DEF Next, Others
  <2>9. [LoanNext]_loanVars
    BY <1>2 DEF Next, Others
  <2>10. [FilingNext]_filingVars
    BY <1>2 DEF Next, Others
  <2>11. [ReportNext]_reportVars
    BY <1>2 DEF Next, Others
  <2>12. [RoboNext]_roboVars
    BY <1>2 DEF Next, Others
  <2>13. [BankingNext]_bankingVars
    BY <1>2 DEF Next, Others
  <2>14. [FamilyNext]_familyVars
    BY <1>2 DEF Next, Others, FamilyNext
  <2>15. [EstateNext]_estateVars
    BY <1>2 DEF Next, Others
  <2>16. [FxNext]_fxVars
    BY <1>2 DEF Next, Others
  <2>17. [CapitalNext]_capitalReport
    BY <1>2 DEF Next, Others
  <2>18. [MonitorNext]_monitorVars
    BY <1>2 DEF Next, Others
  <2>19. [MarkingNext]_markingVars
    BY <1>2 DEF Next, Others
  <2>20. [NetWorthNext]_wealthVars
    BY <1>2 DEF Next, Others
  <2>21. [GoalNext]_goalVars
    BY <1>2 DEF Next, Others
  <2>22. [HeirNext]_heirVars
    BY <1>2 DEF Next, Others
  <2>23. [KycNext]_kycVars
    BY <1>2 DEF Next, Others
  <2>24. [SearchNext]_searchVars
    BY <1>2 DEF Next, Others
  <2> QED
    BY <2>1, <2>2, <2>3, <2>4, <2>5, <2>6, <2>7, <2>8, <2>9, <2>10, <2>11, <2>12, <2>13, <2>14,
       <2>15, <2>16, <2>17, <2>18, <2>19, <2>20, <2>21, <2>22, <2>23, <2>24
<1> QED
  BY <1>1, <1>2

(* Each service behaves among the others as it does by itself: what the    *)
(* theorems below say of one is said of the whole.                         *)
THEOREM ServicesStandAlone ==
  Spec => /\ LendingSpec /\ MarginSpec /\ CollateralSpec /\ PrimeSpec
          /\ CorrespondentSpec /\ NostroSpec /\ PoolSpec /\ TrustSpec
          /\ LoanSpec /\ FilingSpec /\ ReportSpec /\ RoboSpec
          /\ BankingSpec /\ FamilySpec /\ EstateSpec /\ FxSpec
          /\ CapitalSpec /\ MonitorSpec /\ MarkingSpec
          /\ PersonalInit /\ [][NetWorthNext]_wealthVars /\ [][GoalNext]_goalVars
          /\ [][HeirNext]_heirVars
          /\ KycInit /\ [][KycNext]_kycVars
          /\ SearchInit /\ [][SearchNext]_searchVars
<1>1. Init => /\ LendingInit /\ MarginInit /\ CollateralInit /\ PrimeInit
              /\ CorrespondentInit /\ NostroInit /\ PoolInit /\ TrustInit
              /\ LoanInit /\ FilingInit /\ ReportInit /\ RoboInit
              /\ BankingInit /\ FamilyInit /\ EstateInit /\ FxInit
              /\ CapitalInit /\ MonitorInit /\ MarkingInit /\ KycInit
              /\ SearchInit /\ PersonalInit
  BY DEF Init
<1>2. [Next]_officeVars =>
        /\ [LendingNext]_lendingVars /\ [MarginNext]_marginVars /\ [CollateralNext]_collateralVars
        /\ [PrimeNext]_primeVars /\ [CorrespondentNext]_correspondentVars /\ [NostroNext]_nostroVars
        /\ [PoolNext]_poolVars /\ [TrustNext]_trustVars /\ [LoanNext]_loanVars
        /\ [FilingNext]_filingVars /\ [ReportNext]_reportVars /\ [RoboNext]_roboVars
        /\ [BankingNext]_bankingVars /\ [FamilyNext]_familyVars /\ [EstateNext]_estateVars
        /\ [FxNext]_fxVars /\ [CapitalNext]_capitalReport /\ [MonitorNext]_monitorVars
        /\ [MarkingNext]_markingVars /\ [NetWorthNext]_wealthVars /\ [GoalNext]_goalVars
        /\ [HeirNext]_heirVars /\ [KycNext]_kycVars /\ [SearchNext]_searchVars
  BY ServicesApart
<1> QED
  BY <1>1, <1>2, PTL DEF Spec,
     LendingSpec, MarginSpec, CollateralSpec, PrimeSpec, CorrespondentSpec, NostroSpec,
     PoolSpec, TrustSpec, LoanSpec, FilingSpec, ReportSpec, RoboSpec, BankingSpec, FamilySpec,
     EstateSpec, FxSpec, CapitalSpec, MonitorSpec, MarkingSpec

(* Among all the services, compliance holds: reports need two officers,    *)
(* verdicts and notes stand, nobody exposed passes without due diligence,  *)
(* a customer is approved, or found clear, on grounds, and a monitored     *)
(* transaction has the alerts that the wired rules engine can raise.       *)
THEOREM ComplianceHolds == Spec => []ComplianceSound
<1>1. FilingSpec => [](FilingTypeOK /\ FiledByTwo /\ RowNamesTwo /\ VerdictsStay /\ NotesKept)
  BY FilesHold
<1>2. FilingSpec => []ExposedNeedsEdd
  BY ExposedAreAssessed
<1>3. KycInit /\ [][KycNext]_kycVars => [](ApprovedOnGrounds /\ OneActive /\ StuckWasAbandoned)
  BY CustomersIdentified
<1>4. SearchInit /\ [][SearchNext]_searchVars => []ClearIsComplete
  BY CustomersScreened
<1>5. MonitorSpec => [](MonitorTypeOK /\ MonitoringSound)
  BY TransactionsWatched
<1>6. /\ FiledByTwo /\ RowNamesTwo /\ VerdictsStay /\ NotesKept /\ ExposedNeedsEdd
      /\ ApprovedOnGrounds /\ OneActive /\ StuckWasAbandoned /\ ClearIsComplete
      /\ MonitoringSound
      => ComplianceSound
  BY DEF ComplianceSound, FilingsSound
<1> QED
  BY <1>1, <1>2, <1>3, <1>4, <1>5, <1>6, ServicesStandAlone, PTL

(* Among all the services, the desks hold: the lending board, the prime    *)
(* accounts, the trusts, the cases of the loans and the margin calls are   *)
(* as they are alone.                                                      *)
THEOREM DesksHold ==
  Spec => /\ [](LendingSound /\ PrimeSound /\ DistributionsLeaveBalances)
          /\ [](OneOpenCase /\ TroubleHasCase)
          /\ MarginSound
<1>1. LendingSpec => [](LendingTypeOK /\ LendingSound)
  BY SecuritiesLent
<1>2. PrimeSpec => [](PrimeTypeOK /\ PrimeSound)
  BY PrimeBalanced
<1>3. TrustSpec => [](TrustTypeOK /\ DistributionsLeaveBalances)
  BY TrustsBalance
<1>4. MarginSpec => MarginSound
  BY MarginCallsSound
<1>5. LoanSpec => [](OneOpenCase /\ TroubleHasCase)
  BY LoansWatched
<1> QED
  BY <1>1, <1>2, <1>3, <1>4, <1>5, ServicesStandAlone, PTL

(* Among all the services, the treasury holds: exposures, statements, cash *)
(* pools, the dealing desk and the marks of the positions.                 *)
THEOREM TreasuryHolds == Spec => []TreasurySound
<1>1. CorrespondentSpec => [](CorrespondentTypeOK /\ ExposureSound)
  BY ExposureCounted
<1>2. NostroSpec => [](NostroTypeOK /\ NostroSound)
  BY NostroReconciled
<1>3. PoolSpec => [](PoolTypeOK /\ PoolSound)
  BY PoolsKeepMoney
<1>4. FxSpec => [](FxTypeOK /\ RoundTripsCost)
  BY NoFreeRoundTrip
<1>5. MarkingSpec => [](MarkingTypeOK /\ MarksSound)
  BY MarksAgree
<1>6. ExposureSound /\ NostroSound /\ PoolSound /\ RoundTripsCost /\ MarksSound => TreasurySound
  BY DEF TreasurySound
<1> QED
  BY <1>1, <1>2, <1>3, <1>4, <1>5, <1>6, ServicesStandAlone, PTL

(* Among all the services, the advice holds: a rebalancing plan trades     *)
(* what has drifted and reaches its targets, and the managers' counts and  *)
(* totals follow the assignments.                                          *)
THEOREM AdviceHolds == Spec => []AdviceSound
<1>1. RoboSpec => [](RoboTypeOK /\ PlanFollowsDrift /\ PlanReachesTarget)
  BY PlansReachTargets
<1>2. BankingSpec => [](BankingTypeOK /\ ManagersCounted /\ TotalsAreFirstAssets)
  BY ManagersAgree
<1>3. PlanFollowsDrift /\ PlanReachesTarget /\ ManagersCounted /\ TotalsAreFirstAssets
      => AdviceSound
  BY DEF AdviceSound
<1> QED
  BY <1>1, <1>2, <1>3, ServicesStandAlone, PTL

(* Among all the services, the households hold: policies, distributions,   *)
(* net worths, goals, beneficiaries and estates.                           *)
THEOREM HouseholdsHold == Spec => []HouseholdsSound
<1>1. FamilySpec => [](PolicyInForce /\ ViolationsShow)
  BY PoliciesEnforced
<1>2. FamilySpec => [](VaultTyped /\ TotalsFollowPayouts)
  BY PayoutsCounted
<1>3. PersonalInit /\ [][NetWorthNext]_wealthVars => []NetWorthFollows
  BY NetWorthKept
<1>4. PersonalInit /\ [][GoalNext]_goalVars => []StoredStatusIsOld
  BY GoalsNotWorse
<1>5. PersonalInit /\ [][HeirNext]_heirVars => []SharesWithinWhole
  BY SharesKept
<1>6. EstateSpec => [](EstateTypeOK /\ EstateInOrder)
  BY EstatesOrdered
<1>7. /\ PolicyInForce /\ ViolationsShow /\ TotalsFollowPayouts /\ NetWorthFollows
      /\ StoredStatusIsOld /\ SharesWithinWhole /\ EstateInOrder
      => HouseholdsSound
  BY DEF HouseholdsSound
<1> QED
  BY <1>1, <1>2, <1>3, <1>4, <1>5, <1>6, <1>7, ServicesStandAlone, PTL

(* Among all the services, the collateral holds: an asset secures one live *)
(* pledge at most, none is locked away, and what an optimization posts is  *)
(* enough, or all there is.                                                *)
THEOREM CollateralHolds == Spec => []CollateralSound
BY CollateralSecured, ServicesStandAlone, PTL

(* Among all the services, the reporting holds: what is late is listed as  *)
(* overdue, and a capital report keeps its floor, agrees with itself and   *)
(* rewards capital.                                                        *)
THEOREM ReportingHolds == Spec => []ReportingSound
<1>1. ReportSpec => [](ReportTypeOK /\ OverdueListed)
  BY OverdueFollows
<1>2. CapitalSpec => [](CapitalTypeOK /\ FloorHolds /\ ReportAgrees /\ CapitalHelps)
  BY CapitalRewarded
<1>3. OverdueListed /\ FloorHolds /\ ReportAgrees /\ CapitalHelps => ReportingSound
  BY DEF ReportingSound
<1> QED
  BY <1>1, <1>2, <1>3, ServicesStandAlone, PTL

(* A behaviour is about one service throughout.                            *)
LEMMA OfficeStays == Spec => [](office \in Offices)
<1>1. Init => office \in Offices
  BY DEF Init
<1>2. office \in Offices /\ [Next]_officeVars => (office \in Offices)'
  <2>1. ASSUME NEW o, Others(o) PROVE office' = office
    BY <2>1, Zenon DEF Others
  <2>2. Next => \E o : Others(o)
    BY Zenon DEF Next
  <2>3. UNCHANGED officeVars => office' = office
    BY DEF officeVars
  <2> QED
    BY <2>1, <2>2, <2>3
<1> QED
  BY <1>1, <1>2, PTL DEF Spec

(* The stores of every service hold what their types say, whatever the     *)
(* others do.                                                              *)
THEOREM OfficesTyped == Spec => []OfficesTypeOK
<1>1. Spec => [](LendingTypeOK /\ MarginTypeOK /\ CollateralTypeOK /\ PrimeTypeOK)
  <2>1. CallInv => MarginTypeOK
    BY DEF CallInv
  <2> QED
    BY <2>1, SecuritiesLent, CallKept, CollateralSecured, PrimeBalanced, ServicesStandAlone, PTL
<1>2. Spec => [](CorrespondentTypeOK /\ NostroTypeOK /\ PoolTypeOK /\ FxTypeOK /\ MarkingTypeOK)
  BY ExposureCounted, NostroReconciled, PoolsKeepMoney, NoFreeRoundTrip, MarksAgree,
     ServicesStandAlone, PTL
<1>3. Spec => [](TrustTypeOK /\ LoanTypeOK /\ EstateTypeOK)
  BY TrustsBalance, LoansNeverFunded, EstatesOrdered, ServicesStandAlone, PTL
<1>4. Spec => [](FilingTypeOK /\ ReportTypeOK /\ CapitalTypeOK /\ MonitorTypeOK)
  BY FilesHold, OverdueFollows, CapitalRewarded, TransactionsWatched, ServicesStandAlone, PTL
<1>5. Spec => [](RoboTypeOK /\ BankingTypeOK)
  BY PlansReachTargets, ManagersAgree, ServicesStandAlone, PTL
<1>6. Spec => [](FamilyTypeOK /\ PersonalTypeOK)
  BY FamilyTyped, PersonalTyped, PolicyKept, PayoutKept, WealthKept, GoalKept,
     HeirsAlwaysKept, ServicesStandAlone, PTL
<1>7. Spec => []KycTypeOK
  BY KycTyped, IdentityKept, ScreeningKept, ServicesStandAlone, PTL
<1>8. /\ office \in Offices
      /\ LendingTypeOK /\ MarginTypeOK /\ CollateralTypeOK /\ PrimeTypeOK
      /\ CorrespondentTypeOK /\ NostroTypeOK /\ PoolTypeOK /\ FxTypeOK /\ MarkingTypeOK
      /\ TrustTypeOK /\ LoanTypeOK /\ EstateTypeOK
      /\ FilingTypeOK /\ ReportTypeOK /\ CapitalTypeOK /\ MonitorTypeOK
      /\ RoboTypeOK /\ BankingTypeOK /\ FamilyTypeOK /\ PersonalTypeOK /\ KycTypeOK
      => OfficesTypeOK
  BY DEF OfficesTypeOK
<1> QED
  BY <1>1, <1>2, <1>3, <1>4, <1>5, <1>6, <1>7, <1>8, OfficeStays, PTL
=============================================================================
