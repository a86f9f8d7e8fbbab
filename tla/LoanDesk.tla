------------------------------ MODULE LoanDesk ------------------------------
(***************************************************************************)
(* LoansService and CollectionsService for one loan: application,          *)
(* underwriting, disbursement and payment, the amortization arithmetic,    *)
(* the collection cases and their workout plans.  The calls for a loan     *)
(* follow each other; one that updates two rows outside a transaction may  *)
(* be cut off after the first.  Amounts are integers (NUMERIC(20,6) in     *)
(* micro-units), the monthly rate is a fraction.                           *)
(***************************************************************************)
EXTENDS Postings, FiniteSets

CONSTANTS
  CaseIds, PlanIds,
  Principals, Terms,
  LargeLoan,             \* the 50,000 of the underwriting rules
  RateTop, RateBottom,   \* the monthly rate
  MaxCutOffs             \* bound: calls cut off half way

ASSUME LoanConstants ==
  /\ Principals \subseteq Nat \ {0} /\ Terms \subseteq Nat \ {0} /\ LargeLoan \in Nat
  /\ RateTop \in Nat /\ RateBottom \in Nat \ {0} /\ MaxCutOffs \in Nat

VARIABLES
  loan,      \* [status, principal, term, dti, balance, paid]: paid counts the
             \* COMPLETED installments, -1 while there is no schedule
  cases,     \* collection cases by id: their status
  plans,     \* workout plans by id: [status, case]
  cutOffs

loanVars == <<loan, cases, plans, cutOffs>>

LoanInit ==
  /\ loan = [status |-> "none", principal |-> 0, term |-> 1, dti |-> "none",
             balance |-> 0, paid |-> -1]
  /\ cases = [c \in CaseIds |-> "none"]
  /\ plans = [p \in PlanIds |-> [status |-> "none"]]
  /\ cutOffs = 0

-----------------------------------------------------------------------------
(* Decimal rounding to the last digit kept, half away from zero.           *)
HalfUp(n, d) == (2 * n + d) \div (2 * d)

(* calculateAmortization: principal * rate * f / (f - 1), f = (1 + rate)^term. *)
MonthlyPayment(principal, term) ==
  LET f == (RateTop + RateBottom) ^ term
      one == RateBottom ^ term
  IN IF RateTop = 0 THEN HalfUp(principal, term)
     ELSE HalfUp(principal * RateTop * f, RateBottom * (f - one))

Interest(balance) == HalfUp(balance * RateTop, RateBottom)

(* The last installment takes what is left.                                *)
PrincipalPart(principal, term, i, balance) ==
  IF i = term THEN balance ELSE MonthlyPayment(principal, term) - Interest(balance)

(* generateAmortizationSchedule: the balance after each installment.       *)
Balances(principal, term) ==
  LET after[i \in 0..term] ==
        IF i = 0 THEN principal
        ELSE LET left == after[i - 1] - PrincipalPart(principal, term, i, after[i - 1])
             IN IF left < 0 THEN 0 ELSE left
  IN after

PrincipalParts(principal, term) ==
  [i \in 1..term |-> PrincipalPart(principal, term, i, Balances(principal, term)[i - 1])]

-----------------------------------------------------------------------------
Apply(principal, term, dti) ==
  /\ loan.status = "none"
  /\ loan' = [status |-> "UNDER_REVIEW", principal |-> principal, term |-> term,
              dti |-> dti, balance |-> principal, paid |-> -1]
  /\ UNCHANGED <<cases, plans, cutOffs>>

(* makeUnderwritingDecision: scores below 580 are low, below 650 fair.     *)
Approves(score) ==
  /\ score # "low" /\ loan.dti # "high"
  /\ score = "fair" => loan.principal <= LargeLoan

Underwrite(score) ==
  /\ loan.status = "UNDER_REVIEW"
  /\ loan' = [loan EXCEPT !.status = IF Approves(score) THEN "APPROVED" ELSE "DECLINED"]
  /\ UNCHANGED <<cases, plans, cutOffs>>

(* What disbursement and payment hand to postJournal: one leg.             *)
LoanLegs(type, amount) ==
  <<[account |-> "customer", type |-> type, amount |-> amount, currency |-> "USD"]>>

(* One transaction: a refused journal leaves the loan APPROVED.            *)
Disburse ==
  /\ loan.status = "APPROVED"
  /\ loan' = IF Balanced(LoanLegs("CREDIT", loan.principal))
             THEN [loan EXCEPT !.status = "ACTIVE", !.paid = 0] ELSE loan
  /\ UNCHANGED <<cases, plans, cutOffs>>

(* The next installment, if there is a schedule at all: a loan may be      *)
(* ACTIVE without one.                                                     *)
ProcessPayment ==
  LET next == loan.paid + 1
      portion == PrincipalParts(loan.principal, loan.term)[next]
      left == IF portion > loan.balance THEN 0 ELSE loan.balance - portion
  IN /\ loan.status \in {"ACTIVE", "DELINQUENT"}
     /\ loan' = IF /\ next \in 1..loan.term
                   /\ Balanced(LoanLegs("DEBIT", portion + Interest(loan.balance)))
                THEN [loan EXCEPT !.balance = left, !.paid = next,
                        !.status = IF left = 0 THEN "PAID_OFF" ELSE "ACTIVE"]
                ELSE loan
     /\ UNCHANGED <<cases, plans, cutOffs>>

-----------------------------------------------------------------------------
CaseBecomes(c, status) == cases' = [cases EXCEPT ![c] = status]

(* The update of the loan that follows the update of the case, unless the  *)
(* call is cut off between them.                                           *)
ThenLoan(status) ==
  \/ loan' = [loan EXCEPT !.status = status] /\ UNCHANGED cutOffs
  \/ cutOffs < MaxCutOffs /\ cutOffs' = cutOffs + 1 /\ UNCHANGED loan

(* An OPEN case is returned as it is, whatever became of the loan; a case  *)
(* IN_WORKOUT does not count.                                              *)
OpenCase(c) ==
  /\ loan.status # "none" /\ cases[c] = "none"
  /\ \A other \in CaseIds : cases[other] # "OPEN"
  /\ CaseBecomes(c, "OPEN")
  /\ ThenLoan(IF loan.status = "ACTIVE" THEN "DELINQUENT" ELSE loan.status)
  /\ UNCHANGED plans

(* updateDelinquency with 90 days or more; fewer change no status.         *)
LongOverdue(c) ==
  /\ cases[c] = "OPEN"
  /\ loan' = [loan EXCEPT !.status = "DEFAULT"]
  /\ UNCHANGED <<cases, plans, cutOffs>>

ChargeOff(c) ==
  /\ cases[c] \in {"OPEN", "IN_WORKOUT"}
  /\ CaseBecomes(c, "CHARGED_OFF")
  /\ ThenLoan("CHARGED_OFF")
  /\ UNCHANGED plans

(* Mutant: the loan stays as it is.                                        *)
ResolveCaseOnly(c) ==
  /\ cases[c] \in {"OPEN", "IN_WORKOUT", "CHARGED_OFF"}
  /\ CaseBecomes(c, "RESOLVED")
  /\ UNCHANGED <<loan, plans, cutOffs>>

(* Whatever the loan was before, and whatever its other cases are.         *)
Resolve(c) ==
  /\ cases[c] \in {"OPEN", "IN_WORKOUT", "CHARGED_OFF"}
  /\ CaseBecomes(c, "RESOLVED")
  /\ ThenLoan("ACTIVE")
  /\ UNCHANGED plans

ProposePlan(c, p) ==
  /\ cases[c] \in {"OPEN", "IN_WORKOUT"} /\ plans[p].status = "none"
  /\ plans' = [plans EXCEPT ![p] = [status |-> "PROPOSED", case |-> c]]
  /\ \/ CaseBecomes(c, "IN_WORKOUT") /\ UNCHANGED cutOffs
     \/ cutOffs < MaxCutOffs /\ cutOffs' = cutOffs + 1 /\ UNCHANGED cases
  /\ UNCHANGED loan

ActivatePlan(p) ==
  /\ plans[p].status = "PROPOSED"
  /\ plans' = [plans EXCEPT ![p].status = "ACTIVE"]
  /\ UNCHANGED <<loan, cases, cutOffs>>

(* Whatever its status: also a plan nobody approved.                       *)
CompletePlan(p) ==
  /\ plans[p].status # "none"
  /\ plans' = [plans EXCEPT ![p].status = "COMPLETED"]
  /\ UNCHANGED <<loan, cases, cutOffs>>

LoanNext ==
  \/ \E principal \in Principals, term \in Terms, dti \in {"none", "fine", "high"} :
       Apply(principal, term, dti)
  \/ \E score \in {"low", "fair", "good"} : Underwrite(score)
  \/ Disburse \/ ProcessPayment
  \/ \E c \in CaseIds : OpenCase(c) \/ LongOverdue(c) \/ ChargeOff(c) \/ Resolve(c)
  \/ \E c \in CaseIds, p \in PlanIds : ProposePlan(c, p)
  \/ \E p \in PlanIds : ActivatePlan(p) \/ CompletePlan(p)

LoanSpec == LoanInit /\ [][LoanNext]_loanVars

-----------------------------------------------------------------------------
LoanStates == {"none", "UNDER_REVIEW", "APPROVED", "DECLINED", "ACTIVE", "DELINQUENT",
               "DEFAULT", "CHARGED_OFF", "PAID_OFF"}

(* The rows hold what their entities say.                                  *)
LoanTypeOK ==
  /\ loan \in [status : LoanStates, principal : Nat, term : Nat \ {0},
               dti : {"none", "fine", "high"}, balance : Nat, paid : Int]
  /\ cases \in [CaseIds -> {"none", "OPEN", "IN_WORKOUT", "CHARGED_OFF", "RESOLVED"}]
  /\ plans \in [PlanIds -> [status : {"none"}]
                     \cup [status : {"PROPOSED", "ACTIVE", "COMPLETED"}, case : CaseIds]]
  /\ cutOffs \in 0..MaxCutOffs

(* The schedule of a loan repays it exactly: no principal part is negative, *)
(* together they are the principal, and the last one leaves nothing.       *)
ScheduleRepays ==
  loan.status # "none" =>
    LET parts == PrincipalParts(loan.principal, loan.term) IN
    /\ \A i \in DOMAIN parts : parts[i] >= 0
    /\ SumOf(parts) = loan.principal
    /\ Balances(loan.principal, loan.term)[loan.term] = 0

(* Not promised but so, against the comment on disburse (loans.service.ts, *)
(* line 114): no loan is ever funded or repaid, because the journal of a   *)
(* disbursement has one leg and is refused.  A loan becomes ACTIVE all the *)
(* same, through the resolution of a case, and then without a schedule.    *)
NothingFunded == loan.paid = -1 /\ loan.balance = loan.principal

(* A loan never has two OPEN cases when its calls follow each other.       *)
OneOpenCase ==
  \A c, d \in CaseIds : cases[c] = "OPEN" /\ cases[d] = "OPEN" => c = d

(* A loan in trouble has a case that is not resolved, as long as no call   *)
(* has been cut off between its two updates: then the retry of a resolve   *)
(* is refused and the loan is left behind.                                 *)
TroubleHasCase ==
  cutOffs = 0 /\ loan.status \in {"DELINQUENT", "DEFAULT", "CHARGED_OFF"} =>
    \E c \in CaseIds : cases[c] \notin {"none", "RESOLVED"}

(* What a loan and its collection keep to.                                 *)
LoanDeskSound == ScheduleRepays /\ OneOpenCase /\ TroubleHasCase
=============================================================================
