-------------------------- MODULE SecuritiesLending --------------------------
(***************************************************************************)
(* SecuritiesLendingService of the prime broker for one security: the      *)
(* loans, the buy-in notices, the manufactured payments and the entry of   *)
(* the availability board (SLAB), all held in memory.  Every call runs to  *)
(* its end.  Collateral is proportional to the shares on loan, so income   *)
(* is counted in share-days: shares times days since the loan was opened.  *)
(*                                                                         *)
(* No operation changes the status of a lending agreement, and the call    *)
(* names an existing loan or notice.                                       *)
(***************************************************************************)
EXTENDS Integers, FiniteSets, Functions

CONSTANTS
  Loans, BuyIns, CorpActions,
  Seed,         \* shares the board starts with
  LoanSizes,    \* quantities to lend, return, recall or buy in
  Listings,     \* availabilities addSLABEntry may be given
  LastLendingDay

ASSUME LendingConstants ==
  /\ IsFiniteSet(Loans)
  /\ Seed \in Nat /\ LoanSizes \subseteq Nat /\ Listings \subseteq Nat /\ LastLendingDay \in Nat

VARIABLES
  slab,        \* the board entry: [avail, onLoan]
  secLoan,     \* loans by id: [status, qty, opened, income, recalled]
  buyIn,       \* notices by id: [status, loan, qty]
  corpAction,  \* manufactured payments by id: their status
  lendingDay,
  listed,      \* history: the shares last listed on the board
  exactBoard,  \* history: since then, no loan beyond the available shares, and
               \* no buy-in of another quantity than the loan's
  earned       \* history: share-days each loan has been outstanding

lendingVars == <<slab, secLoan, buyIn, corpAction, lendingDay, listed, exactBoard, earned>>

NoLoan == [status |-> "none", qty |-> 0, opened |-> 0, income |-> 0, recalled |-> FALSE]

LendingInit ==
  /\ slab = [avail |-> Seed, onLoan |-> 0]
  /\ secLoan = [l \in Loans |-> NoLoan]
  /\ buyIn = [b \in BuyIns |-> [status |-> "none", qty |-> 0]]
  /\ corpAction = [c \in CorpActions |-> "none"]
  /\ lendingDay = 0
  /\ listed = Seed /\ exactBoard = TRUE
  /\ earned = [l \in Loans |-> 0]

NonNegative(n) == IF n < 0 THEN 0 ELSE n

(* updateSLAB in its two directions.                                       *)
Lent(entry, d) == [avail |-> NonNegative(entry.avail - d), onLoan |-> entry.onLoan + d]

GivenBack(entry, d) == [avail |-> entry.avail + d, onLoan |-> NonNegative(entry.onLoan - d)]

(* accrueIncome: what the quantity on loan now has earned since the opening. *)
Accrued(loan) ==
  IF loan.status \in {"OPEN", "PARTIAL_RETURN"} THEN loan.qty * (lendingDay - loan.opened) ELSE 0

-----------------------------------------------------------------------------
OpenLoan(l, d) ==
  /\ secLoan[l].status = "none"
  /\ secLoan' = [secLoan EXCEPT ![l] =
                   [NoLoan EXCEPT !.status = "OPEN", !.qty = d, !.opened = lendingDay]]
  /\ slab' = Lent(slab, d)
  /\ exactBoard' = (exactBoard /\ d <= slab.avail)
  /\ UNCHANGED <<buyIn, corpAction, lendingDay, listed, earned>>

(* Mutant: a loan that was bought in can still be returned.                *)
ReturnAny(l, d) ==
  LET left == secLoan[l].qty - d IN
  /\ secLoan[l].status # "none"
  /\ d <= secLoan[l].qty
  /\ secLoan' = [secLoan EXCEPT ![l].qty = left,
                   ![l].status = IF left = 0 THEN "RETURNED" ELSE "PARTIAL_RETURN",
                   ![l].income = @ + Accrued(secLoan[l])]
  /\ slab' = GivenBack(slab, d)
  /\ UNCHANGED <<buyIn, corpAction, lendingDay, listed, exactBoard, earned>>

ReturnLoan(l, d) ==
  LET left == secLoan[l].qty - d IN
  /\ secLoan[l].status \in {"OPEN", "PARTIAL_RETURN", "RECALLED"}
  /\ d <= secLoan[l].qty
  /\ secLoan' = [secLoan EXCEPT ![l].qty = left,
                   ![l].status = IF left = 0 THEN "RETURNED" ELSE "PARTIAL_RETURN",
                   ![l].income = @ + Accrued(secLoan[l])]
  /\ slab' = GivenBack(slab, d)
  /\ UNCHANGED <<buyIn, corpAction, lendingDay, listed, exactBoard, earned>>

(* recallQuantity stays set on the loan, and nothing else reads it.        *)
RecallLoan(l, d) ==
  /\ secLoan[l].status \in {"OPEN", "PARTIAL_RETURN"}
  /\ d <= secLoan[l].qty
  /\ secLoan' = [secLoan EXCEPT ![l].status = "RECALLED", ![l].recalled = TRUE]
  /\ UNCHANGED <<slab, buyIn, corpAction, lendingDay, listed, exactBoard, earned>>

(* A notice for any quantity of a loan of any status.                      *)
InitiateBuyIn(b, l, d) ==
  /\ buyIn[b].status = "none" /\ secLoan[l].status # "none"
  /\ buyIn' = [buyIn EXCEPT ![b] = [status |-> "PENDING", loan |-> l, qty |-> d]]
  /\ UNCHANGED <<slab, secLoan, corpAction, lendingDay, listed, exactBoard, earned>>

ExecuteBuyIn(b) ==
  /\ buyIn[b].status = "PENDING"
  /\ LET l == buyIn[b].loan IN
     /\ secLoan' = [secLoan EXCEPT ![l].status = "BOUGHT_IN"]
     /\ slab' = GivenBack(slab, buyIn[b].qty)
     /\ exactBoard' = (/\ exactBoard
                       /\ secLoan[l].status # "BOUGHT_IN"
                       /\ buyIn[b].qty = secLoan[l].qty)
  /\ buyIn' = [buyIn EXCEPT ![b].status = "EXECUTED"]
  /\ UNCHANGED <<corpAction, lendingDay, listed, earned>>

RecordCorporateAction(c) ==
  /\ corpAction[c] = "none" /\ \E l \in Loans : secLoan[l].status # "none"
  /\ corpAction' = [corpAction EXCEPT ![c] = "PENDING"]
  /\ UNCHANGED <<slab, secLoan, buyIn, lendingDay, listed, exactBoard, earned>>

ManufacturePayment(c) ==
  /\ corpAction[c] = "PENDING"
  /\ corpAction' = [corpAction EXCEPT ![c] = "MANUFACTURED"]
  /\ UNCHANGED <<slab, secLoan, buyIn, lendingDay, listed, exactBoard, earned>>

(* Whatever the status: a payment nobody made can be settled.              *)
SettleCorporateAction(c) ==
  /\ corpAction[c] # "none"
  /\ corpAction' = [corpAction EXCEPT ![c] = "SETTLED"]
  /\ UNCHANGED <<slab, secLoan, buyIn, lendingDay, listed, exactBoard, earned>>

OnLoan(l) == IF secLoan[l].status = "BOUGHT_IN" THEN 0 ELSE secLoan[l].qty
TotalOnLoan == FoldFunction(+, 0, [l \in Loans |-> OnLoan(l)])

(* The entry is replaced, and with it what the board knew to be on loan.   *)
AddSLABEntry(n) ==
  /\ slab' = [avail |-> n, onLoan |-> 0]
  /\ listed' = n
  /\ exactBoard' = (TotalOnLoan = 0)
  /\ UNCHANGED <<secLoan, buyIn, corpAction, lendingDay, earned>>

NextLendingDay ==
  /\ lendingDay < LastLendingDay
  /\ lendingDay' = lendingDay + 1
  /\ earned' = [l \in Loans |-> earned[l] + OnLoan(l)]
  /\ UNCHANGED <<slab, secLoan, buyIn, corpAction, listed, exactBoard>>

BookNext ==
  \/ \E l \in Loans, d \in LoanSizes : OpenLoan(l, d) \/ ReturnLoan(l, d) \/ RecallLoan(l, d)
  \/ \E b \in BuyIns, l \in Loans, d \in LoanSizes : InitiateBuyIn(b, l, d)
  \/ \E b \in BuyIns : ExecuteBuyIn(b)
  \/ \E n \in Listings : AddSLABEntry(n)
  \/ NextLendingDay

(* A corporate action only asks whether its loan exists.                   *)
PaymentNext ==
  \E c \in CorpActions :
    RecordCorporateAction(c) \/ ManufacturePayment(c) \/ SettleCorporateAction(c)

LendingNext == BookNext \/ PaymentNext

LendingSpec == LendingInit /\ [][LendingNext]_lendingVars

-----------------------------------------------------------------------------
LoanStatuses == {"none", "OPEN", "PARTIAL_RETURN", "RECALLED", "RETURNED", "BOUGHT_IN"}

(* The stores hold what their TypeScript types say.                        *)
LendingTypeOK ==
  /\ slab \in [avail : Nat, onLoan : Nat]
  /\ secLoan \in [Loans -> [status : LoanStatuses, qty : Nat, opened : Nat, income : Nat,
                         recalled : BOOLEAN]]
  /\ buyIn \in [BuyIns -> [status : {"none"}, qty : {0}]
                      \cup [status : {"PENDING", "EXECUTED"}, loan : Loans, qty : Nat]]
  /\ corpAction \in [CorpActions -> {"none", "PENDING", "MANUFACTURED", "SETTLED"}]
  /\ lendingDay \in Nat /\ listed \in Nat /\ exactBoard \in BOOLEAN
  /\ earned \in [Loans -> Nat]

(* However loans, returns, recalls and buy-ins follow each other, the      *)
(* board never loses a share it listed: it shows them as available or as   *)
(* on loan (updateSLAB clamps both quantities at zero).                    *)
BoardKeepsShares == slab.avail + slab.onLoan >= listed

(* As long as nobody lends more than the board has, re-lists it under open *)
(* loans or buys in another quantity than the loan's, the board shows as   *)
(* on loan exactly the outstanding loans, and no share is shown twice.     *)
BoardMatchesLoans ==
  exactBoard => slab.onLoan = TotalOnLoan /\ slab.avail + slab.onLoan = listed

(* totalFeeIncome of a loan returned in full and never recalled is at least *)
(* the share-days lent: each return accrues on all the shares still out,   *)
(* from the opening of the loan on (and so counts earlier days again).     *)
IncomeIsComplete ==
  \A l \in Loans :
    secLoan[l].status = "RETURNED" /\ ~secLoan[l].recalled => secLoan[l].income >= earned[l]

(* The lending book keeps its shares and its income: nothing listed gets   *)
(* lost from the board, the board shows the open loans, and no day lent    *)
(* goes unpaid.                                                            *)
LendingSound == BoardKeepsShares /\ BoardMatchesLoans /\ IncomeIsComplete
=============================================================================
