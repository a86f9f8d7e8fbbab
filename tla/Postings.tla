------------------------------ MODULE Postings ------------------------------
(***************************************************************************)
(* The pure part of the ledger: the legs of a journal, the balance check   *)
(* JournalService makes before it touches the database, the legs of a      *)
(* reversal, and what the two triggers of the initial migration do to an   *)
(* account row.  Amounts are integers (NUMERIC(20,6) in micro-units).      *)
(*                                                                         *)
(* A leg is a record [account, type, amount, currency]; an account row is  *)
(* [balance, avail, hold, overdraft].                                      *)
(***************************************************************************)
EXTENDS Integers, Sequences, Functions

EntryTypes == {"DEBIT", "CREDIT"}

SumOf(f) == FoldFunction(+, 0, f)

(* validateBalance: total per currency of one side of the legs.            *)
Debits(legs, c) ==
  SumOf([i \in DOMAIN legs |->
           IF legs[i].type = "DEBIT" /\ legs[i].currency = c
           THEN legs[i].amount ELSE 0])

Credits(legs, c) ==
  SumOf([i \in DOMAIN legs |->
           IF legs[i].type = "CREDIT" /\ legs[i].currency = c
           THEN legs[i].amount ELSE 0])

Currencies(legs) == {legs[i].currency : i \in DOMAIN legs}

Balanced(legs) == \A c \in Currencies(legs) : Debits(legs, c) = Credits(legs, c)

(* Mutant: a reversal that credits every account.                          *)
AlwaysCredit(type) == "CREDIT"

Opposite(type) == IF type = "DEBIT" THEN "CREDIT" ELSE "DEBIT"

(* reverseJournal: the same legs with the two sides exchanged.             *)
Mirror(legs) == [i \in DOMAIN legs |-> [legs[i] EXCEPT !.type = Opposite(@)]]

Signed(leg) == IF leg.type = "CREDIT" THEN leg.amount ELSE -leg.amount

(* What the legs do to one account: sum(CREDIT) - sum(DEBIT).              *)
Effect(legs, a) ==
  SumOf([i \in DOMAIN legs |->
           IF legs[i].account = a THEN Signed(legs[i]) ELSE 0])

(* Mutant: the trigger forgets what is held.                               *)
AfterEntryUnheld(row, sum) ==
  [balance |-> sum, avail |-> sum + row.overdraft,
   hold |-> row.hold, overdraft |-> row.overdraft]

(* trg_update_account_balance, given the sum it read.                      *)
AfterLedgerEntry(row, sum) ==
  [balance |-> sum, avail |-> sum - row.hold + row.overdraft,
   hold |-> row.hold, overdraft |-> row.overdraft]

(* UPDATE accounts SET hold_amount = h, with trg_update_available_balance_on_hold, *)
(* which recomputes the available balance only when the hold changes.      *)
AfterHoldUpdate(row, h) ==
  IF h = row.hold
  THEN row
  ELSE [balance |-> row.balance, avail |-> row.balance - h + row.overdraft,
        hold |-> h, overdraft |-> row.overdraft]

(* Both triggers keep this relation between the columns of one row.        *)
AvailableAgrees(row) == row.avail = row.balance - row.hold + row.overdraft
=============================================================================
