------------------------------ MODULE MCLedger ------------------------------
(***************************************************************************)
(* Small ledgers for TLC.                                                  *)
(***************************************************************************)
EXTENDS Ledger

MkLeg(a, t, n, c) == [account |-> a, type |-> t, amount |-> n, currency |-> c]

Transfer(from, to, n) == <<MkLeg(from, "DEBIT", n, "USD"), MkLeg(to, "CREDIT", n, "USD")>>

(* Two transfers in opposite directions: they lock the accounts in         *)
(* opposite orders.  And what the payment rails post: a single leg.        *)
OppositeTransfers ==
  {Transfer("a", "b", 2), Transfer("b", "a", 1), <<MkLeg("a", "DEBIT", 1, "USD")>>}

(* One DTO per way a posting can end: balanced, one-legged, balanced only  *)
(* across currencies, a zero amount, an account that does not exist, the   *)
(* same account twice.                                                     *)
VariedPostings ==
  {Transfer("a", "b", 2), Transfer("b", "a", 0), Transfer("a", "ghost", 1),
   Transfer("a", "a", 1), <<MkLeg("a", "DEBIT", 1, "USD")>>,
   <<MkLeg("a", "DEBIT", 1, "USD"), MkLeg("b", "CREDIT", 1, "EUR")>>}

OneTransfer == {Transfer("a", "b", 2)}

(* AccountsService.create leaves overdraft_limit at its default.           *)
DefaultLimit == [a \in Accounts |-> 0]

(* Another service holds 1 on one account, or nothing anywhere.            *)
HeldOnA == [a \in Accounts |-> IF a = "a" THEN {1} ELSE {}]
NothingHeld == [a \in Accounts |-> {0}]
=============================================================================
