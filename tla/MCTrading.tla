------------------------------ MODULE MCTrading ------------------------------
(***************************************************************************)
(* A small trading desk for TLC.                                           *)
(***************************************************************************)
EXTENDS Trading

MkTicket(side, qty, portfolio) == [side |-> side, qty |-> qty, portfolio |-> portfolio]

(* A purchase and a sale in one portfolio; the sale may be filled first.   *)
PurchaseAndSale ==
  [o \in Orders |-> IF o = "o1" THEN MkTicket("BUY", 4, "p") ELSE MkTicket("SELL", 2, "p")]

(* Fills at prices whose average is not a whole unit.                       *)
OddPrices == {[qty |-> 1, price |-> 1], [qty |-> 2, price |-> 2]}
=============================================================================
