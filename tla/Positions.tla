------------------------------ MODULE Positions ------------------------------
(***************************************************************************)
(* The arithmetic of PositionsService.applyExecution: what one trade does  *)
(* to the position of a portfolio in an instrument.                        *)
(*                                                                         *)
(* Quantities are integers (shares); prices, costs and profits are         *)
(* integers too, in units of the sixth decimal to which toFixed(6) rounds. *)
(* marketValue, unrealizedPnl, totalPnl and dayPnl only follow from these  *)
(* and from market prices, and are left out.                               *)
(***************************************************************************)
EXTENDS Integers

CONSTANT NoPosition   \* there is no row for the portfolio

Magnitude(n) == IF n < 0 THEN -n ELSE n

Smaller(m, n) == IF m < n THEN m ELSE n

(* n / d as toFixed rounds it: to the nearest unit, halves up.             *)
Rounded(n, d) == (2 * n + d) \div (2 * d)

(* Every side but BUY is treated as a sale.                                *)
IsBuy(trade) == trade.side = "BUY"

Opened(trade) ==
  [qty |-> IF IsBuy(trade) THEN trade.qty ELSE -trade.qty,
   avgCost |-> trade.price, costBasis |-> trade.qty * trade.price, realized |-> 0]

(* The cost basis comes from the unrounded average, so it is the full cost. *)
AddedToLong(pos, trade) ==
  LET cost == pos.qty * pos.avgCost + trade.qty * trade.price
  IN [qty |-> pos.qty + trade.qty, avgCost |-> Rounded(cost, pos.qty + trade.qty),
      costBasis |-> cost, realized |-> pos.realized]

CoveredShort(pos, trade) ==
  LET qty == pos.qty + trade.qty
      covered == Smaller(trade.qty, -pos.qty)
      avg == IF trade.qty > -pos.qty THEN trade.price ELSE pos.avgCost
  IN [qty |-> qty, avgCost |-> avg, costBasis |-> Magnitude(qty) * avg,
      realized |-> pos.realized + covered * (pos.avgCost - trade.price)]

(* Mutant: the profit is realized on the whole trade at the new average.   *)
SoldAtNewCost(pos, trade) ==
  LET qty == pos.qty - trade.qty
      avg == IF qty = 0 THEN 0 ELSE pos.avgCost
  IN [qty |-> qty, avgCost |-> avg, costBasis |-> Magnitude(qty) * avg,
      realized |-> pos.realized + trade.qty * (trade.price - avg)]

Sold(pos, trade) ==
  LET qty == pos.qty - trade.qty
      sold == Smaller(trade.qty, Magnitude(pos.qty))
      avg == IF qty = 0 THEN 0 ELSE pos.avgCost
  IN [qty |-> qty, avgCost |-> avg, costBasis |-> Magnitude(qty) * avg,
      realized |-> pos.realized + sold * (trade.price - pos.avgCost)]

ApplyTrade(pos, trade) ==
  IF pos = NoPosition THEN Opened(trade)
  ELSE IF ~IsBuy(trade) THEN Sold(pos, trade)
  ELSE IF pos.qty >= 0 THEN AddedToLong(pos, trade) ELSE CoveredShort(pos, trade)
=============================================================================
