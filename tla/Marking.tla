------------------------------ MODULE Marking ------------------------------
(***************************************************************************)
(* PositionsService.markToMarket against the fills of one portfolio: it    *)
(* reads all positions, then looks up one instrument after another and     *)
(* writes the market figures of its row, computed from what it read at     *)
(* first.  A fill is one step here: it locks the row, and Trading shows    *)
(* that rows change by whole trades.  What a trade does to quantity and    *)
(* cost is in Positions; prices are in its units.                          *)
(***************************************************************************)
EXTENDS Integers

CONSTANTS
  Instruments,
  FillReports,   \* fills: [side, qty, price]
  LastPrices,    \* prices an instrument may be given
  Markings,      \* calls of markToMarket that can run at the same time
  MaxFills       \* bound: fills of an instrument

ASSUME MarkingConstants ==
  /\ FillReports \subseteq [side : STRING, qty : Nat \ {0}, price : Nat]
  /\ LastPrices \subseteq Nat /\ MaxFills \in Nat

NoRow == [qty |-> 0, costBasis |-> -1]   \* there is no position
NoPrice == -1                            \* instruments.last_price is null

Lots == INSTANCE Positions WITH NoPosition <- NoRow

VARIABLES
  lastPrice,    \* instruments.last_price
  held,         \* positions rows: [cost, value, unrealized, total, day, mark]
  marking,      \* per call: the rows it has read, those left, the one in hand
  since,        \* history: per instrument, its fills, day and mark at the last one
  stale         \* history: [figures, day]: rows marked from before a fill

markingVars == <<lastPrice, held, marking, since, stale>>

Resting == [left |-> {}, on |-> "none", price |-> 0, rows |-> <<>>, fills |-> <<>>]
Unheld == [cost |-> NoRow, value |-> 0, unrealized |-> 0, total |-> 0, day |-> 0, mark |-> 0]

MarkingInit ==
  /\ lastPrice = [i \in Instruments |-> NoPrice]
  /\ held = [i \in Instruments |-> Unheld]
  /\ marking = [c \in Markings |-> Resting]
  /\ since = [i \in Instruments |-> [fills |-> 0, day |-> 0, mark |-> 0]]
  /\ stale = [figures |-> {}, day |-> {}]

Owned == {i \in Instruments : held[i].cost # NoRow}

(* The market figures of a position at a price; a short one earns when its *)
(* value falls, a flat one counts as long.                                 *)
Value(cost, price) == Lots!Magnitude(cost.qty) * price
Unrealized(cost, price) ==
  IF cost.qty >= 0 THEN Value(cost, price) - cost.costBasis
  ELSE cost.costBasis - Value(cost, price)

Figures(cost, price, day) ==
  [cost |-> cost, value |-> Value(cost, price), unrealized |-> Unrealized(cost, price),
   total |-> cost.realized + Unrealized(cost, price), day |-> day, mark |-> price]

-----------------------------------------------------------------------------
UpdatePrice(i, price) ==
  /\ lastPrice' = [lastPrice EXCEPT ![i] = price]
  /\ UNCHANGED <<held, marking, since, stale>>

(* applyExecution writes all figures from the row it has locked.           *)
ApplyExecution(i, trade) ==
  LET row == held[i]
      day == IF row.cost = NoRow \/ Lots!IsBuy(trade) THEN row.day
             ELSE row.day + trade.qty * (trade.price - row.cost.avgCost)
  IN /\ since[i].fills < MaxFills
     /\ held' = [held EXCEPT ![i] =
                  Figures(Lots!ApplyTrade(row.cost, trade), trade.price, day)]
     /\ since' = [since EXCEPT ![i] =
                   [fills |-> @.fills + 1, day |-> day, mark |-> trade.price]]
     /\ stale' = [figures |-> stale.figures \ {i}, day |-> stale.day \ {i}]
     /\ UNCHANGED <<lastPrice, marking>>

ReadPositions(c) ==
  /\ marking[c].left = {} /\ Owned # {}
  /\ marking' = [marking EXCEPT ![c] =
                  [left |-> Owned, on |-> "none", price |-> 0, rows |-> held,
                   fills |-> [i \in Instruments |-> since[i].fills]]]
  /\ UNCHANGED <<lastPrice, held, since, stale>>

(* The call is through with one position: it rests when none is left.      *)
Without(call, i) ==
  IF call.left = {i} THEN Resting ELSE [call EXCEPT !.left = @ \ {i}, !.on = "none", !.price = 0]

(* A position whose instrument has no price is passed over.                *)
FindInstrument(c, i) ==
  /\ i \in marking[c].left /\ marking[c].on = "none"
  /\ marking' = [marking EXCEPT ![c] =
                  IF lastPrice[i] = NoPrice THEN Without(@, i)
                  ELSE [@ EXCEPT !.on = i, !.price = lastPrice[i]]]
  /\ UNCHANGED <<lastPrice, held, since, stale>>

(* Quantity, cost and realized profit stay what they are; all the market   *)
(* figures, the total too, follow from the row as it was read.             *)
WriteMark(c) ==
  LET call == marking[c]
      i == call.on
      read == call.rows[i]
      day == read.day + Lots!Magnitude(read.cost.qty) * (call.price - read.mark)
      crossed == call.fills[i] # since[i].fills
  IN /\ i # "none"
     /\ held' = [held EXCEPT ![i] = [Figures(read.cost, call.price, day) EXCEPT !.cost = held[i].cost]]
     /\ marking' = [marking EXCEPT ![c] = Without(@, i)]
     /\ stale' = [figures |-> IF crossed THEN stale.figures \cup {i} ELSE stale.figures \ {i},
                  day |-> IF crossed THEN stale.day \cup {i} ELSE stale.day]
     /\ UNCHANGED <<lastPrice, since>>

MarkingNext ==
  \/ \E i \in Instruments :
       \/ \E price \in LastPrices : UpdatePrice(i, price)
       \/ \E trade \in FillReports : ApplyExecution(i, trade)
  \/ \E c \in Markings :
       ReadPositions(c) \/ WriteMark(c) \/ \E i \in Instruments : FindInstrument(c, i)

MarkingSpec == MarkingInit /\ [][MarkingNext]_markingVars

-----------------------------------------------------------------------------
(* Rows, prices and calls hold what their types say.                       *)
MarkingTypeOK ==
  /\ lastPrice \in [Instruments -> LastPrices \cup {NoPrice}]
  /\ \A i \in Owned : held[i].cost \in [qty : Int, avgCost : Nat, costBasis : Nat, realized : Int]
  /\ \A c \in Markings : marking[c].left \subseteq Owned /\ marking[c].on \in marking[c].left \cup {"none"}

(* The market figures of a row agree with the quantity, the cost and the   *)
(* realized profit it has, whatever marks overlap, unless its last writer  *)
(* is a mark that a fill has overtaken; the next undisturbed mark and the  *)
(* next fill put them right.                                               *)
FiguresAgree ==
  \A i \in Owned \ stale.figures :
    LET row == held[i] IN
    /\ row.value = Lots!Magnitude(row.cost.qty) * row.mark
    /\ row.total = row.cost.realized + row.unrealized
    /\ row.value = row.cost.costBasis + (IF row.cost.qty < 0 THEN -1 ELSE 1) * row.unrealized

(* However often and by how many overlapping calls a position is marked,   *)
(* the result of the day counts each price change since the last fill      *)
(* once.  (That of a short position with the wrong sign; and what a mark   *)
(* that a fill has overtaken leaves out, no later mark brings back.)       *)
DayCountsOnce ==
  \A i \in Owned \ stale.day :
    held[i].day = since[i].day + Lots!Magnitude(held[i].cost.qty) * (held[i].mark - since[i].mark)

(* Marks and fills of one portfolio leave each other's figures in order.   *)
MarksSound == FiguresAgree /\ DayCountsOnce
=============================================================================
