---------------------------- MODULE TradingProofs ----------------------------
(***************************************************************************)
(* Theorems about Trading, for every set of orders, requests, portfolios   *)
(* and fills, every pool size and any number of failing statements.        *)
(***************************************************************************)
EXTENDS Trading, Sums, TLAPS

(* What the assumptions say of the ticket of an order.                     *)
LEMMA TicketTyped ==
  ASSUME NEW o \in Orders
  PROVE  /\ Ticket[o].side \in Sides
         /\ Ticket[o].qty \in Nat /\ Ticket[o].qty > 0
         /\ Ticket[o].portfolio \in Portfolios \cup {NoPortfolio}
BY TradingConstants

(* Costs are products of quantities and prices.                            *)
LEMMA ProductTyped ==
  /\ \A m, n \in Nat : m * n \in Nat
  /\ \A m, n \in Int : m * n \in Int
OBVIOUS

(* toFixed keeps a natural number natural.                                 *)
LEMMA RoundedTyped ==
  ASSUME NEW n \in Nat, NEW d \in Nat, d > 0
  PROVE  Rounded(n, d) \in Nat
<1>1. (2 * n + d) \in Nat /\ (2 * d) \in Nat /\ 2 * d > 0
  OBVIOUS
<1>2. \A k, e \in Nat : e > 0 => k \div e \in Nat
  OBVIOUS
<1> QED
  BY <1>1, <1>2 DEF Rounded

(* A trade turns a well-typed position into a well-typed position: average *)
(* costs and cost bases are never negative, on either side of zero.        *)
LEMMA ApplyTradeTyped ==
  ASSUME NEW pos \in Position \cup {NoPosition},
         NEW trade \in [side : Sides, qty : Nat, price : Nat], trade.qty > 0
  PROVE  ApplyTrade(pos, trade) \in Position
<1> USE DEF Position
<1>1. trade.qty \in Nat /\ trade.price \in Nat
  OBVIOUS
<1>2. CASE pos = NoPosition
  <2>1. trade.qty * trade.price \in Nat
    BY <1>1, ProductTyped
  <2> QED
    BY <1>1, <1>2, <2>1 DEF ApplyTrade, Opened
<1>3. CASE pos # NoPosition
  <2>1. /\ pos \in Position /\ pos.qty \in Int /\ pos.avgCost \in Nat
        /\ pos.costBasis \in Nat /\ pos.realized \in Int
    BY <1>3
  <2>2. \A n \in Int : Magnitude(n) \in Nat
    BY DEF Magnitude
  <2>3. \A m, n \in Int : Smaller(m, n) \in Int
    BY DEF Smaller
  <2>4. Sold(pos, trade) \in Position
    <3> DEFINE qty == pos.qty - trade.qty
               sold == Smaller(trade.qty, Magnitude(pos.qty))
               avg == IF qty = 0 THEN 0 ELSE pos.avgCost
    <3>1. qty \in Int /\ sold \in Int /\ avg \in Nat /\ Magnitude(qty) \in Nat
      <4>1. qty \in Int /\ avg \in Nat
        BY <1>1, <2>1
      <4>2. Magnitude(pos.qty) \in Int
        BY <2>1, <2>2
      <4>3. sold \in Int
        BY <1>1, <2>3, <4>2
      <4>4. Magnitude(qty) \in Nat
        BY <2>2, <4>1
      <4> QED
        BY <4>1, <4>3, <4>4
    <3>2. Magnitude(qty) * avg \in Nat /\ sold * (trade.price - pos.avgCost) \in Int
      <4>1. trade.price - pos.avgCost \in Int
        BY <1>1, <2>1
      <4> HIDE DEF qty, sold, avg
      <4> QED
        BY <3>1, <4>1, ProductTyped
    <3> HIDE DEF qty, sold, avg
    <3>3. [qty |-> qty, avgCost |-> avg, costBasis |-> Magnitude(qty) * avg,
           realized |-> pos.realized + sold * (trade.price - pos.avgCost)] \in Position
      BY <2>1, <3>1, <3>2
    <3> QED
      BY <3>3 DEF Sold, qty, sold, avg
  <2>5. CASE pos.qty >= 0 /\ IsBuy(trade)
    <3> DEFINE cost == pos.qty * pos.avgCost + trade.qty * trade.price
    <3>1. cost \in Nat
      <4>1. pos.qty * pos.avgCost \in Nat /\ trade.qty * trade.price \in Nat
        BY <1>1, <2>1, <2>5, ProductTyped
      <4> QED
        BY <4>1
    <3>2. pos.qty + trade.qty \in Nat /\ pos.qty + trade.qty > 0
      BY <1>1, <2>1, <2>5
    <3>3. Rounded(cost, pos.qty + trade.qty) \in Nat
      BY <3>1, <3>2, RoundedTyped
    <3> HIDE DEF cost
    <3>4. [qty |-> pos.qty + trade.qty, avgCost |-> Rounded(cost, pos.qty + trade.qty),
           costBasis |-> cost, realized |-> pos.realized] \in Position
      BY <2>1, <3>1, <3>2, <3>3
    <3> QED
      BY <1>3, <2>5, <3>4 DEF ApplyTrade, AddedToLong, cost
  <2>6. CASE pos.qty < 0 /\ IsBuy(trade)
    <3> DEFINE qty == pos.qty + trade.qty
               covered == Smaller(trade.qty, -pos.qty)
               avg == IF trade.qty > -pos.qty THEN trade.price ELSE pos.avgCost
    <3>1. qty \in Int /\ covered \in Int /\ avg \in Nat /\ Magnitude(qty) \in Nat
      <4>1. qty \in Int /\ avg \in Nat /\ -pos.qty \in Int
        BY <1>1, <2>1
      <4>2. covered \in Int
        BY <1>1, <4>1 DEF Smaller
      <4>3. Magnitude(qty) \in Nat
        BY <2>2, <4>1
      <4> QED
        BY <4>1, <4>2, <4>3
    <3>2. Magnitude(qty) * avg \in Nat /\ covered * (pos.avgCost - trade.price) \in Int
      <4>1. pos.avgCost - trade.price \in Int
        BY <1>1, <2>1
      <4> HIDE DEF qty, covered, avg
      <4> QED
        BY <3>1, <4>1, ProductTyped
    <3> HIDE DEF qty, covered, avg
    <3>3. [qty |-> qty, avgCost |-> avg, costBasis |-> Magnitude(qty) * avg,
           realized |-> pos.realized + covered * (pos.avgCost - trade.price)] \in Position
      BY <2>1, <3>1, <3>2
    <3>4. CoveredShort(pos, trade) \in Position
      BY <3>3 DEF CoveredShort, qty, covered, avg
    <3> QED
      BY <1>3, <2>1, <2>6, <3>4 DEF ApplyTrade
  <2> QED
    BY <1>3, <2>1, <2>4, <2>5, <2>6 DEF ApplyTrade
<1> QED
  BY <1>2, <1>3

-----------------------------------------------------------------------------
(* Type correctness.                                                       *)

FillStages == {"execute", "applyRead", "applyWrite", "position", "lock", "positionWrite", "commit"}
PositionStages == {"position", "lock", "positionWrite"}
Stages == {"idle", "cancel", "modify"} \cup FillStages \cup Over

(* What a request has established by the time it reaches a statement: a    *)
(* fill is positive, only a fill with a portfolio reaches the position,    *)
(* and a modification asks for more than it saw filled.                    *)
WellFormed ==
  \A r \in InFlight :
    /\ req[r].order \in Orders
    /\ pc[r] \in FillStages => req[r].qty > 0
    /\ pc[r] \in PositionStages => Portfolio(r) \in Portfolios
    /\ pc[r] = "modify" => seen[r].cum < req[r].qty

(* The rows of the orders table.                                           *)
OrderRow == [status : {"absent", "NEW", "REJECTED", "PARTIALLY_FILLED", "FILLED", "CANCELLED"},
             qty : Nat, cum : Nat, leaves : Nat]

(* A request starts.                                                       *)
Enters(r, o) ==
  \/ CancelRead(r, o)
  \/ \E qty \in NewQtys : ModifyRead(r, o, qty)
  \/ \E fill \in Fills : FillRead(r, o, fill)

(* Only a request that has not started yet changes what it is asked.       *)
LEMMA StartStep ==
  ASSUME TypeOK, NEW r \in Requests, NEW kind \in {"fill", "cancel", "modify"},
         NEW o \in Orders, NEW qty \in Nat, NEW price \in Nat,
         Start(r, kind, o, qty, price),
         NEW next \in Stages, Goto(r, next)
  PROVE  /\ TypeOK'
         /\ req'[r] = [kind |-> kind, order |-> o, qty |-> qty, price |-> price]
         /\ seen'[r].qty = order[o].qty /\ seen'[r].cum = order[o].cum
         /\ pc'[r] = next
         /\ \A q \in Requests : q # r => /\ pc'[q] = pc[q] /\ req'[q] = req[q]
                                        /\ seen'[q] = seen[q]
<1>1. order[o].qty \in Nat /\ order[o].cum \in Nat
  BY DEF TypeOK
<1>2. pc' \in [Requests -> Stages] /\ pc'[r] = next
  BY DEF TypeOK, Goto, Stages, FillStages
<1>3. /\ req' \in [Requests -> [kind : {"none", "fill", "cancel", "modify"},
                                order : Orders \cup {NoOrder}, qty : Nat, price : Nat]]
      /\ req'[r] = [kind |-> kind, order |-> o, qty |-> qty, price |-> price]
  BY DEF TypeOK, Start
<1>4. /\ seen' \in [Requests -> [qty : Nat, cum : Nat, position : Position \cup {NoPosition}]]
      /\ seen'[r].qty = order[o].qty /\ seen'[r].cum = order[o].cum
  BY <1>1 DEF TypeOK, Start
<1>5. \A q \in Requests : q # r => pc'[q] = pc[q] /\ req'[q] = req[q] /\ seen'[q] = seen[q]
  BY DEF TypeOK, Start, Goto
<1>6. TypeOK'
  BY <1>2, <1>3, <1>4 DEF TypeOK, Start, Stages, FillStages
<1> QED
  BY <1>2, <1>3, <1>4, <1>5, <1>6

(* A request that only moves on, or whose statement fails.                 *)
LEMMA MoveStep ==
  ASSUME TypeOK, NEW r \in Requests, NEW next \in Stages, Goto(r, next)
  PROVE  /\ pc' \in [Requests -> Stages] /\ pc'[r] = next
         /\ \A q \in Requests : q # r => pc'[q] = pc[q]
BY DEF TypeOK, Goto, Stages, FillStages

(* The types survive every step.                                           *)
LEMMA TypeStep == TypeOK /\ WellFormed /\ [Next]_vars => TypeOK'
<1> SUFFICES ASSUME TypeOK, WellFormed, [Next]_vars PROVE TypeOK'
  OBVIOUS
<1>1. ASSUME NEW o \in Orders, PlaceCheck(o) PROVE TypeOK'
  BY <1>1 DEF TypeOK, PlaceCheck
<1>2. ASSUME NEW o \in Orders, PlaceSave(o) PROVE TypeOK'
  BY <1>2, TicketTyped DEF TypeOK, PlaceSave
<1>3. ASSUME NEW r \in Requests, NEW o \in Orders, CancelRead(r, o) PROVE TypeOK'
  <2>1. PICK next \in {"cancel", "refused"} : Goto(r, next)
    BY <1>3 DEF CancelRead
  <2> QED
    BY <1>3, <2>1, StartStep DEF CancelRead, Stages, Over
<1>4. ASSUME NEW r \in Requests, NEW o \in Orders, NEW qty \in NewQtys, ModifyRead(r, o, qty)
      PROVE  TypeOK'
  <2>1. PICK next \in {"modify", "refused"} : Goto(r, next)
    BY <1>4 DEF ModifyRead
  <2>2. qty \in Nat
    BY TradingConstants
  <2> QED
    BY <1>4, <2>1, <2>2, StartStep DEF ModifyRead, Stages, Over
<1>5. ASSUME NEW r \in Requests, NEW o \in Orders, NEW fill \in Fills, FillRead(r, o, fill)
      PROVE  TypeOK'
  <2>1. PICK next \in {"execute", "refused"} : Goto(r, next)
    BY <1>5 DEF FillRead
  <2>2. fill.qty \in Nat /\ fill.price \in Nat
    BY TradingConstants
  <2> QED
    BY <1>5, <2>1, <2>2, StartStep DEF FillRead, Stages, FillStages, Over
<1>6. ASSUME NEW r \in Requests, Step(r) \/ Settle(r) \/ Fault(r) PROVE TypeOK'
  <2> DEFINE o == req[r].order
  <2>1. ASSUME NEW next \in Stages, Goto(r, next),
               UNCHANGED <<pool, vetted, order, position, req, seen, tape, faults>>
        PROVE  TypeOK'
    BY <2>1, MoveStep DEF TypeOK, Stages, FillStages
  <2>10. ASSUME NEW next \in Stages, Goto(r, next), order' \in [Orders -> OrderRow],
                UNCHANGED <<pool, vetted, position, req, seen, tape, faults>>
         PROVE  TypeOK'
    BY <2>10, MoveStep DEF TypeOK, OrderRow, Stages, FillStages
  <2>11. order \in [Orders -> OrderRow]
    BY DEF TypeOK, OrderRow
  <2>2. CASE InsertExecution(r) \/ BeginPosition(r) \/ CommitFill(r) \/ PoolTimeout(r) \/ Settle(r)
    BY <2>1, <2>2 DEF InsertExecution, BeginPosition, CommitFill, PoolTimeout, Settle, Throw,
                      Stages, FillStages, Over
  <2>3. CASE CancelWrite(r)
    <3>1. order' = [order EXCEPT ![o] = [@ EXCEPT !.status = "CANCELLED", !.leaves = 0]]
      BY <2>3, <2>11 DEF CancelWrite, OrderRow
    <3>2. order' \in [Orders -> OrderRow]
      BY <3>1, <2>11 DEF OrderRow
    <3> QED
      BY <2>3, <3>2, <2>10 DEF CancelWrite, Stages, Over
  <2>4. CASE ModifyWrite(r)
    <3>1. /\ seen[r].cum \in Nat /\ req[r].qty \in Nat /\ seen[r].cum < req[r].qty
      BY <2>4 DEF TypeOK, WellFormed, ModifyWrite, InFlight, Over
    <3>2. req[r].qty - seen[r].cum \in Nat
      BY <3>1
    <3>3. order' = [order EXCEPT ![o] = [@ EXCEPT !.qty = req[r].qty,
                                                  !.leaves = req[r].qty - seen[r].cum]]
      BY <2>4, <2>11 DEF ModifyWrite, OrderRow
    <3>4. order' \in [Orders -> OrderRow]
      BY <3>1, <3>2, <3>3, <2>11 DEF OrderRow
    <3> QED
      BY <2>4, <3>4, <2>10 DEF ModifyWrite, Stages, Over
  <2>5. CASE ApplyRead(r)
    <3>1. pc' \in [Requests -> Stages]
      BY <2>5, MoveStep DEF ApplyRead, Stages, FillStages
    <3>2. order[o].qty \in Nat /\ order[o].cum \in Nat
      BY <2>5 DEF TypeOK, WellFormed, ApplyRead, InFlight, Over
    <3>3. seen' \in [Requests -> [qty : Nat, cum : Nat, position : Position \cup {NoPosition}]]
      <4>1. seen' = [seen EXCEPT ![r] = [@ EXCEPT !.qty = order[o].qty, !.cum = order[o].cum]]
        BY <2>5 DEF TypeOK, ApplyRead
      <4> QED
        BY <4>1, <3>2 DEF TypeOK
    <3> QED
      BY <2>5, <3>1, <3>3 DEF TypeOK, ApplyRead, Stages, FillStages
  <2>6. CASE ApplyWrite(r)
    <3> DEFINE cum == seen[r].cum + req[r].qty
               leaves == seen[r].qty - cum
    <3>1. r \in InFlight /\ o \in Orders
      BY <2>6 DEF WellFormed, ApplyWrite, InFlight, Over
    <3>2. seen[r].cum \in Nat /\ req[r].qty \in Nat /\ seen[r].qty \in Nat
      BY DEF TypeOK
    <3>3. cum \in Nat /\ leaves \in Int /\ order[o].qty \in Nat
      BY <2>11, <3>1, <3>2 DEF OrderRow
    <3>4. PICK next \in {"FILLED", "PARTIALLY_FILLED"} :
            order' = [order EXCEPT ![o] =
              [status |-> next, qty |-> @.qty, cum |-> cum,
               leaves |-> IF leaves < 0 THEN 0 ELSE leaves]]
      BY <2>6 DEF ApplyWrite
    <3>5. (IF leaves < 0 THEN 0 ELSE leaves) \in Nat
      BY <3>3
    <3>6. order' \in [Orders -> OrderRow]
      <4> HIDE DEF cum, leaves
      <4> QED
        BY <2>11, <3>3, <3>4, <3>5 DEF OrderRow
    <3>7. AfterApply(r) \in Stages
      BY DEF AfterApply, Stages, FillStages
    <3> QED
      BY <2>6, <3>6, <3>7, <2>10 DEF ApplyWrite
  <2>7. CASE LockPosition(r)
    <3>1. pc' \in [Requests -> Stages]
      BY <2>7, MoveStep DEF LockPosition, Stages, FillStages
    <3>2. position[Portfolio(r)] \in Position \cup {NoPosition}
      BY <2>7 DEF TypeOK, WellFormed, LockPosition, InFlight, Over, PositionStages
    <3> QED
      BY <2>7, <3>1, <3>2 DEF TypeOK, LockPosition, Stages, FillStages
  <2>8. CASE WritePosition(r)
    <3>1. CASE Throw(r) /\ UNCHANGED <<position, tape>>
      BY <2>8, <3>1, <2>1 DEF WritePosition, Throw, Stages, Over
    <3>2. CASE ~(Throw(r) /\ UNCHANGED <<position, tape>>)
      <4> DEFINE p == Portfolio(r)
      <4>1. /\ position' = [position EXCEPT ![p] = ApplyTrade(seen[r].position, Trade(r))]
            /\ tape' = [tape EXCEPT ![p] = Append(@, Trade(r))]
            /\ Goto(r, "commit")
        BY <2>8, <3>2 DEF WritePosition
      <4>2. pc' \in [Requests -> Stages]
        BY <4>1, MoveStep DEF Stages, FillStages
      <4>3. /\ r \in InFlight /\ p \in Portfolios /\ o \in Orders
            /\ req[r].qty \in Nat /\ req[r].qty > 0 /\ req[r].price \in Nat
            /\ seen[r].position \in Position \cup {NoPosition}
        BY <2>8 DEF TypeOK, WellFormed, WritePosition, InFlight, Over, FillStages, PositionStages
      <4>4. Trade(r) \in [side : Sides, qty : Nat, price : Nat] /\ Trade(r).qty > 0
        BY <4>3, TicketTyped DEF Trade
      <4>5. ApplyTrade(seen[r].position, Trade(r)) \in Position
        BY <4>3, <4>4, ApplyTradeTyped
      <4>6. position' \in [Portfolios -> Position \cup {NoPosition}]
        BY <4>1, <4>5 DEF TypeOK
      <4>7. tape' \in [Portfolios -> Seq([side : Sides, qty : Nat, price : Nat])]
        <5> DEFINE T == [side : Sides, qty : Nat, price : Nat]
        <5>1. tape \in [Portfolios -> Seq(T)] /\ Trade(r) \in T
          BY <4>4 DEF TypeOK
        <5> HIDE DEF T
        <5>2. Append(tape[p], Trade(r)) \in Seq(T)
          BY <4>3, <5>1
        <5>3. tape' \in [Portfolios -> Seq(T)]
          BY <4>1, <5>1, <5>2
        <5> QED
          BY <5>3 DEF T
      <4> QED
        BY <2>8, <4>2, <4>6, <4>7 DEF TypeOK, WritePosition, Stages, FillStages
    <3> QED
      BY <3>1, <3>2
  <2>9. CASE Fault(r)
    <3>1. pc' \in [Requests -> Stages]
      BY <2>9, MoveStep DEF Fault, Throw, Stages, Over
    <3>2. faults' \in 0..MaxFaults
      BY <2>9, TradingConstants DEF TypeOK, Fault
    <3> QED
      BY <2>9, <3>1, <3>2 DEF TypeOK, Fault, Stages, FillStages
  <2> QED
    BY <1>6, <2>2, <2>3, <2>4, <2>5, <2>6, <2>7, <2>8, <2>9 DEF Step
<1>7. CASE UNCHANGED vars
  BY <1>7 DEF TypeOK, vars
<1> QED
  BY <1>1, <1>2, <1>3, <1>4, <1>5, <1>6, <1>7 DEF Next

(* A step of a request leaves the others where they are.                   *)
LEMMA OthersWait ==
  ASSUME TypeOK, NEW r \in Requests, Step(r) \/ Settle(r) \/ Fault(r)
  PROVE  /\ req' = req
         /\ \A q \in Requests : q # r => pc'[q] = pc[q] /\ seen'[q] = seen[q]
<1>1. req' = req
  BY DEF Step, CancelWrite, ModifyWrite, InsertExecution, ApplyRead, ApplyWrite, BeginPosition,
         LockPosition, WritePosition, CommitFill, PoolTimeout, Settle, Fault
<1>2. ASSUME NEW q \in Requests, q # r PROVE pc'[q] = pc[q]
  <2>1. PICK next : Goto(r, next)
    BY DEF Step, CancelWrite, ModifyWrite, InsertExecution, ApplyRead, ApplyWrite, BeginPosition,
           LockPosition, WritePosition, CommitFill, PoolTimeout, Settle, Fault, Throw
  <2> QED
    BY <1>2, <2>1 DEF Goto, TypeOK
<1>3. ASSUME NEW q \in Requests, q # r PROVE seen'[q] = seen[q]
  BY <1>3 DEF TypeOK, Step, CancelWrite, ModifyWrite, InsertExecution, ApplyRead, ApplyWrite,
              BeginPosition, LockPosition, WritePosition, CommitFill, PoolTimeout, Settle, Fault
<1> QED
  BY <1>1, <1>2, <1>3

(* No statement is reached without what the statements before it found.    *)
LEMMA WellFormedStep == TypeOK /\ WellFormed /\ [Next]_vars => WellFormed'
<1> SUFFICES ASSUME TypeOK, WellFormed, [Next]_vars,
                    NEW q \in Requests, q \in InFlight'
             PROVE  /\ req'[q].order \in Orders
                    /\ pc'[q] \in FillStages => req'[q].qty > 0
                    /\ pc'[q] \in PositionStages => Portfolio(q)' \in Portfolios
                    /\ pc'[q] = "modify" => seen'[q].cum < req'[q].qty
  BY DEF WellFormed, InFlight
<1> DEFINE Goal == /\ req'[q].order \in Orders
                   /\ pc'[q] \in FillStages => req'[q].qty > 0
                   /\ pc'[q] \in PositionStages => Portfolio(q)' \in Portfolios
                   /\ pc'[q] = "modify" => seen'[q].cum < req'[q].qty
<1>1. ASSUME pc'[q] = pc[q], req'[q] = req[q], seen'[q] = seen[q] PROVE Goal
  BY <1>1 DEF WellFormed, InFlight, Portfolio
<1>2. CASE UNCHANGED vars
  BY <1>1, <1>2 DEF vars
<1>3. ASSUME NEW o \in Orders, PlaceCheck(o) \/ PlaceSave(o) PROVE Goal
  BY <1>1, <1>3 DEF PlaceCheck, PlaceSave
<1>4. ASSUME NEW r \in Requests, Step(r) \/ Settle(r) \/ Fault(r) PROVE Goal
  <2>1. CASE q # r
    BY <1>1, <1>4, <2>1, OthersWait
  <2>2. CASE q = r
    <3>1. req' = req
      BY <1>4, OthersWait
    <3>2. ASSUME NEW next \in Stages, Goto(r, next) PROVE next \notin Over \cup {"idle"}
      BY <2>2, <3>2, MoveStep DEF InFlight
    <3> HIDE DEF Goal
    <3>3. Goto(r, "done") \/ Goto(r, "failed") \/ Goto(r, "recorded") \/ Goto(r, "settled") => FALSE
      BY <3>2 DEF Stages, Over
    <3>4. InsertExecution(r) \/ ApplyRead(r) \/ ApplyWrite(r) \/ BeginPosition(r)
            \/ LockPosition(r) \/ WritePosition(r)
      BY <1>4, <3>3 DEF Step, CancelWrite, ModifyWrite, CommitFill, PoolTimeout, Settle, Fault,
                        Throw
    <3>5. req[q].order \in Orders /\ req[q].qty > 0
      BY <2>2, <3>4 DEF WellFormed, InFlight, FillStages, Over, InsertExecution, ApplyRead,
                        ApplyWrite, BeginPosition, LockPosition, WritePosition
    <3>6. CASE InsertExecution(r) \/ ApplyRead(r)
      <4>1. pc'[q] \in {"applyRead", "applyWrite"}
        BY <2>2, <3>6, MoveStep DEF InsertExecution, ApplyRead, Stages, FillStages
      <4> QED
        BY <3>1, <3>5, <4>1 DEF Goal, FillStages, PositionStages
    <3>7. CASE ApplyWrite(r)
      <4>1. pc'[q] = AfterApply(r)
        BY <2>2, <3>7, MoveStep DEF ApplyWrite, AfterApply, Stages, FillStages
      <4>2. Portfolio(q) \in Portfolios \cup {NoPortfolio}
        BY <3>5, TicketTyped DEF Portfolio
      <4> QED
        BY <2>2, <3>1, <3>5, <4>1, <4>2 DEF Goal, AfterApply, Portfolio, PositionStages
    <3>8. CASE BeginPosition(r) \/ LockPosition(r)
      <4>1. pc'[q] \in {"lock", "positionWrite"}
        BY <2>2, <3>8, MoveStep DEF BeginPosition, LockPosition, Stages, FillStages
      <4>2. Portfolio(q) \in Portfolios
        BY <2>2, <3>8 DEF WellFormed, InFlight, PositionStages, Over, BeginPosition, LockPosition
      <4> QED
        BY <3>1, <3>5, <4>1, <4>2 DEF Goal, Portfolio
    <3>9. CASE WritePosition(r)
      <4>1. pc'[q] = "commit"
        BY <2>2, <3>3, <3>9, MoveStep DEF WritePosition, Throw, Stages, FillStages
      <4> QED
        BY <3>1, <3>5, <4>1 DEF Goal, PositionStages
    <3> QED
      BY <3>4, <3>6, <3>7, <3>8, <3>9
  <2> QED
    BY <2>1, <2>2
<1>5. ASSUME NEW r \in Requests, NEW o \in Orders, CancelRead(r, o) PROVE Goal
  <2>1. PICK next \in {"cancel", "refused"} : Goto(r, next)
    BY <1>5 DEF CancelRead
  <2>2. /\ req'[r] = [kind |-> "cancel", order |-> o, qty |-> 0, price |-> 0]
        /\ pc'[r] = next
        /\ q # r => pc'[q] = pc[q] /\ req'[q] = req[q] /\ seen'[q] = seen[q]
    BY <1>5, <2>1, StartStep DEF CancelRead, Stages, Over
  <2> QED
    BY <1>1, <2>2 DEF FillStages, PositionStages
<1>6. ASSUME NEW r \in Requests, NEW o \in Orders, NEW qty \in NewQtys, ModifyRead(r, o, qty)
      PROVE  Goal
  <2>1. PICK next \in {"modify", "refused"} :
           Goto(r, next) /\ (next = "modify" => qty > order[o].cum)
    BY <1>6 DEF ModifyRead
  <2>2. qty \in Nat
    BY TradingConstants
  <2>3. /\ req'[r] = [kind |-> "modify", order |-> o, qty |-> qty, price |-> 0]
        /\ seen'[r].cum = order[o].cum /\ pc'[r] = next
        /\ q # r => pc'[q] = pc[q] /\ req'[q] = req[q] /\ seen'[q] = seen[q]
    BY <1>6, <2>1, <2>2, StartStep DEF ModifyRead, Stages, Over
  <2>4. order[o].cum \in Nat
    BY DEF TypeOK
  <2> QED
    BY <1>1, <2>1, <2>2, <2>3, <2>4 DEF FillStages, PositionStages, InFlight, Over
<1>7. ASSUME NEW r \in Requests, NEW o \in Orders, NEW fill \in Fills, FillRead(r, o, fill)
      PROVE  Goal
  <2>1. PICK next \in {"execute", "refused"} : Goto(r, next)
    BY <1>7 DEF FillRead
  <2>2. fill.qty \in Nat /\ fill.price \in Nat /\ fill.qty > 0
    BY TradingConstants
  <2>3. /\ req'[r] = [kind |-> "fill", order |-> o, qty |-> fill.qty, price |-> fill.price]
        /\ pc'[r] = next
        /\ q # r => pc'[q] = pc[q] /\ req'[q] = req[q] /\ seen'[q] = seen[q]
    BY <1>7, <2>1, <2>2, StartStep DEF FillRead, Stages, FillStages, Over
  <2> QED
    BY <1>1, <2>2, <2>3 DEF FillStages, PositionStages
<1> QED
  BY <1>2, <1>3, <1>4, <1>5, <1>6, <1>7 DEF Next

(* Types and stages hold initially.                                        *)
LEMMA InitTyped == Init => TypeOK /\ WellFormed
<1> SUFFICES ASSUME Init PROVE TypeOK /\ WellFormed
  OBVIOUS
<1>1. tape \in [Portfolios -> Seq([side : Sides, qty : Nat, price : Nat])]
  BY DEF Init
<1>2. faults \in 0..MaxFaults
  BY TradingConstants DEF Init
<1>3. TypeOK
  BY <1>1, <1>2 DEF Init, TypeOK, Absent, NoRequest
<1>4. InFlight = {}
  BY DEF Init, InFlight
<1> QED
  BY <1>3, <1>4 DEF WellFormed

(* Types and stages hold throughout.                                       *)
LEMMA Typed == Spec => [](TypeOK /\ WellFormed)
<1>1. TypeOK /\ WellFormed /\ [Next]_vars => (TypeOK /\ WellFormed)'
  BY TypeStep, WellFormedStep
<1> QED
  BY InitTyped, <1>1, PTL DEF Spec

(* Every reachable state is well typed, whatever the desk trades and how   *)
(* often statements fail; in particular leaves_qty never becomes negative. *)
THEOREM TypeCorrect == Spec => []TypeOK
BY Typed, PTL

-----------------------------------------------------------------------------
(* No position update is lost.                                             *)

HoldsLock(r) == pc[r] = "positionWrite" /\ seen[r].position # NoPosition

(* Who holds the lock of a row is alone, and has seen what the row holds.  *)
Locks ==
  \A r \in Requests : HoldsLock(r) =>
    /\ position[Portfolio(r)] = seen[r].position
    /\ \A q \in Requests : HoldsLock(q) /\ Portfolio(q) = Portfolio(r) => q = r

(* A request that reaches the write of a position came from the read under *)
(* the lock, and only that write changes a position.                       *)
LEMMA LockFrame ==
  ASSUME TypeOK, WellFormed, [Next]_vars, NEW r \in Requests, HoldsLock(r)'
  PROVE  \/ LockPosition(r)
         \/ HoldsLock(r) /\ seen'[r] = seen[r] /\ Portfolio(r)' = Portfolio(r)
<1>1. ASSUME pc'[r] = pc[r], req'[r] = req[r], seen'[r] = seen[r]
      PROVE  HoldsLock(r) /\ seen'[r] = seen[r] /\ Portfolio(r)' = Portfolio(r)
  BY <1>1 DEF HoldsLock, Portfolio
<1>2. CASE UNCHANGED vars
  BY <1>1, <1>2 DEF vars
<1>3. ASSUME NEW o \in Orders, PlaceCheck(o) \/ PlaceSave(o)
      PROVE  HoldsLock(r) /\ seen'[r] = seen[r] /\ Portfolio(r)' = Portfolio(r)
  BY <1>1, <1>3 DEF PlaceCheck, PlaceSave
<1>4. ASSUME NEW q \in Requests, NEW o \in Orders, Enters(q, o)
      PROVE  HoldsLock(r) /\ seen'[r] = seen[r] /\ Portfolio(r)' = Portfolio(r)
  <2>1. PICK next \in {"cancel", "modify", "execute", "refused"} : Goto(q, next)
    BY <1>4 DEF Enters, CancelRead, ModifyRead, FillRead
  <2>2. q # r => pc'[r] = pc[r] /\ req'[r] = req[r] /\ seen'[r] = seen[r]
    BY <1>4, <2>1 DEF Enters, CancelRead, ModifyRead, FillRead, Start, Goto, TypeOK
  <2>3. q # r
    BY <2>1 DEF HoldsLock, Goto, TypeOK
  <2> QED
    BY <1>1, <2>2, <2>3
<1>5. ASSUME NEW q \in Requests, Step(q) \/ Settle(q) \/ Fault(q), ~LockPosition(r)
      PROVE  HoldsLock(r) /\ seen'[r] = seen[r] /\ Portfolio(r)' = Portfolio(r)
  <2>1. CASE q # r
    BY <1>1, <1>5, <2>1, OthersWait
  <2>2. CASE q = r
    <3>1. PICK next \in Stages \ {"positionWrite"} : Goto(r, next)
      BY <1>5, <2>2 DEF Step, CancelWrite, ModifyWrite, InsertExecution, ApplyRead, ApplyWrite,
             BeginPosition, WritePosition, CommitFill, PoolTimeout, Settle, Fault, Throw,
             AfterApply, Stages, FillStages, Over
    <3> QED
      BY <3>1, MoveStep DEF HoldsLock
  <2> QED
    BY <2>1, <2>2
<1> QED
  BY <1>2, <1>3, <1>4, <1>5 DEF Next, Enters

(* Only WritePosition changes a position, and then the writer has seen     *)
(* what the row holds, or neither has a row.                               *)
LEMMA WriterIsCurrent ==
  ASSUME TypeOK, WellFormed, Locks, [Next]_vars, NEW p \in Portfolios, position'[p] # position[p]
  PROVE  \E r \in Requests :
           /\ WritePosition(r) /\ pc[r] = "positionWrite" /\ Portfolio(r) = p
           /\ seen[r].position = position[p]
           /\ pc' = [pc EXCEPT ![r] = "commit"]
           /\ position' = [position EXCEPT ![p] = ApplyTrade(position[p], Trade(r))]
<1>1. PICK r \in Requests : WritePosition(r)
  <2>1. position' # position
    OBVIOUS
  <2>2. ASSUME NEW q \in Requests, Step(q) \/ Settle(q) \/ Fault(q) PROVE WritePosition(q)
    BY <2>1, <2>2 DEF Step, CancelWrite, ModifyWrite, InsertExecution, ApplyRead, ApplyWrite,
                      BeginPosition, LockPosition, CommitFill, PoolTimeout, Settle, Fault
  <2>3. ASSUME NEW o \in Orders, PlaceCheck(o) \/ PlaceSave(o) PROVE FALSE
    BY <2>1, <2>3 DEF PlaceCheck, PlaceSave
  <2>4. ASSUME NEW q \in Requests, NEW o \in Orders, Enters(q, o)
        PROVE  FALSE
    BY <2>1, <2>4 DEF Enters, CancelRead, ModifyRead, FillRead, Start
  <2>5. ~UNCHANGED vars
    BY <2>1 DEF vars
  <2> QED
    BY <2>2, <2>3, <2>4, <2>5 DEF Next, Enters
<1>2. pc[r] = "positionWrite"
  BY <1>1 DEF WritePosition
<1>3. /\ ~(seen[r].position = NoPosition /\ position[Portfolio(r)] # NoPosition)
      /\ position' = [position EXCEPT ![Portfolio(r)] = ApplyTrade(seen[r].position, Trade(r))]
      /\ Goto(r, "commit")
  BY <1>1 DEF WritePosition
<1>4. Portfolio(r) = p
  BY <1>3 DEF TypeOK
<1>5. seen[r].position = position[p]
  BY <1>2, <1>3, <1>4 DEF Locks, HoldsLock
<1> QED
  BY <1>1, <1>2, <1>3, <1>4, <1>5 DEF Goto

(* The lock discipline survives every step.                                *)
LEMMA LocksStep == TypeOK /\ WellFormed /\ Locks /\ [Next]_vars => Locks'
<1> SUFFICES ASSUME TypeOK, WellFormed, Locks, [Next]_vars,
                    NEW r \in Requests, HoldsLock(r)'
             PROVE  /\ (position[Portfolio(r)] = seen[r].position)'
                    /\ \A q \in Requests :
                         HoldsLock(q)' /\ Portfolio(q)' = Portfolio(r)' => q = r
  BY DEF Locks
<1>1. ASSUME NEW q \in Requests, LockPosition(q)
      PROVE  /\ position' = position /\ req' = req
             /\ Portfolio(q)' = Portfolio(q)
             /\ seen'[q].position = position[Portfolio(q)]
             /\ \A s \in Requests : s # q => ~LockPosition(s)
             /\ \A s \in Requests : HoldsLock(s) => Portfolio(s) # Portfolio(q)
  <2>1. /\ position' = position /\ req' = req
        /\ Portfolio(q)' = Portfolio(q)
        /\ seen'[q].position = position[Portfolio(q)]
    BY <1>1 DEF LockPosition, TypeOK, Portfolio
  <2>2. ASSUME NEW s \in Requests, s # q PROVE ~LockPosition(s)
    BY <1>1, <2>2 DEF LockPosition, Goto, TypeOK
  <2>3. ASSUME NEW s \in Requests, HoldsLock(s) PROVE Portfolio(s) # Portfolio(q)
    BY <1>1, <2>3 DEF LockPosition, LockHolders, HoldsLock
  <2> QED
    BY <2>1, <2>2, <2>3
<1>2. (position[Portfolio(r)] = seen[r].position)'
  <2>1. CASE LockPosition(r)
    BY <1>1, <2>1
  <2>2. CASE ~LockPosition(r)
    <3>1. HoldsLock(r) /\ seen'[r] = seen[r] /\ Portfolio(r)' = Portfolio(r)
      BY <2>2, LockFrame
    <3>2. Portfolio(r) \in Portfolios
      BY <3>1 DEF WellFormed, HoldsLock, InFlight, Over, PositionStages
    <3>3. ASSUME position'[Portfolio(r)] # position[Portfolio(r)] PROVE FALSE
      <4>1. PICK q \in Requests :
              /\ pc[q] = "positionWrite" /\ Portfolio(q) = Portfolio(r)
              /\ seen[q].position = position[Portfolio(r)]
              /\ pc' = [pc EXCEPT ![q] = "commit"]
        BY <3>2, <3>3, WriterIsCurrent
      <4>2. HoldsLock(q)
        BY <3>1, <4>1 DEF Locks, HoldsLock
      <4>3. q = r
        BY <3>1, <4>1, <4>2 DEF Locks
      <4> QED
        BY <4>1, <4>3 DEF HoldsLock, TypeOK
    <3> QED
      BY <3>1, <3>3 DEF Locks
  <2> QED
    BY <2>1, <2>2
<1>3. ASSUME NEW q \in Requests, HoldsLock(q)', Portfolio(q)' = Portfolio(r)', q # r
      PROVE  FALSE
  <2>1. CASE LockPosition(r)
    BY <1>1, <1>3, <2>1, LockFrame
  <2>2. CASE LockPosition(q)
    BY <1>1, <1>3, <2>2, LockFrame
  <2>3. CASE ~LockPosition(r) /\ ~LockPosition(q)
    BY <1>3, <2>3, LockFrame DEF Locks
  <2> QED
    BY <2>1, <2>2, <2>3
<1> QED
  BY <1>2, <1>3

(* Each change of a position applies one whole trade to the value the row  *)
(* then has: overlapping fills of any orders never overwrite each other,   *)
(* thanks to SELECT ... FOR UPDATE and to the unique key of the table.     *)
THEOREM UpdatesOneTrade == Spec => PositionSteps
<1>1. Init => Locks
  BY DEF Init, Locks, HoldsLock
<1>2. TypeOK /\ WellFormed /\ Locks /\ [Next]_vars =>
        [\A p \in Portfolios : position'[p] # position[p] =>
           \E r \in Requests : /\ pc[r] = "positionWrite" /\ Portfolio(r) = p
                               /\ position'[p] = ApplyTrade(position[p], Trade(r))]_vars
  <2> SUFFICES ASSUME TypeOK, WellFormed, Locks, [Next]_vars,
                      NEW p \in Portfolios, position'[p] # position[p]
               PROVE  \E r \in Requests : /\ pc[r] = "positionWrite" /\ Portfolio(r) = p
                                          /\ position'[p] = ApplyTrade(position[p], Trade(r))
    OBVIOUS
  <2>1. PICK r \in Requests :
          /\ pc[r] = "positionWrite" /\ Portfolio(r) = p
          /\ position' = [position EXCEPT ![p] = ApplyTrade(position[p], Trade(r))]
    BY WriterIsCurrent
  <2>2. position'[p] = ApplyTrade(position[p], Trade(r))
    BY <2>1 DEF TypeOK
  <2> QED
    BY <2>1, <2>2
<1> QED
  BY Typed, <1>1, <1>2, LocksStep, PTL DEF Spec, PositionSteps

-----------------------------------------------------------------------------
(* Order quantities add up.                                                *)

OpenStatuses == {"NEW", "PARTIALLY_FILLED"}
OrderStages == {"cancel", "modify", "execute", "applyRead", "applyWrite"}

(* OrderArithmetic of one row.                                             *)
AddsUp(row) ==
  row # Absent =>
    /\ row.cum <= row.qty
    /\ row.leaves = IF row.status = "CANCELLED" THEN 0 ELSE row.qty - row.cum
    /\ row.status = "FILLED" <=> row.cum = row.qty
    /\ row.status \in {"NEW", "REJECTED"} => row.cum = 0

(* Requests of one order follow each other.                                *)
Alone == \A r, q \in InFlight : req[r].order = req[q].order => r = q

(* What a request has read of its order is still so when it writes it.     *)
StillSo(r, row) ==
  /\ pc[r] \in OrderStages => row.status \in OpenStatuses
  /\ pc[r] = "modify" => seen[r].cum = row.cum
  /\ pc[r] \in {"execute", "applyRead", "applyWrite"} => req[r].qty <= row.leaves
  /\ pc[r] = "applyWrite" => seen[r].cum = row.cum /\ seen[r].qty = row.qty

Snapshots == \A r \in InFlight : StillSo(r, order[req[r].order])

OrderInv == /\ \A o \in Orders : AddsUp(order[o])
            /\ Alone
            /\ Snapshots

(* The statements that write an order, and where they lead.                *)
Writes(r) == CancelWrite(r) \/ ModifyWrite(r) \/ ApplyWrite(r)

(* A request enters by reading its order and is in flight until it is over.*)
LEMMA FlightFrame ==
  ASSUME TypeOK, [Next]_vars, NEW q \in Requests, q \in InFlight'
  PROVE  \/ /\ q \in InFlight /\ req'[q] = req[q]
            /\ pc'[q] = pc[q] /\ seen'[q] = seen[q]
         \/ /\ q \in InFlight /\ req'[q] = req[q]
            /\ Step(q)
         \/ \E o \in Orders :
              /\ Enters(q, o) /\ order' = order /\ req'[q].order = o
              /\ Exclusive => \A r \in InFlight : req[r].order # o
<1> DEFINE Same == pc'[q] = pc[q] /\ seen'[q] = seen[q] /\ req'[q] = req[q]
<1>1. Same => q \in InFlight
  BY DEF InFlight
<1>2. CASE UNCHANGED vars
  BY <1>1, <1>2 DEF vars
<1>3. ASSUME NEW o \in Orders, PlaceCheck(o) \/ PlaceSave(o) PROVE Same
  BY <1>3 DEF PlaceCheck, PlaceSave
<1>4. ASSUME NEW r \in Requests, NEW o \in Orders, Enters(r, o)
      PROVE  \/ Same
             \/ /\ r = q /\ order' = order /\ req'[q].order = o
                /\ Exclusive => \A s \in InFlight : req[s].order # o
  <2>1. CASE r # q
    BY <1>4, <2>1 DEF Enters, CancelRead, ModifyRead, FillRead, Start, Goto, TypeOK
  <2>2. CASE r = q
    BY <1>4, <2>2 DEF Enters, CancelRead, ModifyRead, FillRead, Start, TypeOK
  <2> QED
    BY <2>1, <2>2
<1>5. ASSUME NEW r \in Requests, Step(r) \/ Settle(r) \/ Fault(r)
      PROVE  Same \/ (r = q /\ Step(q) /\ q \in InFlight /\ req'[q] = req[q])
  <2>1. CASE r # q
    BY <1>5, <2>1, OthersWait
  <2>2. CASE r = q
    <3>1. req' = req
      BY <1>5, OthersWait
    <3>2. ~(Settle(r) \/ Fault(r))
      BY <2>2 DEF Settle, Fault, Throw, Goto, TypeOK, InFlight, Over
    <3>3. pc[r] \notin Over \cup {"idle"}
      BY <1>5, <3>2 DEF Step, CancelWrite, ModifyWrite, InsertExecution, ApplyRead, ApplyWrite,
             BeginPosition, LockPosition, WritePosition, CommitFill, PoolTimeout, NeedsPool, Over
    <3> QED
      BY <1>5, <2>2, <3>1, <3>2, <3>3 DEF InFlight
  <2> QED
    BY <2>1, <2>2
<1> QED
  BY <1>1, <1>2, <1>3, <1>4, <1>5 DEF Next, Enters

(* An order is written by being placed or by a request on it.              *)
LEMMA OrderFrame ==
  ASSUME TypeOK, WellFormed, [Next]_vars, NEW o \in Orders, order'[o] # order[o]
  PROVE  \/ PlaceSave(o)
         \/ \E r \in InFlight : req[r].order = o /\ Writes(r)
<1>1. ~UNCHANGED order
  OBVIOUS
<1>2. ASSUME NEW q \in Orders, PlaceCheck(q) \/ PlaceSave(q) PROVE PlaceSave(o)
  BY <1>1, <1>2 DEF PlaceCheck, PlaceSave, TypeOK
<1>3. ASSUME NEW r \in Requests, NEW q \in Orders, Enters(r, q)
      PROVE  FALSE
  BY <1>1, <1>3 DEF Enters, CancelRead, ModifyRead, FillRead, Start
<1>4. ASSUME NEW r \in Requests, Step(r) \/ Settle(r) \/ Fault(r)
      PROVE  r \in InFlight /\ req[r].order = o /\ Writes(r)
  <2>1. Writes(r)
    BY <1>1, <1>4 DEF Writes, Step, InsertExecution, ApplyRead, BeginPosition, LockPosition,
           WritePosition, CommitFill, PoolTimeout, Settle, Fault
  <2>2. r \in InFlight
    BY <2>1 DEF Writes, CancelWrite, ModifyWrite, ApplyWrite, InFlight, Over
  <2>3. req[r].order = o
    <3>1. CASE CancelWrite(r)
      BY <3>1 DEF CancelWrite, TypeOK
    <3>2. CASE ModifyWrite(r)
      BY <3>2 DEF ModifyWrite, TypeOK
    <3>3. CASE ApplyWrite(r)
      BY <3>3 DEF ApplyWrite, TypeOK
    <3> QED
      BY <2>1, <3>1, <3>2, <3>3 DEF Writes
  <2> QED
    BY <2>1, <2>2, <2>3
<1>5. ~UNCHANGED vars
  BY <1>1 DEF vars
<1> QED
  BY <1>2, <1>3, <1>4, <1>5 DEF Next, Enters

(* What the writes of a request make of its order.                         *)
LEMMA WritesTyped ==
  ASSUME TypeOK, WellFormed, NEW r \in Requests, Writes(r)
  PROVE  LET o == req[r].order
             row == order[o]
             cum == seen[r].cum + req[r].qty
             leaves == seen[r].qty - cum
         IN /\ o \in Orders /\ r \in InFlight /\ pc[r] \in OrderStages
            /\ \/ /\ pc[r] = "cancel" /\ pc'[r] = "done"
                  /\ order'[o] = [row EXCEPT !.status = "CANCELLED", !.leaves = 0]
               \/ /\ pc[r] = "modify" /\ pc'[r] = "done"
                  /\ order'[o] = [row EXCEPT !.qty = req[r].qty,
                                             !.leaves = req[r].qty - seen[r].cum]
               \/ /\ pc[r] = "applyWrite" /\ pc'[r] \in {"position", "commit"}
                  /\ order'[o] = [status |-> IF leaves <= 0 THEN "FILLED" ELSE "PARTIALLY_FILLED",
                                  qty |-> row.qty, cum |-> cum,
                                  leaves |-> IF leaves < 0 THEN 0 ELSE leaves]
<1> DEFINE o == req[r].order
<1>1. /\ r \in InFlight /\ o \in Orders /\ pc[r] \in OrderStages
      /\ order \in [Orders -> OrderRow]
  BY DEF Writes, CancelWrite, ModifyWrite, ApplyWrite, InFlight, Over, OrderStages, WellFormed,
         TypeOK, OrderRow
<1>2. CASE CancelWrite(r)
  <2>1. pc'[r] = "done" /\ pc[r] = "cancel"
    BY <1>2 DEF CancelWrite, Goto, TypeOK
  <2>2. order'[o] = [order[o] EXCEPT !.status = "CANCELLED", !.leaves = 0]
    BY <1>1, <1>2 DEF CancelWrite, OrderRow
  <2> QED
    BY <1>1, <2>1, <2>2
<1>3. CASE ModifyWrite(r)
  <2>1. pc'[r] = "done" /\ pc[r] = "modify"
    BY <1>3 DEF ModifyWrite, Goto, TypeOK
  <2>2. order'[o] = [order[o] EXCEPT !.qty = req[r].qty, !.leaves = req[r].qty - seen[r].cum]
    BY <1>1, <1>3 DEF ModifyWrite, OrderRow
  <2> QED
    BY <1>1, <2>1, <2>2
<1>4. CASE ApplyWrite(r)
  <2>1. pc'[r] \in {"position", "commit"} /\ pc[r] = "applyWrite"
    BY <1>4 DEF ApplyWrite, AfterApply, Goto, TypeOK
  <2> QED
    BY <1>1, <1>4, <2>1 DEF ApplyWrite
<1> QED
  BY <1>2, <1>3, <1>4 DEF Writes

(* Requests of one order go on following each other.                       *)
LEMMA AloneStep ==
  ASSUME Exclusive, TypeOK, Alone, [Next]_vars
  PROVE  Alone'
<1> SUFFICES ASSUME NEW q \in Requests, NEW r \in Requests, q \in InFlight', r \in InFlight',
                    req'[q].order = req'[r].order, q # r
             PROVE  FALSE
  BY DEF Alone, InFlight
<1> DEFINE Starts(s) == \E o \in Orders : Enters(s, o)
           Stays(s) == s \in InFlight /\ req'[s] = req[s]
           Fresh(s) == \A t \in InFlight : req[t].order # req'[s].order
<1>0. ASSUME NEW s \in Requests, s \in InFlight', ~Stays(s) PROVE Starts(s) /\ Fresh(s)
  <2>1. PICK o \in Orders : /\ Enters(s, o) /\ req'[s].order = o
                            /\ \A t \in InFlight : req[t].order # o
    BY <1>0, FlightFrame
  <2> QED
    BY <2>1
<1>1. Stays(q) \/ (Starts(q) /\ Fresh(q))
  BY <1>0
<1>2. Stays(r) \/ (Starts(r) /\ Fresh(r))
  BY <1>0
<1>3. ~(Stays(q) /\ Stays(r))
  BY DEF Alone
<1>4. ~(Starts(q) /\ Starts(r))
  <2>1. \A s \in Requests : Starts(s) => pc[s] = "idle" /\ \E next : Goto(s, next)
    BY DEF Enters, CancelRead, ModifyRead, FillRead, Start
  <2>2. Starts(q) => pc'[r] = pc[r]
    BY <2>1 DEF Goto, TypeOK
  <2>3. pc'[r] # "idle"
    BY DEF InFlight
  <2> QED
    BY <2>1, <2>2, <2>3
<1> QED
  BY <1>1, <1>2, <1>3, <1>4

(* Orders go on adding up: the writer of an order still sees it as it is.  *)
LEMMA RowsStep ==
  ASSUME TypeOK, WellFormed, OrderInv, [Next]_vars, NEW o \in Orders
  PROVE  AddsUp(order'[o])
<1> USE DEF AddsUp
<1>1. CASE order'[o] = order[o]
  BY <1>1 DEF OrderInv
<1>2. CASE PlaceSave(o)
  <2>1. order'[o] = [status |-> IF vetted[o] = "passed" THEN "NEW" ELSE "REJECTED",
                     qty |-> Ticket[o].qty, cum |-> 0, leaves |-> Ticket[o].qty]
    BY <1>2 DEF PlaceSave, TypeOK
  <2> QED
    BY <2>1, TicketTyped
<1>3. ASSUME NEW r \in InFlight, req[r].order = o, Writes(r) PROVE AddsUp(order'[o])
  <2> DEFINE row == order[o]
  <2>1. /\ row.status \in OpenStatuses
        /\ row \in OrderRow /\ row # Absent
        /\ seen[r].cum \in Nat /\ seen[r].qty \in Nat /\ req[r].qty \in Nat
        /\ StillSo(r, row)
    <3>1. r \in Requests /\ pc[r] \in OrderStages
      BY <1>3, WritesTyped DEF InFlight
    <3>2. StillSo(r, row)
      BY <1>3 DEF OrderInv, Snapshots
    <3>3. row \in OrderRow
      BY DEF TypeOK, OrderRow
    <3>4. row.status \in OpenStatuses /\ row # Absent
      BY <3>1, <3>2 DEF StillSo, OpenStatuses, Absent
    <3>5. seen[r].cum \in Nat /\ seen[r].qty \in Nat /\ req[r].qty \in Nat
      BY <3>1 DEF TypeOK
    <3> QED
      BY <3>2, <3>3, <3>4, <3>5
  <2>2. /\ row.cum <= row.qty /\ row.leaves = row.qty - row.cum /\ row.cum # row.qty
        /\ row.status = "NEW" => row.cum = 0
    BY <2>1 DEF OrderInv, OpenStatuses
  <2>3. CASE /\ pc[r] = "cancel"
             /\ order'[o] = [row EXCEPT !.status = "CANCELLED", !.leaves = 0]
    <3>1. /\ order'[o].status = "CANCELLED" /\ order'[o].leaves = 0
          /\ order'[o].cum = row.cum /\ order'[o].qty = row.qty
      BY <2>1, <2>3 DEF OrderRow
    <3> QED
      BY <2>2, <3>1
  <2>4. CASE /\ pc[r] = "modify"
             /\ order'[o] = [row EXCEPT !.qty = req[r].qty, !.leaves = req[r].qty - seen[r].cum]
    <3>1. /\ order'[o].status = row.status /\ order'[o].leaves = req[r].qty - seen[r].cum
          /\ order'[o].cum = row.cum /\ order'[o].qty = req[r].qty
      BY <2>1, <2>4 DEF OrderRow
    <3>2. seen[r].cum = row.cum /\ seen[r].cum < req[r].qty
      BY <1>3, <2>1, <2>4 DEF StillSo, WellFormed
    <3>3. row.cum \in Nat
      BY <2>1 DEF OrderRow
    <3> QED
      BY <2>1, <2>2, <3>1, <3>2, <3>3 DEF OpenStatuses
  <2>5. CASE LET cum == seen[r].cum + req[r].qty
                 leaves == seen[r].qty - cum
             IN /\ pc[r] = "applyWrite"
                /\ order'[o] = [status |-> IF leaves <= 0 THEN "FILLED" ELSE "PARTIALLY_FILLED",
                                qty |-> row.qty, cum |-> cum,
                                leaves |-> IF leaves < 0 THEN 0 ELSE leaves]
    <3>1. /\ seen[r].cum = row.cum /\ seen[r].qty = row.qty
          /\ req[r].qty <= row.leaves
      BY <2>1, <2>5 DEF StillSo
    <3>2. row.cum \in Nat /\ row.qty \in Nat /\ row.leaves \in Nat
      BY <2>1 DEF OrderRow
    <3> QED
      BY <2>1, <2>2, <2>5, <3>1, <3>2
  <2> QED
    BY <1>3, <2>3, <2>4, <2>5, WritesTyped DEF InFlight
<1> QED
  BY <1>1, <1>2, <1>3, OrderFrame

(* What a request has read of its order goes on being so.                  *)
LEMMA SnapshotsStep ==
  ASSUME Exclusive, TypeOK, WellFormed, OrderInv, [Next]_vars
  PROVE  Snapshots'
<1> SUFFICES ASSUME NEW q \in Requests, q \in InFlight'
             PROVE  StillSo(q, order[req[q].order])'
  BY DEF Snapshots, InFlight
<1>1. ASSUME pc'[q] \notin OrderStages PROVE StillSo(q, order[req[q].order])'
  BY <1>1 DEF StillSo, OrderStages
<1>2. CASE q \in InFlight /\ req'[q] = req[q] /\ pc'[q] = pc[q] /\ seen'[q] = seen[q]
  <2> DEFINE o == req[q].order
  <2>1. o \in Orders /\ StillSo(q, order[o])
    BY <1>2 DEF WellFormed, OrderInv, Snapshots
  <2>2. CASE order'[o] = order[o]
    BY <1>2, <2>1, <2>2 DEF StillSo
  <2>3. CASE PlaceSave(o)
    <3>1. pc[q] \notin OrderStages
      BY <2>1, <2>3 DEF PlaceSave, StillSo, Absent, OpenStatuses
    <3> QED
      BY <1>1, <1>2, <3>1
  <2>4. ASSUME NEW r \in InFlight, req[r].order = o, Writes(r)
        PROVE  StillSo(q, order[req[q].order])'
    <3>1. r = q
      BY <1>2, <2>4 DEF OrderInv, Alone
    <3>2. pc'[q] \notin OrderStages
      BY <2>4, <3>1, WritesTyped DEF OrderStages
    <3> QED
      BY <1>1, <3>2
  <2> QED
    BY <2>1, <2>2, <2>3, <2>4, OrderFrame
<1>3. CASE q \in InFlight /\ req'[q] = req[q] /\ Step(q)
  <2>1. StillSo(q, order[req[q].order])
    BY <1>3 DEF OrderInv, Snapshots
  <2>2. CASE Writes(q)
    BY <1>1, <2>2, WritesTyped DEF OrderStages
  <2>3. CASE InsertExecution(q)
    <3>1. pc[q] = "execute" /\ pc'[q] = "applyRead" /\ order' = order
      BY <2>3 DEF InsertExecution, Goto, TypeOK
    <3> QED
      BY <1>3, <2>1, <3>1 DEF StillSo, OrderStages
  <2>4. CASE ApplyRead(q)
    <3>1. /\ pc[q] = "applyRead" /\ pc'[q] = "applyWrite" /\ order' = order
          /\ seen'[q].cum = order[req[q].order].cum
          /\ seen'[q].qty = order[req[q].order].qty
      BY <2>4 DEF ApplyRead, Goto, TypeOK
    <3> QED
      BY <1>3, <2>1, <3>1 DEF StillSo, OrderStages
  <2>5. CASE \/ BeginPosition(q) \/ LockPosition(q) \/ WritePosition(q)
             \/ CommitFill(q) \/ PoolTimeout(q)
    <3>1. PICK next \in {"lock", "positionWrite", "commit", "failed", "recorded"} : Goto(q, next)
      BY <2>5 DEF BeginPosition, LockPosition, WritePosition, CommitFill, PoolTimeout, Throw
    <3>2. pc'[q] \notin OrderStages
      BY <3>1 DEF Goto, TypeOK, OrderStages
    <3> QED
      BY <1>1, <3>2
  <2> QED
    BY <1>3, <2>2, <2>3, <2>4, <2>5 DEF Step, Writes
<1>4. ASSUME NEW o \in Orders, Enters(q, o), order' = order, req'[q].order = o
      PROVE  StillSo(q, order[req[q].order])'
  <2>1. CASE CancelRead(q, o)
    <3>1. pc'[q] = IF order[o].status \in OpenStatuses THEN "cancel" ELSE "refused"
      BY <2>1 DEF CancelRead, Goto, TypeOK, OpenStatuses
    <3> QED
      BY <1>4, <3>1 DEF StillSo, OrderStages
  <2>2. ASSUME NEW qty \in NewQtys, ModifyRead(q, o, qty)
        PROVE  StillSo(q, order[req[q].order])'
    <3>1. /\ seen'[q].cum = order[o].cum
          /\ pc'[q] \in {"modify", "refused"}
          /\ pc'[q] = "modify" => order[o].status \in OpenStatuses
      BY <2>2 DEF ModifyRead, Start, Goto, TypeOK, OpenStatuses
    <3> QED
      BY <1>4, <3>1 DEF StillSo, OrderStages
  <2>3. ASSUME NEW fill \in Fills, FillRead(q, o, fill)
        PROVE  StillSo(q, order[req[q].order])'
    <3>1. /\ req'[q].qty = fill.qty
          /\ pc'[q] \in {"execute", "refused"}
          /\ pc'[q] = "execute" => /\ order[o].status \in OpenStatuses
                                   /\ fill.qty <= order[o].leaves
      BY <2>3 DEF FillRead, Start, Goto, TypeOK, OpenStatuses
    <3> QED
      BY <1>4, <3>1 DEF StillSo, OrderStages
  <2> QED
    BY <1>4, <2>1, <2>2, <2>3 DEF Enters
<1> QED
  BY <1>2, <1>3, <1>4, FlightFrame

(* They hold initially ...                                                 *)
LEMMA InitOrders == Init => OrderInv
<1> SUFFICES ASSUME Init PROVE OrderInv
  OBVIOUS
<1>1. InFlight = {}
  BY DEF Init, InFlight
<1> QED
  BY <1>1 DEF Init, OrderInv, AddsUp, Alone, Snapshots

(* ... and survive every step.                                             *)
LEMMA OrdersStep ==
  TypeOK /\ WellFormed /\ Exclusive /\ OrderInv /\ [Next]_vars => OrderInv'
<1> SUFFICES ASSUME TypeOK, WellFormed, Exclusive, OrderInv, [Next]_vars PROVE OrderInv'
  OBVIOUS
<1>1. \A o \in Orders : AddsUp(order'[o])
  BY RowsStep
<1>2. Alone' /\ Snapshots'
  BY AloneStep, SnapshotsStep DEF OrderInv
<1> QED
  BY <1>1, <1>2 DEF OrderInv, AddsUp

(* Quantity, cum, leaves and status of every order always agree, whatever  *)
(* fills, cancels and modifications reach it one after the other, and      *)
(* whichever of their statements fail.                                     *)
THEOREM OrdersAddUp == Spec => []OrderArithmetic
<1> DEFINE Inv == Exclusive => OrderInv
<1>1. Init => Inv
  BY InitOrders
<1>2. TypeOK /\ WellFormed /\ Inv /\ [Next]_vars => Inv'
  BY OrdersStep
<1>3. Inv => OrderArithmetic
  BY DEF OrderInv, AddsUp, OrderArithmetic
<1> HIDE DEF Inv
<1> QED
  BY Typed, <1>1, <1>2, <1>3, PTL DEF Spec

-----------------------------------------------------------------------------
(* Executions and orders.                                                  *)

(* SumFunction of the community modules is the sum the lemmas are about.   *)
LEMMA TradingSums == \A f : SumFunction(f) = IntegerSum(f)
BY DEF SumFunction, SumFunctionOnSet, FoldFunctionOnSet, IntegerSum, FoldFunction

(* The fills that applyFill has counted on an order and that have not      *)
(* failed since.                                                           *)
Counted(o) ==
  {r \in Requests : /\ pc[r] \in PositionStages \cup {"commit", "recorded", "settled"}
                    /\ req[r].order = o}

Quantities(set) == [r \in set |-> req[r].qty]

(* They are finitely many, and the order has counted at least as much.     *)
CountedInv ==
  \A o \in Orders : /\ IsFiniteSet(Counted(o))
                    /\ IntegerSum(Quantities(Counted(o))) <= order[o].cum

(* What a request is asked stays as it is from its start on.               *)
LEMMA AskedOnce ==
  ASSUME TypeOK, [Next]_vars, NEW r \in Requests, pc[r] # "idle"
  PROVE  req'[r] = req[r]
<1>1. ASSUME NEW q \in Requests, NEW o \in Orders, Enters(q, o) PROVE req'[r] = req[r]
  BY <1>1 DEF Enters, CancelRead, ModifyRead, FillRead, Start, TypeOK
<1>2. ASSUME NEW q \in Requests, Step(q) \/ Settle(q) \/ Fault(q) PROVE req' = req
  BY <1>2, OthersWait
<1> QED
  BY <1>1, <1>2 DEF Next, Enters, PlaceCheck, PlaceSave, vars

(* A step counts one fill more and on the order, or counts nothing more.   *)
LEMMA CountedFrame ==
  ASSUME TypeOK, WellFormed, OrderInv, [Next]_vars, NEW o \in Orders
  PROVE  \/ Counted(o)' \subseteq Counted(o) /\ order'[o].cum >= order[o].cum
         \/ \E r \in Requests \ Counted(o) :
              /\ Counted(o)' = Counted(o) \cup {r} /\ pc[r] # "idle"
              /\ order'[o].cum = order[o].cum + req[r].qty
<1> DEFINE Applied == PositionStages \cup {"commit", "recorded", "settled"}
           Kept == Counted(o)' \subseteq Counted(o) /\ order'[o].cum >= order[o].cum
<1>0. order[o].cum \in Int /\ order[o].cum >= order[o].cum
  BY DEF TypeOK
<1>1. ASSUME \A r \in Requests : pc'[r] \in Applied => pc[r] \in Applied
      PROVE  Counted(o)' \subseteq Counted(o)
  <2>1. \A r \in Requests : pc[r] \in Applied => req'[r] = req[r]
    BY AskedOnce DEF PositionStages
  <2> QED
    BY <1>1, <2>1 DEF Counted
<1>2. CASE UNCHANGED vars
  BY <1>0, <1>1, <1>2 DEF vars
<1>3. ASSUME NEW q \in Orders, PlaceCheck(q) \/ PlaceSave(q) PROVE Kept
  <2>1. pc' = pc
    BY <1>3 DEF PlaceCheck, PlaceSave
  <2>2. order'[o].cum >= order[o].cum
    <3>1. CASE PlaceSave(o)
      BY <3>1 DEF PlaceSave, TypeOK, Absent
    <3>2. CASE order'[o] = order[o]
      BY <1>0, <3>2
    <3> QED
      BY <1>3, <3>1, <3>2 DEF PlaceCheck, PlaceSave, TypeOK
  <2> QED
    BY <1>1, <2>1, <2>2
<1>4. ASSUME NEW r \in Requests, NEW q \in Orders, Enters(r, q) PROVE Kept
  <2>1. order' = order /\ \E next : Goto(r, next) /\ next \notin Applied
    BY <1>4 DEF Enters, CancelRead, ModifyRead, FillRead, Start, PositionStages
  <2> QED
    BY <1>0, <1>1, <2>1 DEF Goto, TypeOK
<1>5. ASSUME NEW r \in Requests, ApplyWrite(r) PROVE Kept \/
        /\ r \notin Counted(o) /\ Counted(o)' = Counted(o) \cup {r} /\ pc[r] # "idle"
        /\ order'[o].cum = order[o].cum + req[r].qty
  <2>1. /\ pc[r] = "applyWrite" /\ pc'[r] \in {"position", "commit"} /\ r \in InFlight
        /\ \A q \in Requests : q # r => pc'[q] = pc[q]
        /\ req' = req
    <3>1. pc[r] = "applyWrite" /\ req' = req /\ Goto(r, AfterApply(r))
      BY <1>5 DEF ApplyWrite
    <3> QED
      BY <3>1 DEF AfterApply, Goto, TypeOK, InFlight, Over
  <2>2. CASE req[r].order = o
    <3>1. seen[r].cum = order[o].cum
      BY <2>1, <2>2 DEF OrderInv, Snapshots, StillSo
    <3>2. order'[o].cum = order[o].cum + req[r].qty
      BY <1>5, <2>2, <3>1 DEF ApplyWrite, TypeOK
    <3>3. r \notin Counted(o)
      BY <2>1 DEF Counted, PositionStages
    <3>4. Counted(o)' = Counted(o) \cup {r}
      BY <2>1, <2>2 DEF Counted, PositionStages
    <3> QED
      BY <2>1, <3>2, <3>3, <3>4
  <2>3. CASE req[r].order # o
    <3>1. order'[o] = order[o]
      BY <1>5, <2>3 DEF ApplyWrite, TypeOK
    <3>2. Counted(o)' \subseteq Counted(o)
      BY <2>1, <2>3 DEF Counted
    <3> QED
      BY <1>0, <3>1, <3>2
  <2> QED
    BY <2>2, <2>3
<1>6. ASSUME NEW r \in Requests, Step(r) \/ Settle(r) \/ Fault(r), ~ApplyWrite(r) PROVE Kept
  <2>1. PICK next : Goto(r, next) /\ (next \in Applied => pc[r] \in Applied)
    BY <1>6 DEF Step, CancelWrite, ModifyWrite, InsertExecution, ApplyRead, BeginPosition,
           LockPosition, WritePosition, CommitFill, PoolTimeout, Settle, Fault, Throw, PositionStages
  <2>2. \A q \in Requests : pc'[q] \in Applied => pc[q] \in Applied
    BY <2>1 DEF Goto, TypeOK
  <2>3. order'[o].cum = order[o].cum
    BY <1>6 DEF Step, CancelWrite, ModifyWrite, InsertExecution, ApplyRead, BeginPosition,
           LockPosition, WritePosition, CommitFill, PoolTimeout, Settle, Fault, TypeOK
  <2> QED
    BY <1>0, <1>1, <2>2, <2>3
<1> QED
  BY <1>2, <1>3, <1>4, <1>5, <1>6 DEF Next, Enters, Step

(* An order goes on counting what is in the books.                         *)
LEMMA CountedStep ==
  ASSUME TypeOK, WellFormed, OrderInv, CountedInv, [Next]_vars
  PROVE  CountedInv'
<1> SUFFICES ASSUME NEW o \in Orders
             PROVE  /\ IsFiniteSet(Counted(o)')
                    /\ IntegerSum(Quantities(Counted(o))') <= order'[o].cum
  BY DEF CountedInv
<1> DEFINE f == Quantities(Counted(o))
           g == Quantities(Counted(o))'
<1>0. /\ order[o].cum \in Int /\ order'[o].cum \in Int
      /\ \A r \in Requests : req[r].qty \in Nat /\ req'[r].qty \in Nat
  <2>1. TypeOK'
    BY TypeStep
  <2> QED
    BY <2>1 DEF TypeOK
<1>1. /\ DOMAIN f = Counted(o) /\ DOMAIN g = Counted(o)'
      /\ \A r \in DOMAIN f : f[r] = req[r].qty
      /\ \A r \in DOMAIN g : g[r] = req'[r].qty
  BY DEF Quantities
<1>9. Counted(o) \subseteq Requests /\ Counted(o)' \subseteq Requests
  BY DEF Counted
<1>2. \A r \in Requests : pc[r] # "idle" => req'[r] = req[r]
  BY AskedOnce
<1>3. \A r \in Counted(o) : pc[r] # "idle"
  BY DEF Counted, PositionStages
<1>4. IsFiniteSet(Counted(o)) /\ IntegerSum(f) <= order[o].cum
  BY DEF CountedInv
<1> HIDE DEF f, g
<1>5. IntegerSum(f) \in Int
  BY <1>0, <1>1, <1>9, <1>4, SumType
<1>6. CASE Counted(o)' \subseteq Counted(o) /\ order'[o].cum >= order[o].cum
  <2>1. IsFiniteSet(Counted(o)')
    BY <1>4, <1>6, FS_Subset
  <2>2. /\ IsFiniteSet(DOMAIN f) /\ \A r \in DOMAIN f : f[r] \in Int /\ f[r] >= 0
        /\ DOMAIN g \subseteq DOMAIN f /\ \A r \in DOMAIN g : g[r] = f[r]
    BY <1>0, <1>1, <1>9, <1>2, <1>3, <1>4, <1>6
  <2>3. IntegerSum(g) <= IntegerSum(f)
    BY <2>2, SumPart
  <2>4. IntegerSum(g) \in Int
    BY <2>1, <1>0, <1>1, <1>9, SumType
  <2> QED
    BY <1>0, <1>4, <1>5, <1>6, <2>1, <2>3, <2>4 DEF g
<1>7. ASSUME NEW r \in Requests \ Counted(o),
             Counted(o)' = Counted(o) \cup {r}, pc[r] # "idle",
             order'[o].cum = order[o].cum + req[r].qty
      PROVE  /\ IsFiniteSet(Counted(o)')
             /\ IntegerSum(g) <= order'[o].cum
  <2>1. IsFiniteSet(Counted(o)')
    BY <1>4, <1>7, FS_AddElement
  <2>2. /\ IsFiniteSet(DOMAIN g) /\ \A q \in DOMAIN g : g[q] \in Int
        /\ r \in DOMAIN g /\ DOMAIN f = DOMAIN g \ {r}
        /\ \A q \in DOMAIN f : f[q] = g[q]
    BY <2>1, <1>0, <1>1, <1>9, <1>2, <1>3, <1>7
  <2>3. IntegerSum(g) = g[r] + IntegerSum(f)
    BY <2>2, SumWithout
  <2>4. g[r] = req[r].qty /\ req[r].qty \in Nat
    BY <1>0, <1>1, <1>2, <1>7
  <2> QED
    BY <1>0, <1>4, <1>5, <1>7, <2>1, <2>3, <2>4
<1> QED
  BY <1>6, <1>7, CountedFrame DEF g

(* No execution is in the books that its order does not know of, whatever  *)
(* failed before or after applyFill, and however many requests there are.  *)
THEOREM BooksCounted == Spec => []ExecutionsCounted
<1> DEFINE Inv == Exclusive => OrderInv /\ CountedInv
<1>1. Init => Inv
  <2> SUFFICES ASSUME Init PROVE OrderInv /\ CountedInv
    OBVIOUS
  <2>1. OrderInv
    BY InitOrders
  <2>2. ASSUME NEW o \in Orders
        PROVE  IsFiniteSet(Counted(o)) /\ IntegerSum(Quantities(Counted(o))) <= order[o].cum
    <3>1. Counted(o) = {} /\ order[o].cum = 0
      BY DEF Init, Counted, PositionStages, Absent
    <3>2. IntegerSum(Quantities(Counted(o))) = 0
      BY <3>1, SumEmpty DEF Quantities
    <3> QED
      BY <3>1, <3>2, FS_EmptySet
  <2> QED
    BY <2>1, <2>2 DEF CountedInv
<1>2. TypeOK /\ WellFormed /\ Inv /\ [Next]_vars => Inv'
  BY OrdersStep, CountedStep
<1>3. TypeOK /\ Inv => ExecutionsCounted
  <2> SUFFICES ASSUME TypeOK, Exclusive, CountedInv, NEW o \in Orders
               PROVE  Recorded(o) <= order[o].cum
    BY DEF ExecutionsCounted
  <2> DEFINE f == Quantities(Counted(o))
             g == [r \in {q \in Requests : pc[q] \in {"recorded", "settled"} /\ req[q].order = o}
                     |-> req[r].qty]
  <2>1. /\ \A r \in DOMAIN f : f[r] \in Int /\ f[r] >= 0
        /\ DOMAIN g \subseteq DOMAIN f /\ \A r \in DOMAIN g : g[r] = f[r] /\ g[r] \in Int
    BY DEF Quantities, Counted, TypeOK
  <2>2. /\ IsFiniteSet(DOMAIN f) /\ IntegerSum(f) <= order[o].cum /\ order[o].cum \in Int
    <3>1. DOMAIN f = Counted(o) /\ order[o].cum \in Int
      BY DEF Quantities, TypeOK
    <3>2. IsFiniteSet(Counted(o)) /\ IntegerSum(f) <= order[o].cum
      BY DEF CountedInv
    <3> QED
      BY <3>1, <3>2
  <2>3. Recorded(o) = IntegerSum(g)
    BY TradingSums DEF Recorded
  <2> HIDE DEF f, g
  <2>4. IntegerSum(g) <= IntegerSum(f)
    BY <2>1, <2>2, SumPart
  <2>5. IntegerSum(g) \in Int /\ IntegerSum(f) \in Int
    BY <2>1, <2>2, FS_Subset, SumType
  <2> QED
    BY <2>2, <2>3, <2>4, <2>5
<1> HIDE DEF Inv
<1> QED
  BY Typed, <1>1, <1>2, <1>3, PTL DEF Spec

-----------------------------------------------------------------------------
(* Cost accounting.                                                        *)

TradeType == [side : Sides, qty : Nat, price : Nat]

(* The sums of LongCost, of the first n trades of a tape, and of all.      *)
HoldingOf(t, n) == IntegerSum([i \in 1..n |-> Bought(t[i])])
PaidOf(t) == IntegerSum([i \in DOMAIN t |-> Bought(t[i]) * t[i].price])
RoundingOf(t) == IntegerSum([n \in DOMAIN t |-> HoldingOf(t, n)])

(* A trade changes the quantity held by an integer.                        *)
LEMMA BoughtTyped ==
  ASSUME NEW trade \in TradeType
  PROVE  Bought(trade) \in Int /\ Bought(trade) * trade.price \in Int
<1>1. Bought(trade) \in Int /\ trade.price \in Int
  BY DEF Bought, TradeType
<1> QED
  BY <1>1, ProductTyped

(* What one more trade does to the sums.                                   *)
LEMMA HoldingTyped ==
  ASSUME NEW t \in Seq(TradeType), NEW n \in 0..Len(t)
  PROVE  HoldingOf(t, n) \in Int
<1> DEFINE f == [i \in 1..n |-> Bought(t[i])]
<1>1. IsFiniteSet(DOMAIN f)
  BY FS_Interval
<1>2. \A i \in DOMAIN f : f[i] \in Int
  BY BoughtTyped
<1> HIDE DEF f
<1>3. IntegerSum(f) \in Int
  BY <1>1, <1>2, SumType
<1> QED
  BY <1>3 DEF HoldingOf, f

(* One trade more adds what it buys to the holding at the end,             *)
LEMMA HoldingAppend ==
  ASSUME NEW t \in Seq(TradeType), NEW trade \in TradeType
  PROVE  /\ \A n \in 0..Len(t) : HoldingOf(Append(t, trade), n) = HoldingOf(t, n)
         /\ HoldingOf(Append(t, trade), Len(t) + 1) = HoldingOf(t, Len(t)) + Bought(trade)
<1> DEFINE u == Append(t, trade)
           f(v, n) == [i \in 1..n |-> Bought(v[i])]
<1>0. /\ u \in Seq(TradeType) /\ Len(u) = Len(t) + 1 /\ Len(t) \in Nat
      /\ \A i \in 1..Len(t) : u[i] = t[i]
      /\ u[Len(t) + 1] = trade
  OBVIOUS
<1> HIDE DEF u
<1>f. IsFiniteSet(1..(Len(t) + 1))
  BY <1>0, FS_Interval
<1>1. ASSUME NEW n \in 0..Len(t) PROVE HoldingOf(u, n) = HoldingOf(t, n)
  <2>1. /\ IsFiniteSet(DOMAIN f(t, n)) /\ DOMAIN f(u, n) = DOMAIN f(t, n)
        /\ \A i \in DOMAIN f(t, n) : f(u, n)[i] = f(t, n)[i]
    <3>1. IsFiniteSet(1..n)
      BY <1>0, FS_Interval
    <3> QED
      BY <1>0, <3>1
  <2> HIDE DEF f
  <2>2. IntegerSum(f(u, n)) = IntegerSum(f(t, n))
    BY <2>1, SumSame
  <2> QED
    BY <2>2 DEF HoldingOf, f
<1>2. HoldingOf(u, Len(t) + 1) = HoldingOf(t, Len(t)) + Bought(trade)
  <2> DEFINE g == f(u, Len(t) + 1)
             h == f(t, Len(t))
  <2>1. /\ IsFiniteSet(DOMAIN g) /\ Len(t) + 1 \in DOMAIN g
        /\ DOMAIN h = DOMAIN g \ {Len(t) + 1}
    BY <1>0, <1>f
  <2>2. \A i \in DOMAIN g : g[i] \in Int
    BY <1>0, BoughtTyped
  <2>3. g[Len(t) + 1] = Bought(trade) /\ \A i \in DOMAIN h : h[i] = g[i]
    BY <1>0
  <2>4. \A i \in DOMAIN h : h[i] \in Int
    BY <2>1, <2>2, <2>3
  <2> HIDE DEF f, g, h
  <2>5. IsFiniteSet(DOMAIN h)
    BY <2>1, FS_Subset
  <2>6. IntegerSum(g) = g[Len(t) + 1] + IntegerSum(h)
    BY <2>1, <2>2, <2>3, SumWithout
  <2>7. IntegerSum(h) \in Int /\ Bought(trade) \in Int
    BY <2>4, <2>5, SumType, BoughtTyped
  <2>8. IntegerSum(g) = IntegerSum(h) + Bought(trade)
    BY <2>3, <2>6, <2>7
  <2> QED
    BY <2>8 DEF HoldingOf, f, g, h
<1> QED
  BY <1>1, <1>2 DEF u

(* adds what it costs to the money paid,                                   *)
LEMMA PaidAppend ==
  ASSUME NEW t \in Seq(TradeType), NEW trade \in TradeType
  PROVE  /\ PaidOf(t) \in Int
         /\ PaidOf(Append(t, trade)) = PaidOf(t) + Bought(trade) * trade.price
<1> DEFINE u == Append(t, trade)
           g == [i \in DOMAIN u |-> Bought(u[i]) * u[i].price]
           h == [i \in DOMAIN t |-> Bought(t[i]) * t[i].price]
<1>0. /\ u \in Seq(TradeType) /\ DOMAIN u = 1..(Len(t) + 1) /\ Len(t) \in Nat
      /\ DOMAIN t = 1..Len(t)
      /\ \A i \in 1..Len(t) : u[i] = t[i]
      /\ u[Len(t) + 1] = trade
  OBVIOUS
<1> HIDE DEF u
<1>f. IsFiniteSet(1..(Len(t) + 1))
  BY <1>0, FS_Interval
<1>1. /\ IsFiniteSet(DOMAIN g) /\ Len(t) + 1 \in DOMAIN g
      /\ DOMAIN h = DOMAIN g \ {Len(t) + 1}
  BY <1>0, <1>f
<1>2. \A i \in DOMAIN g : g[i] \in Int
  BY <1>0, BoughtTyped
<1>3. g[Len(t) + 1] = Bought(trade) * trade.price /\ \A i \in DOMAIN h : h[i] = g[i]
  BY <1>0
<1>4. \A i \in DOMAIN h : h[i] \in Int
  BY <1>1, <1>2, <1>3
<1>h. PaidOf(t) = IntegerSum(h) /\ PaidOf(u) = IntegerSum(g)
  BY DEF PaidOf
<1> HIDE DEF g, h
<1>5. IsFiniteSet(DOMAIN h)
  BY <1>1, FS_Subset
<1>6. IntegerSum(g) = g[Len(t) + 1] + IntegerSum(h)
  BY <1>1, <1>2, <1>3, SumWithout
<1>7. IntegerSum(h) \in Int /\ Bought(trade) * trade.price \in Int
  BY <1>4, <1>5, SumType, BoughtTyped
<1> QED
  BY <1>3, <1>6, <1>7, <1>h DEF u

(* and adds the new holding to the sum the rounding is bounded by.         *)
LEMMA RoundingAppend ==
  ASSUME NEW t \in Seq(TradeType), NEW trade \in TradeType
  PROVE  /\ RoundingOf(t) \in Int
         /\ RoundingOf(Append(t, trade))
              = RoundingOf(t) + HoldingOf(t, Len(t)) + Bought(trade)
<1> DEFINE u == Append(t, trade)
           g == [n \in DOMAIN u |-> HoldingOf(u, n)]
           h == [n \in DOMAIN t |-> HoldingOf(t, n)]
<1>0. /\ u \in Seq(TradeType) /\ DOMAIN u = 1..(Len(t) + 1) /\ Len(t) \in Nat
      /\ DOMAIN t = 1..Len(t) /\ Len(u) = Len(t) + 1
  OBVIOUS
<1>9. /\ \A n \in 0..Len(t) : HoldingOf(u, n) = HoldingOf(t, n)
      /\ HoldingOf(u, Len(t) + 1) = HoldingOf(t, Len(t)) + Bought(trade)
  BY HoldingAppend
<1> HIDE DEF u
<1>f. IsFiniteSet(1..(Len(t) + 1))
  BY <1>0, FS_Interval
<1>1. /\ IsFiniteSet(DOMAIN g) /\ Len(t) + 1 \in DOMAIN g
      /\ DOMAIN h = DOMAIN g \ {Len(t) + 1}
  BY <1>0, <1>f
<1>2. \A n \in DOMAIN g : g[n] \in Int
  BY <1>0, HoldingTyped
<1>3. /\ g[Len(t) + 1] = HoldingOf(t, Len(t)) + Bought(trade)
      /\ \A n \in DOMAIN h : h[n] = g[n]
  BY <1>0, <1>9
<1>4. \A n \in DOMAIN h : h[n] \in Int
  BY <1>1, <1>2, <1>3
<1>h. RoundingOf(t) = IntegerSum(h) /\ RoundingOf(u) = IntegerSum(g)
  BY DEF RoundingOf
<1> HIDE DEF g, h
<1>5. IsFiniteSet(DOMAIN h)
  BY <1>1, FS_Subset
<1>6. IntegerSum(g) = g[Len(t) + 1] + IntegerSum(h)
  BY <1>1, <1>2, <1>3, SumWithout
<1>7. IntegerSum(h) \in Int /\ HoldingOf(t, Len(t)) \in Int /\ Bought(trade) \in Int
  BY <1>0, <1>4, <1>5, SumType, HoldingTyped, BoughtTyped
<1> QED
  BY <1>3, <1>6, <1>7, <1>h DEF u

(* toFixed is off by half a unit at most.                                  *)
LEMMA RoundedClose ==
  ASSUME NEW n \in Nat, NEW d \in Nat, d > 0
  PROVE  2 * Magnitude(d * Rounded(n, d) - n) <= d
<1> DEFINE k == Rounded(n, d)
<1>1. \A m, e \in Nat : e > 0 => m \div e \in Nat /\ e * (m \div e) <= m /\ m < e * (m \div e) + e
  OBVIOUS
<1>2. k \in Nat /\ (2 * d) * k <= 2 * n + d /\ 2 * n + d < (2 * d) * k + 2 * d
  BY <1>1 DEF Rounded
<1> HIDE DEF k
<1>3. (2 * d) * k = 2 * (d * k) /\ d * k \in Nat
  BY <1>2, ProductTyped
<1>4. 2 * Magnitude(d * k - n) <= d
  BY <1>2, <1>3 DEF Magnitude
<1> QED
  BY <1>4 DEF k

(* What a trade makes of a long position that stays long or becomes flat:  *)
(* the cost basis takes over what the position had cost at its rounded     *)
(* average, and is close to what it costs at the new one.                  *)
LEMMA TradeCost ==
  ASSUME NEW pos \in Position, pos.qty >= 0, NEW trade \in TradeType, trade.qty > 0,
         NEW new, new = ApplyTrade(pos, trade), new.qty >= 0
  PROVE  /\ new.costBasis - new.realized - Bought(trade) * trade.price
              = pos.qty * pos.avgCost - pos.realized
         /\ 2 * Magnitude(new.qty * new.avgCost - new.costBasis) <= new.qty
<1>1. /\ trade.qty \in Nat /\ trade.price \in Nat
      /\ pos.qty \in Nat /\ pos.avgCost \in Nat /\ pos.realized \in Int
      /\ pos # NoPosition
  BY TradingConstants DEF TradeType, Position
<1> DEFINE m == pos.qty
           a == pos.avgCost
           t == trade.qty
           x == trade.price
<1>p. m * a \in Nat /\ t * x \in Nat /\ t * a \in Nat
  BY <1>1, ProductTyped
<1>2. CASE IsBuy(trade)
  <2> DEFINE cost == m * a + t * x
  <2>1. /\ new.qty = m + t /\ new.costBasis = cost /\ new.realized = pos.realized
        /\ new.avgCost = Rounded(cost, m + t) /\ Bought(trade) = t
    BY <1>1, <1>2 DEF ApplyTrade, AddedToLong, Bought
  <2>2. cost \in Nat /\ m + t \in Nat /\ m + t > 0
    BY <1>1, <1>p
  <2>3. 2 * Magnitude((m + t) * Rounded(cost, m + t) - cost) <= m + t
    <3> HIDE DEF cost
    <3> QED
      BY <2>2, RoundedClose
  <2>4. cost - pos.realized - t * x = m * a - pos.realized
    BY <1>1, <1>p
  <2> QED
    BY <2>1, <2>3, <2>4
<1>3. CASE ~IsBuy(trade)
  <2>1. /\ new.qty = m - t /\ Bought(trade) = -t
        /\ new.avgCost = (IF m - t = 0 THEN 0 ELSE a)
        /\ new.costBasis = Magnitude(m - t) * new.avgCost
        /\ new.realized = pos.realized + Smaller(t, Magnitude(m)) * (x - a)
    BY <1>1, <1>3 DEF ApplyTrade, Sold, Bought
  <2>2. Smaller(t, Magnitude(m)) = t /\ Magnitude(m - t) = m - t
    <3>1. m - t >= 0
      BY <2>1
    <3> QED
      BY <1>1, <3>1 DEF Smaller, Magnitude
  <2>3. new.costBasis = (m - t) * a
    BY <1>1, <2>1, <2>2
  <2>4. (m - t) * a = m * a - t * a /\ t * (x - a) = t * x - t * a /\ (-t) * x = -(t * x)
    BY <1>1
  <2>5. new.costBasis - new.realized - Bought(trade) * x = m * a - pos.realized
    <3>1. /\ new.costBasis = m * a - t * a
          /\ new.realized = pos.realized + (t * x - t * a)
          /\ Bought(trade) * x = -(t * x)
      BY <2>1, <2>2, <2>3, <2>4
    <3> QED
      BY <1>1, <1>p, <3>1
  <2>6. new.qty * new.avgCost = new.costBasis /\ new.costBasis \in Int
    BY <1>1, <2>1, <2>2, <2>3
  <2>7. 2 * Magnitude(new.qty * new.avgCost - new.costBasis) = 0
    BY <2>6 DEF Magnitude
  <2> QED
    BY <2>1, <2>5, <2>7
<1> QED
  BY <1>2, <1>3

(* What a position is made of: the quantity of its tape and, if it was     *)
(* never short, a cost basis, and a quantity at the rounded average cost,  *)
(* that are off by the roundings so far at most.                           *)
Accounts(pos, t) ==
  LET bound == RoundingOf(t) IN
  /\ pos = NoPosition <=> Len(t) = 0
  /\ pos # NoPosition => pos.qty = HoldingOf(t, Len(t))
  /\ pos # NoPosition /\ (\A n \in DOMAIN t : HoldingOf(t, n) >= 0) =>
       /\ 2 * Magnitude(pos.costBasis - pos.realized - PaidOf(t)) <= bound
       /\ 2 * Magnitude(pos.qty * pos.avgCost - pos.realized - PaidOf(t)) <= bound

CostInv == \A p \in Portfolios : Accounts(position[p], tape[p])

(* A trade keeps the accounts of a position and its tape in agreement.     *)
LEMMA AccountsStep ==
  ASSUME NEW pos \in Position \cup {NoPosition}, NEW t \in Seq(TradeType), Accounts(pos, t),
         NEW trade \in TradeType, trade.qty > 0
  PROVE  Accounts(ApplyTrade(pos, trade), Append(t, trade))
<1> DEFINE u == Append(t, trade)
           new == ApplyTrade(pos, trade)
<1>1. /\ new \in Position /\ new # NoPosition
      /\ new.qty \in Int /\ new.avgCost \in Nat /\ new.costBasis \in Nat /\ new.realized \in Int
  <2>1. new \in Position
    BY ApplyTradeTyped DEF TradeType
  <2> QED
    BY <2>1, TradingConstants DEF Position
<1>2. /\ Len(u) = Len(t) + 1 /\ Len(t) \in Nat /\ DOMAIN t = 1..Len(t)
      /\ DOMAIN u = 1..(Len(t) + 1)
  OBVIOUS
<1>3. /\ \A n \in 0..Len(t) : HoldingOf(u, n) = HoldingOf(t, n) /\ HoldingOf(t, n) \in Int
      /\ HoldingOf(u, Len(t) + 1) = HoldingOf(t, Len(t)) + Bought(trade)
  BY HoldingAppend, HoldingTyped
<1>4. /\ PaidOf(t) \in Int /\ PaidOf(u) = PaidOf(t) + Bought(trade) * trade.price
      /\ RoundingOf(t) \in Int
      /\ RoundingOf(u) = RoundingOf(t) + HoldingOf(t, Len(t)) + Bought(trade)
  BY PaidAppend, RoundingAppend
<1>5. /\ Bought(trade) \in Int /\ Bought(trade) * trade.price \in Int
      /\ trade.qty \in Nat /\ trade.price \in Nat
  BY BoughtTyped DEF TradeType
<1>6. Len(t) = 0 => HoldingOf(t, Len(t)) = 0 /\ PaidOf(t) = 0 /\ RoundingOf(t) = 0
  BY <1>2, SumEmpty DEF HoldingOf, PaidOf, RoundingOf
<1> HIDE DEF u
<1>7. new.qty = HoldingOf(u, Len(u))
  <2>1. CASE pos = NoPosition
    <3>1. new.qty = Bought(trade)
      BY <2>1 DEF ApplyTrade, Opened, Bought
    <3> QED
      BY <1>2, <1>3, <1>5, <1>6, <2>1, <3>1 DEF Accounts
  <2>2. CASE pos # NoPosition
    <3>1. pos.qty \in Int /\ pos.qty = HoldingOf(t, Len(t))
      BY <2>2 DEF Accounts, Position
    <3>2. new.qty = pos.qty + Bought(trade)
      BY <1>5, <2>2, <3>1 DEF ApplyTrade, Sold, AddedToLong, CoveredShort, Bought
    <3> QED
      BY <1>2, <1>3, <3>1, <3>2
  <2> QED
    BY <2>1, <2>2
<1>8. ASSUME \A n \in DOMAIN u : HoldingOf(u, n) >= 0
      PROVE  /\ 2 * Magnitude(new.costBasis - new.realized - PaidOf(u)) <= RoundingOf(u)
             /\ 2 * Magnitude(new.qty * new.avgCost - new.realized - PaidOf(u)) <= RoundingOf(u)
  <2> DEFINE gap == new.costBasis - new.realized - PaidOf(u)
             off == new.qty * new.avgCost - new.costBasis
  <2>1. /\ new.qty >= 0 /\ RoundingOf(u) = RoundingOf(t) + new.qty
        /\ \A n \in DOMAIN t : HoldingOf(t, n) >= 0
    <3>1. Len(u) \in DOMAIN u /\ DOMAIN t \subseteq DOMAIN u /\ DOMAIN t \subseteq 0..Len(t)
      BY <1>2
    <3>2. HoldingOf(t, Len(t)) \in Int /\ HoldingOf(u, Len(u)) = HoldingOf(t, Len(t)) + Bought(trade)
      BY <1>2, <1>3
    <3> HIDE DEF new
    <3>3. new.qty = HoldingOf(t, Len(t)) + Bought(trade) /\ new.qty >= 0
      BY <1>7, <1>8, <3>1, <3>2
    <3>4. RoundingOf(u) = RoundingOf(t) + new.qty
      BY <1>1, <1>4, <1>5, <3>2, <3>3
    <3> QED
      BY <1>3, <1>8, <3>1, <3>3, <3>4
  <2>2. 2 * Magnitude(gap) <= RoundingOf(t) /\ 2 * Magnitude(off) <= new.qty /\ gap \in Int
    <3>1. CASE pos = NoPosition
      <4>1. /\ IsBuy(trade) /\ new.qty = trade.qty /\ Bought(trade) = trade.qty
            /\ new.avgCost = trade.price /\ new.realized = 0
            /\ new.costBasis = trade.qty * trade.price
        BY <1>5, <2>1, <3>1 DEF ApplyTrade, Opened, Bought
      <4>2. PaidOf(t) = 0 /\ RoundingOf(t) = 0
        BY <1>6, <3>1 DEF Accounts
      <4>3. trade.qty * trade.price \in Int
        BY <1>5, ProductTyped
      <4>4. gap = 0 /\ off = 0
        BY <1>4, <4>1, <4>2, <4>3
      <4> HIDE DEF gap, off
      <4> QED
        BY <1>1, <2>1, <4>2, <4>4 DEF Magnitude
    <3>2. CASE pos # NoPosition
      <4>1. /\ pos \in Position /\ pos.qty \in Int /\ pos.avgCost \in Int /\ pos.realized \in Int
            /\ pos.qty = HoldingOf(t, Len(t))
            /\ 2 * Magnitude(pos.qty * pos.avgCost - pos.realized - PaidOf(t)) <= RoundingOf(t)
        BY <2>1, <3>2 DEF Accounts, Position
      <4>2. pos.qty >= 0
        <5>1. Len(t) \in DOMAIN t
          BY <1>2, <3>2 DEF Accounts
        <5> QED
          BY <2>1, <4>1, <5>1
      <4>3. /\ new.costBasis - new.realized - Bought(trade) * trade.price
                  = pos.qty * pos.avgCost - pos.realized
            /\ 2 * Magnitude(off) <= new.qty
        BY <2>1, <4>1, <4>2, TradeCost
      <4>4. gap = pos.qty * pos.avgCost - pos.realized - PaidOf(t) /\ gap \in Int
        <5>1. pos.qty * pos.avgCost \in Int
          BY <4>1, ProductTyped
        <5> DEFINE b == Bought(trade) * trade.price
                   c == pos.qty * pos.avgCost
        <5>2. /\ b \in Int /\ c \in Int /\ PaidOf(u) = PaidOf(t) + b
              /\ new.costBasis - new.realized - b = c - pos.realized
          BY <1>4, <1>5, <4>3, <5>1
        <5> HIDE DEF new, b, c
        <5>3. \A cost, profit, m, paid, d, e \in Int :
                cost - profit - m = d - e => cost - profit - (paid + m) = d - e - paid
          OBVIOUS
        <5>4. gap = c - pos.realized - PaidOf(t)
          <6>1. /\ new.costBasis \in Int /\ new.realized \in Int
                /\ PaidOf(t) \in Int /\ pos.realized \in Int
            BY <1>1, <1>4, <4>1
          <6>2. new.costBasis - new.realized - (PaidOf(t) + b) = c - pos.realized - PaidOf(t)
            BY <5>2, <5>3, <6>1
          <6> QED
            BY <5>2, <6>2
        <5>5. c - pos.realized - PaidOf(t) \in Int
          BY <1>4, <4>1, <5>2
        <5> QED
          BY <5>4, <5>5 DEF c
      <4> QED
        BY <4>1, <4>3, <4>4
    <3> QED
      BY <3>1, <3>2
  <2>3. new.qty * new.avgCost \in Int
    BY <1>1, ProductTyped
  <2>4. /\ new.qty * new.avgCost - new.realized - PaidOf(u) = gap + off /\ off \in Int
        /\ PaidOf(u) \in Int
    <3> DEFINE w == new.qty * new.avgCost
    <3>1. PaidOf(u) \in Int /\ w \in Int
      <4> HIDE DEF new
      <4> QED
        BY <1>4, <1>5, <2>3
    <3> HIDE DEF new, w
    <3>2. w - new.realized - PaidOf(u) = gap + (w - new.costBasis) /\ w - new.costBasis \in Int
      BY <1>1, <3>1
    <3> QED
      BY <3>1, <3>2 DEF w
  <2> HIDE DEF gap, off, new
  <2>5. 2 * Magnitude(gap) <= RoundingOf(u) /\ 2 * Magnitude(gap + off) <= RoundingOf(u)
    <3>1. \A x, y, m, n \in Int : 2 * Magnitude(x) <= m /\ 2 * Magnitude(y) <= n /\ n >= 0
            => 2 * Magnitude(x) <= m + n /\ 2 * Magnitude(x + y) <= m + n
      BY DEF Magnitude
    <3>2. new.qty \in Int /\ new.qty >= 0 /\ RoundingOf(t) \in Int
      BY <1>1, <1>4, <2>1
    <3> QED
      BY <2>1, <2>2, <2>4, <3>1, <3>2
  <2> QED
    BY <2>4, <2>5 DEF gap
<1> HIDE DEF new
<1>9. Accounts(new, u)
  BY <1>1, <1>2, <1>7, <1>8 DEF Accounts
<1> QED
  BY <1>9 DEF new, u

(* A step leaves a position and its tape alone, or applies a trade to both *)
(* (what the writer has seen is what the row holds).                       *)
LEMMA TapeFrame ==
  ASSUME TypeOK, WellFormed, Locks, [Next]_vars, NEW p \in Portfolios
  PROVE  \/ position'[p] = position[p] /\ tape'[p] = tape[p]
         \/ \E trade \in TradeType :
              /\ trade.qty > 0 /\ tape'[p] = Append(tape[p], trade)
              /\ position'[p] = ApplyTrade(position[p], trade)
<1> DEFINE Same == position'[p] = position[p] /\ tape'[p] = tape[p]
<1>1. CASE UNCHANGED vars
  BY <1>1 DEF vars
<1>2. ASSUME NEW o \in Orders, PlaceCheck(o) \/ PlaceSave(o) PROVE Same
  BY <1>2 DEF PlaceCheck, PlaceSave
<1>3. ASSUME NEW r \in Requests, NEW o \in Orders, Enters(r, o) PROVE Same
  BY <1>3 DEF Enters, CancelRead, ModifyRead, FillRead, Start
<1>4. ASSUME NEW r \in Requests, Step(r) \/ Settle(r) \/ Fault(r), ~WritePosition(r) PROVE Same
  BY <1>4 DEF Step, CancelWrite, ModifyWrite, InsertExecution, ApplyRead, ApplyWrite,
         BeginPosition, LockPosition, CommitFill, PoolTimeout, Settle, Fault
<1>5. ASSUME NEW r \in Requests, WritePosition(r), ~Same
      PROVE  \E trade \in TradeType :
               /\ trade.qty > 0 /\ tape'[p] = Append(tape[p], trade)
               /\ position'[p] = ApplyTrade(position[p], trade)
  <2>1. /\ pc[r] = "positionWrite" /\ r \in InFlight
        /\ ~(seen[r].position = NoPosition /\ position[Portfolio(r)] # NoPosition)
        /\ position' = [position EXCEPT ![Portfolio(r)] = ApplyTrade(seen[r].position, Trade(r))]
        /\ tape' = [tape EXCEPT ![Portfolio(r)] = Append(@, Trade(r))]
    BY <1>5 DEF WritePosition, InFlight, Over
  <2>2. Portfolio(r) = p
    BY <1>5, <2>1 DEF TypeOK
  <2>3. seen[r].position = position[p]
    BY <2>1, <2>2 DEF Locks, HoldsLock
  <2>4. req[r].qty \in Nat /\ req[r].price \in Nat /\ req[r].qty > 0 /\ req[r].order \in Orders
    BY <2>1 DEF TypeOK, WellFormed, FillStages, PositionStages
  <2>5. Trade(r) \in TradeType /\ Trade(r).qty > 0
    BY <2>4, TicketTyped DEF Trade, TradeType
  <2>6. tape'[p] = Append(tape[p], Trade(r)) /\ position'[p] = ApplyTrade(position[p], Trade(r))
    BY <2>1, <2>2, <2>3 DEF TypeOK
  <2> QED
    BY <2>5, <2>6
<1> QED
  BY <1>1, <1>2, <1>3, <1>4, <1>5 DEF Next, Enters, Step

(* While a portfolio has never been short, its cost basis less its         *)
(* realized profit stays within the roundings of the money that went in,   *)
(* for any number of trades, of any quantities and prices.                 *)
THEOREM CostFollowsMoney == Spec => []LongCost
<1>1. Init => Locks /\ CostInv
  <2>1. Init => Locks
    BY DEF Init, Locks, HoldsLock
  <2>2. Init => CostInv
    BY DEF Init, CostInv, Accounts
  <2> QED
    BY <2>1, <2>2
<1>2. TypeOK /\ WellFormed /\ Locks /\ CostInv /\ [Next]_vars => CostInv'
  <2> SUFFICES ASSUME TypeOK, WellFormed, Locks, CostInv, [Next]_vars, NEW p \in Portfolios
               PROVE  Accounts(position'[p], tape'[p])
    BY DEF CostInv
  <2>1. /\ position[p] \in Position \cup {NoPosition} /\ tape[p] \in Seq(TradeType)
        /\ Accounts(position[p], tape[p])
    BY DEF TypeOK, TradeType, CostInv
  <2> QED
    BY <2>1, AccountsStep, TapeFrame
<1>3. TypeOK /\ CostInv => LongCost
  <2> SUFFICES ASSUME TypeOK, CostInv, NEW p \in Portfolios, position[p] # NoPosition, NeverShort(p)
               PROVE  /\ position[p].qty = Holding(p, Len(tape[p]))
                      /\ 2 * Magnitude(position[p].costBasis - position[p].realized - Paid(p))
                           <= SumFunction([n \in DOMAIN tape[p] |-> Holding(p, n)])
    BY DEF LongCost
  <2>1. Accounts(position[p], tape[p])
    BY DEF CostInv
  <2>2. \A n : Holding(p, n) = HoldingOf(tape[p], n)
    BY TradingSums DEF Holding, HoldingOf
  <2>3. Paid(p) = PaidOf(tape[p])
    BY TradingSums DEF Paid, PaidOf
  <2>4. SumFunction([n \in DOMAIN tape[p] |-> Holding(p, n)]) = RoundingOf(tape[p])
    BY <2>2, TradingSums DEF RoundingOf
  <2> QED
    BY <2>1, <2>2, <2>3, <2>4 DEF Accounts, NeverShort
<1> QED
  BY Typed, <1>1, <1>2, <1>3, LocksStep, PTL DEF Spec
=============================================================================
