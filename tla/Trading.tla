------------------------------- MODULE Trading -------------------------------
(***************************************************************************)
(* OrdersService, ExecutionsService and PositionsService of the investment *)
(* bank over one PostgreSQL connection pool.  A request is one call of     *)
(* recordFill, cancel or modify, one step per statement.                   *)
(*                                                                         *)
(* recordFill opens a transaction for the execution and, inside it, calls  *)
(* applyFill, whose queries take connections of their own and commit at    *)
(* once, and applyExecution, which opens a second transaction on a second  *)
(* connection.  The execution of request r is visible once pc[r] is        *)
(* "recorded" or "settled".                                                *)
(***************************************************************************)
EXTENDS Positions, Sequences, Functions, FiniteSets

CONSTANTS
  Orders,       \* calls of place, and the orders they create
  Requests,     \* calls of recordFill, cancel and modify
  Portfolios,
  NoPortfolio,  \* the order names no portfolio
  NoOrder,
  Ticket,       \* per order: [side, qty, portfolio]
  LotSize,      \* instruments.lot_size
  Fills,        \* [qty, price] a venue may report
  NewQtys,      \* quantities a trader may ask for in modify
  PoolSizes,    \* values DATABASE_POOL_MAX may have
  Exclusive,    \* the requests of one order are sent one after the other
  MaxFaults     \* bound: statements that fail

Sides == {"BUY", "SELL", "SELL_SHORT", "BUY_MINUS"}

ASSUME TradingConstants ==
  /\ Ticket \in [Orders -> [side : Sides, qty : Nat \ {0},
                            portfolio : Portfolios \cup {NoPortfolio}]]
  /\ Fills \subseteq [qty : Nat \ {0}, price : Nat \ {0}]
  /\ NewQtys \subseteq Nat \ {0}
  /\ LotSize \in Nat \ {0} /\ PoolSizes \subseteq Nat \ {0} /\ MaxFaults \in Nat
  /\ Exclusive \in BOOLEAN
  /\ NoPortfolio \notin Portfolios /\ NoOrder \notin Orders
  /\ NoPosition \notin [qty : Int, avgCost : Nat, costBasis : Nat, realized : Int]

VARIABLES
  pool,      \* DATABASE_POOL_MAX, read once when the application starts
  vetted,    \* place: the verdict of runPreTradeChecks
  order,     \* orders rows: status, qty, cum, leaves
  position,  \* positions rows by portfolio
  pc,        \* the statement a request executes next
  req,       \* what it was asked to do
  seen,      \* the order and the position it has read
  tape,      \* history: the trades applied to a position, in order
  faults

vars == <<pool, vetted, order, position, pc, req, seen, tape, faults>>

Position == [qty : Int, avgCost : Nat, costBasis : Nat, realized : Int]
Absent == [status |-> "absent", qty |-> 0, cum |-> 0, leaves |-> 0]
NoRequest == [kind |-> "none", order |-> NoOrder, qty |-> 0, price |-> 0]
Over == {"refused", "failed", "done", "recorded", "settled"}

Init ==
  /\ pool \in PoolSizes
  /\ vetted = [o \in Orders |-> "no"]
  /\ order = [o \in Orders |-> Absent]
  /\ position = [p \in Portfolios |-> NoPosition]
  /\ pc = [r \in Requests |-> "idle"]
  /\ req = [r \in Requests |-> NoRequest]
  /\ seen = [r \in Requests |-> [qty |-> 0, cum |-> 0, position |-> NoPosition]]
  /\ tape = [p \in Portfolios |-> <<>>]
  /\ faults = 0

-----------------------------------------------------------------------------
InFlight == {r \in Requests : pc[r] \notin Over \cup {"idle"}}

(* The transaction of the execution, and that of the position inside it.   *)
OneConnection == {r \in Requests : pc[r] \in {"applyRead", "applyWrite", "position", "commit"}}
TwoConnections == {r \in Requests : pc[r] \in {"lock", "positionWrite"}}

Free == pool - Cardinality(OneConnection) - 2 * Cardinality(TwoConnections)

(* A query outside a transaction, and a new transaction, need a connection *)
(* of the pool.                                                            *)
Connect == Free > 0

NeedsPool(r) ==
  pc[r] \in {"execute", "applyRead", "applyWrite", "position", "cancel", "modify"}

Portfolio(r) == Ticket[req[r].order].portfolio

Trade(r) == [side |-> Ticket[req[r].order].side, qty |-> req[r].qty, price |-> req[r].price]

Goto(r, next) == pc' = [pc EXCEPT ![r] = next]

(* The exception leaves recordFill: its transactions are rolled back, and  *)
(* what applyFill and applyExecution have committed stays.                 *)
Throw(r) == Goto(r, "failed")

(* A request starts by reading its order.                                  *)
Start(r, kind, o, qty, price) ==
  /\ pc[r] = "idle"
  /\ Connect
  /\ Exclusive => \A q \in InFlight : req[q].order # o
  /\ req' = [req EXCEPT ![r] = [kind |-> kind, order |-> o, qty |-> qty, price |-> price]]
  /\ seen' = [seen EXCEPT ![r].qty = order[o].qty, ![r].cum = order[o].cum]
  /\ UNCHANGED <<pool, vetted, order, position, tape, faults>>

-----------------------------------------------------------------------------
(* place: the pre-trade checks read the position, then the order is saved  *)
(* as NEW or REJECTED.  The lookups of instrument and portfolio succeed.   *)

Held(p) == IF position[p] = NoPosition THEN 0 ELSE position[p].qty

PlaceCheck(o) ==
  LET t == Ticket[o]
      short == t.side = "SELL_SHORT" /\ t.portfolio # NoPortfolio /\ Held(t.portfolio) < t.qty
  IN /\ vetted[o] = "no"
     /\ Connect
     /\ vetted' = [vetted EXCEPT ![o] = IF t.qty % LotSize = 0 /\ ~short
                                        THEN "passed" ELSE "failed"]
     /\ UNCHANGED <<pool, order, position, pc, req, seen, tape, faults>>

PlaceSave(o) ==
  /\ vetted[o] # "no" /\ order[o] = Absent
  /\ Connect
  /\ order' = [order EXCEPT ![o] =
                [status |-> IF vetted[o] = "passed" THEN "NEW" ELSE "REJECTED",
                 qty |-> Ticket[o].qty, cum |-> 0, leaves |-> Ticket[o].qty]]
  /\ UNCHANGED <<pool, vetted, position, pc, req, seen, tape, faults>>

-----------------------------------------------------------------------------
(* cancel and modify.  A modify without a quantity changes nothing here.   *)

CancelRead(r, o) ==
  /\ Start(r, "cancel", o, 0, 0)
  /\ Goto(r, IF order[o].status \in {"NEW", "PARTIALLY_FILLED"} THEN "cancel" ELSE "refused")

CancelWrite(r) ==
  /\ pc[r] = "cancel"
  /\ Connect
  /\ order' = [order EXCEPT ![req[r].order].status = "CANCELLED", ![req[r].order].leaves = 0]
  /\ Goto(r, "done")
  /\ UNCHANGED <<pool, vetted, position, req, seen, tape, faults>>

(* Mutant: nothing compares the new quantity with what is filled.          *)
ModifyUnchecked(r, o, qty) ==
  /\ Start(r, "modify", o, qty, 0)
  /\ Goto(r, IF order[o].status \in {"NEW", "PARTIALLY_FILLED"} THEN "modify" ELSE "refused")

ModifyRead(r, o, qty) ==
  /\ Start(r, "modify", o, qty, 0)
  /\ Goto(r, IF order[o].status \in {"NEW", "PARTIALLY_FILLED"} /\ qty > order[o].cum
             THEN "modify" ELSE "refused")

ModifyWrite(r) ==
  /\ pc[r] = "modify"
  /\ Connect
  /\ order' = [order EXCEPT ![req[r].order].qty = req[r].qty,
                            ![req[r].order].leaves = req[r].qty - seen[r].cum]
  /\ Goto(r, "done")
  /\ UNCHANGED <<pool, vetted, position, req, seen, tape, faults>>

-----------------------------------------------------------------------------
(* recordFill                                                              *)

FillRead(r, o, fill) ==
  /\ Start(r, "fill", o, fill.qty, fill.price)
  /\ Goto(r, IF order[o].status \in {"NEW", "PARTIALLY_FILLED"} /\ fill.qty <= order[o].leaves
             THEN "execute" ELSE "refused")

(* BEGIN and the insert of the execution, still uncommitted.               *)
InsertExecution(r) ==
  /\ pc[r] = "execute"
  /\ Connect
  /\ Goto(r, "applyRead")
  /\ UNCHANGED <<pool, vetted, order, position, req, seen, tape, faults>>

(* Mutant: applyFill is not awaited and fails unnoticed.                   *)
ApplySkipped(r) ==
  /\ pc[r] = "applyRead"
  /\ Connect
  /\ Goto(r, "position")
  /\ UNCHANGED <<pool, vetted, order, position, req, seen, tape, faults>>

(* applyFill reads the order again ...                                     *)
ApplyRead(r) ==
  /\ pc[r] = "applyRead"
  /\ Connect
  /\ seen' = [seen EXCEPT ![r].qty = order[req[r].order].qty,
                          ![r].cum = order[req[r].order].cum]
  /\ Goto(r, "applyWrite")
  /\ UNCHANGED <<pool, vetted, order, position, req, tape, faults>>

AfterApply(r) == IF Portfolio(r) = NoPortfolio THEN "commit" ELSE "position"

(* Mutant: an order is FILLED only when more than its quantity is.         *)
ApplyLate(r) ==
  LET cum == seen[r].cum + req[r].qty
      leaves == seen[r].qty - cum
  IN /\ pc[r] = "applyWrite"
     /\ Connect
     /\ order' = [order EXCEPT ![req[r].order] =
                   [status |-> IF leaves < 0 THEN "FILLED" ELSE "PARTIALLY_FILLED",
                    qty |-> @.qty, cum |-> cum, leaves |-> IF leaves < 0 THEN 0 ELSE leaves]]
     /\ Goto(r, AfterApply(r))
     /\ UNCHANGED <<pool, vetted, position, req, seen, tape, faults>>

(* ... and writes what follows from what it read.  The average price is    *)
(* left out.                                                               *)
ApplyWrite(r) ==
  LET cum == seen[r].cum + req[r].qty
      leaves == seen[r].qty - cum
  IN /\ pc[r] = "applyWrite"
     /\ Connect
     /\ order' = [order EXCEPT ![req[r].order] =
                   [status |-> IF leaves <= 0 THEN "FILLED" ELSE "PARTIALLY_FILLED",
                    qty |-> @.qty, cum |-> cum, leaves |-> IF leaves < 0 THEN 0 ELSE leaves]]
     /\ Goto(r, AfterApply(r))
     /\ UNCHANGED <<pool, vetted, position, req, seen, tape, faults>>

(* applyExecution begins a transaction of its own.                         *)
BeginPosition(r) ==
  /\ pc[r] = "position"
  /\ Connect
  /\ Goto(r, "lock")
  /\ UNCHANGED <<pool, vetted, order, position, req, seen, tape, faults>>

(* The fills whose transaction holds the lock of a positions row.          *)
LockHolders(p) ==
  {q \in Requests : pc[q] = "positionWrite" /\ Portfolio(q) = p
                      /\ seen[q].position # NoPosition}

(* Mutant: the position is read without a lock.                            *)
ReadUnlocked(r) ==
  /\ pc[r] = "lock"
  /\ seen' = [seen EXCEPT ![r].position = position[Portfolio(r)]]
  /\ Goto(r, "positionWrite")
  /\ UNCHANGED <<pool, vetted, order, position, req, tape, faults>>

(* SELECT ... FOR UPDATE waits for the row lock; without a row there is    *)
(* nothing to lock.                                                        *)
LockPosition(r) ==
  /\ pc[r] = "lock"
  /\ LockHolders(Portfolio(r)) = {}
  /\ seen' = [seen EXCEPT ![r].position = position[Portfolio(r)]]
  /\ Goto(r, "positionWrite")
  /\ UNCHANGED <<pool, vetted, order, position, req, tape, faults>>

(* INSERT or UPDATE, and COMMIT.  The unique key of portfolio and          *)
(* instrument refuses a second INSERT.                                     *)
WritePosition(r) ==
  LET p == Portfolio(r) IN
  /\ pc[r] = "positionWrite"
  /\ IF seen[r].position = NoPosition /\ position[p] # NoPosition
     THEN Throw(r) /\ UNCHANGED <<position, tape>>
     ELSE /\ position' = [position EXCEPT ![p] = ApplyTrade(seen[r].position, Trade(r))]
          /\ tape' = [tape EXCEPT ![p] = Append(@, Trade(r))]
          /\ Goto(r, "commit")
  /\ UNCHANGED <<pool, vetted, order, req, seen, faults>>

CommitFill(r) ==
  /\ pc[r] = "commit"
  /\ Goto(r, "recorded")
  /\ UNCHANGED <<pool, vetted, order, position, req, seen, tape, faults>>

(* settle marks an execution, whatever its settlement status is.           *)
Settle(r) ==
  /\ pc[r] = "recorded"
  /\ Connect
  /\ Goto(r, "settled")
  /\ UNCHANGED <<pool, vetted, order, position, req, seen, tape, faults>>

-----------------------------------------------------------------------------
(* Mutant: a pool without connectionTimeoutMillis.                         *)
WaitForever(r) == FALSE

(* Nobody gave a connection back within connectionTimeoutMillis.           *)
PoolTimeout(r) ==
  /\ NeedsPool(r) /\ ~Connect
  /\ Throw(r)
  /\ UNCHANGED <<pool, vetted, order, position, req, seen, tape, faults>>

(* A statement fails without effect.                                       *)
Fault(r) ==
  /\ r \in InFlight
  /\ faults < MaxFaults
  /\ faults' = faults + 1
  /\ Throw(r)
  /\ UNCHANGED <<pool, vetted, order, position, req, seen, tape>>

Step(r) ==
  \/ CancelWrite(r) \/ ModifyWrite(r)
  \/ InsertExecution(r) \/ ApplyRead(r) \/ ApplyWrite(r)
  \/ BeginPosition(r) \/ LockPosition(r) \/ WritePosition(r) \/ CommitFill(r)
  \/ PoolTimeout(r)

Next ==
  \/ \E o \in Orders : PlaceCheck(o) \/ PlaceSave(o)
  \/ \E r \in Requests :
       \/ Step(r) \/ Settle(r) \/ Fault(r)
       \/ \E o \in Orders : \/ CancelRead(r, o)
                            \/ \E qty \in NewQtys : ModifyRead(r, o, qty)
                            \/ \E fill \in Fills : FillRead(r, o, fill)

Spec == Init /\ [][Next]_vars

(* A statement that can run runs, and the pool's timeout fires.  Nobody    *)
(* has to place, fill, cancel or settle anything.                          *)
FairSpec == Spec /\ \A r \in Requests : WF_vars(Step(r))

-----------------------------------------------------------------------------
(* Properties.                                                             *)

(* Every variable has its type.  leaves_qty never becomes negative, which  *)
(* modify only prevents by comparing the new quantity with cum_qty.        *)
TypeOK ==
  /\ pool \in PoolSizes
  /\ vetted \in [Orders -> {"no", "passed", "failed"}]
  /\ order \in [Orders -> [status : {"absent", "NEW", "REJECTED", "PARTIALLY_FILLED",
                                      "FILLED", "CANCELLED"},
                            qty : Nat, cum : Nat, leaves : Nat]]
  /\ position \in [Portfolios -> Position \cup {NoPosition}]
  /\ pc \in [Requests -> {"idle", "cancel", "modify", "execute", "applyRead", "applyWrite",
                          "position", "lock", "positionWrite", "commit"} \cup Over]
  /\ req \in [Requests -> [kind : {"none", "fill", "cancel", "modify"},
                           order : Orders \cup {NoOrder}, qty : Nat, price : Nat]]
  /\ seen \in [Requests -> [qty : Nat, cum : Nat, position : Position \cup {NoPosition}]]
  /\ tape \in [Portfolios -> Seq([side : Sides, qty : Nat, price : Nat])]
  /\ faults \in 0..MaxFaults

(* Order quantities add up although fills, cancels and modifications of    *)
(* the order follow each other closely and fills fail half-way: nothing    *)
(* is filled beyond the quantity, leaves is what is missing, and FILLED    *)
(* means exactly that nothing is (the requests of one order do not         *)
(* overlap; those of other orders share positions and connections).        *)
OrderArithmetic ==
  Exclusive =>
    \A o \in Orders : order[o] # Absent =>
      /\ order[o].cum <= order[o].qty
      /\ order[o].leaves = IF order[o].status = "CANCELLED" THEN 0
                           ELSE order[o].qty - order[o].cum
      /\ order[o].status = "FILLED" <=> order[o].cum = order[o].qty
      /\ order[o].status \in {"NEW", "REJECTED"} => order[o].cum = 0

(* The quantity of an order's executions in the books.                     *)
Recorded(o) ==
  SumFunction([r \in {q \in Requests : pc[q] \in {"recorded", "settled"} /\ req[q].order = o}
                 |-> req[r].qty])

(* Every execution in the books has been counted on its order, whatever    *)
(* failed before or after it (recordFill calls applyFill before it commits *)
(* the execution).                                                         *)
ExecutionsCounted == Exclusive => \A o \in Orders : Recorded(o) <= order[o].cum

(* A position changes by one whole trade at a time, applied to what the    *)
(* row holds at that moment: no overlapping fill of any order loses        *)
(* another's (the pessimistic_write lock of applyExecution).               *)
PositionSteps ==
  [][\A p \in Portfolios : position'[p] # position[p] =>
       \E r \in Requests : /\ pc[r] = "positionWrite" /\ Portfolio(r) = p
                           /\ position'[p] = ApplyTrade(position[p], Trade(r))]_vars

(* What the trades 1..n of a portfolio amount to: the quantity held, and   *)
(* the money paid less the money received.                                 *)
Bought(trade) == IF IsBuy(trade) THEN trade.qty ELSE -trade.qty
Holding(p, n) == SumFunction([i \in 1..n |-> Bought(tape[p][i])])
Paid(p) == SumFunction([i \in DOMAIN tape[p] |-> Bought(tape[p][i]) * tape[p][i].price])
NeverShort(p) == \A n \in DOMAIN tape[p] : Holding(p, n) >= 0

(* Cost accounting: as long as a portfolio was never short, its cost basis *)
(* less its realized profit is the money that went in, up to the rounding  *)
(* of the average cost, half a unit per share held at each trade (buys     *)
(* average in, sales realize against the average cost).                    *)
LongCost ==
  \A p \in Portfolios : position[p] # NoPosition /\ NeverShort(p) =>
    /\ position[p].qty = Holding(p, Len(tape[p]))
    /\ 2 * Magnitude(position[p].costBasis - position[p].realized - Paid(p))
         <= SumFunction([n \in DOMAIN tape[p] |-> Holding(p, n)])

(* Every request is answered: fills that hold a connection and wait for a  *)
(* second one cannot wait for each other for ever.  Requests start once    *)
(* each, so from some moment on none is in flight.                         *)
FillsAnswered == <>[](InFlight = {})

(* Claimed by the comment of applyExecution, "advisory locking to prevent  *)
(* race conditions": when nothing fails, fills that are over have counted  *)
(* on their order exactly what is in the books.                            *)
OrdersMatchExecutions ==
  faults = 0 /\ InFlight = {} => \A o \in Orders : Recorded(o) = order[o].cum
=============================================================================
