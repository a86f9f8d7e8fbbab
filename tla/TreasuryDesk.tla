----------------------------- MODULE TreasuryDesk -----------------------------
(***************************************************************************)
(* Two services of the treasury that deal in the bank's own money, in      *)
(* memory, one call at a time.                                             *)
(* FxDeskService: spot and forward deals at the desk's own quotes, their   *)
(* settlement, cancellation and mark to market.  Rates are in units of     *)
(* 0.00001, amounts of base currency in whole units, results in cents.     *)
(* The quotes are constants of the code.  Below it CashPoolingService: one *)
(* active pool of accounts.                                                *)
(***************************************************************************)
EXTENDS Integers, Sequences, SequencesExt, Functions

CONSTANTS
  Pairs,         \* currency pairs with forward points
  Mid, Spread,   \* per pair: SPOT_RATES, the spread an even number of units
  Tenors, Points, \* per pair and tenor: [bid, ask], in tenths of a pip
  TenthPip,      \* per pair: a tenth of pipSize for its name in capitals
  PlainTenthPip, \* the same for a name in small letters, which has no entry
  Deals, BaseAmounts

ASSUME DeskConstants ==
  /\ \A p \in Pairs : Mid[p] \in Nat /\ Spread[p] \in Nat /\ Spread[p] % 2 = 0 /\ TenthPip[p] \in Nat
  /\ \A p \in Pairs, t \in Tenors : Points[p][t].bid \in Int /\ Points[p][t].ask \in Int
                                     /\ Points[p][t].bid <= Points[p][t].ask
  /\ PlainTenthPip \in Nat /\ BaseAmounts \subseteq Nat \ {0}

VARIABLES
  deals,    \* dealStore
  marks     \* history: deals marked at least once

fxVars == <<deals, marks>>

Spellings == {"capitals", "small"}
Spot == "SPOT"   \* in the place of a tenor

FxInit == deals = [d \in {} |-> 0] /\ marks = {}

-----------------------------------------------------------------------------
(* Rates are found under any spelling; pipSize looks the name up as given. *)
PipUnits(p, spelling) == IF spelling = "capitals" THEN TenthPip[p] ELSE PlainTenthPip

(* Who buys pays the ask, who sells receives the bid, spot and forward.    *)
Quote(p, spelling, tenor, side) ==
  IF tenor = Spot
  THEN IF side = "BUY" THEN Mid[p] + Spread[p] \div 2 ELSE Mid[p] - Spread[p] \div 2
  ELSE Mid[p] + PipUnits(p, spelling) *
         (IF side = "BUY" THEN Points[p][tenor].ask ELSE Points[p][tenor].bid)

(* toFixed(2) of a product of units: a half cent goes away from zero.      *)
Cents(n) == IF n >= 0 THEN (n + 500) \div 1000 ELSE -((500 - n) \div 1000)

(* What settling and marking compute: the deal against the spot mid, for a *)
(* forward as for a spot deal.                                             *)
Result(deal) ==
  Cents((IF deal.side = "BUY" THEN Mid[deal.pair] - deal.rate ELSE deal.rate - Mid[deal.pair])
          * deal.base)

Book(d, p, spelling, tenor, side, base) ==
  /\ d \notin DOMAIN deals
  /\ deals' = [e \in DOMAIN deals \cup {d} |->
       IF e # d THEN deals[e]
       ELSE [pair |-> p, spelling |-> spelling, tenor |-> tenor, side |-> side, base |-> base,
             rate |-> Quote(p, spelling, tenor, side), status |-> "CONFIRMED",
             unrealized |-> 0, realized |-> 0]]
  /\ UNCHANGED marks

BookSpotDeal(d, p, spelling, side, base) == Book(d, p, spelling, Spot, side, base)

BookForwardDeal(d, p, spelling, tenor, side, base) ==
  tenor # Spot /\ Book(d, p, spelling, tenor, side, base)

(* A cancelled deal may be cancelled again.  It keeps its mark.            *)
CancelDeal(d) ==
  /\ d \in DOMAIN deals /\ deals[d].status # "SETTLED"
  /\ deals' = [deals EXCEPT ![d].status = "CANCELLED"] /\ UNCHANGED marks

SettleDeal(d) ==
  /\ d \in DOMAIN deals /\ deals[d].status = "CONFIRMED"
  /\ deals' = [deals EXCEPT ![d].status = "SETTLED", ![d].realized = Result(deals[d]),
                            ![d].unrealized = 0]
  /\ UNCHANGED marks

MarkToMarket(d) ==
  /\ d \in DOMAIN deals /\ deals[d].status = "CONFIRMED"
  /\ deals' = [deals EXCEPT ![d].unrealized = Result(deals[d])]
  /\ marks' = marks \cup {d}

FxNext ==
  \E d \in Deals :
    \/ CancelDeal(d) \/ SettleDeal(d) \/ MarkToMarket(d)
    \/ \E p \in Pairs, s \in Spellings, side \in {"BUY", "SELL"}, b \in BaseAmounts :
         BookSpotDeal(d, p, s, side, b) \/ \E t \in Tenors : BookForwardDeal(d, p, s, t, side, b)

FxSpec == FxInit /\ [][FxNext]_fxVars

-----------------------------------------------------------------------------
(* The deals hold what their interface says.                               *)
FxTypeOK ==
  \A d \in DOMAIN deals :
    /\ deals[d].status \in {"CONFIRMED", "SETTLED", "CANCELLED"}
    /\ deals[d].rate \in Int /\ deals[d].unrealized \in Int /\ deals[d].realized \in Int

(* What a deal has come to, settled or marked.                             *)
Outcome(d) == deals[d].realized + deals[d].unrealized

(* Buying and selling the same amount at one date never makes money on the *)
(* desk's quotes, however the two are marked, settled and rounded -- as    *)
(* long as both calls spell the pair alike, because the size of a pip      *)
(* depends on the spelling.                                                *)
RoundTripsCost ==
  \A d, e \in DOMAIN deals :
    (/\ deals[d].side = "BUY" /\ deals[e].side = "SELL"
     /\ \A field \in {"pair", "spelling", "tenor", "base"} : deals[d][field] = deals[e][field]
     /\ {d, e} \subseteq {f \in DOMAIN deals : deals[f].status = "SETTLED" \/ f \in marks})
      => Outcome(d) + Outcome(e) <= 0

-----------------------------------------------------------------------------
(* CashPoolingService: the accounts of the pool in the order of the list   *)
(* (account 1 is the header), the physical sweep, the interest of notional *)
(* pooling and the allocation of interest.  Balances and the daily rate    *)
(* are integers.                                                           *)

CONSTANTS
  Sub,            \* number of accounts below the header
  Target,         \* per account: targetBalance
  Sweeps,         \* per account: participatesInSweep
  HeaderMin,      \* minBalance of the header account
  PoolBalances,   \* balances an account may be reported with
  TotalInterest,  \* interest to allocate
  MaxTotal        \* bound: total of the pool, of either sign

PoolAccounts == 1..(Sub + 1)

ASSUME PoolConstants ==
  /\ Sub \in Nat /\ HeaderMin \in Int /\ TotalInterest \in Nat /\ MaxTotal \in Nat
  /\ Target \in [PoolAccounts -> Int] /\ Sweeps \in [PoolAccounts -> BOOLEAN]
  /\ PoolBalances \subseteq Int

VARIABLES
  poolBalance,  \* currentBalance of each account
  swept         \* history: the balances before the last sweep, or <<>>

poolVars == <<poolBalance, swept>>

(* createPool: a balance that is not given is 0.                           *)
PoolInit == poolBalance = [a \in PoolAccounts |-> 0] /\ swept = <<>>

PoolTotal(b) == FoldFunction(+, 0, b)

UpdateAccountBalance(a, n) ==
  /\ poolBalance' = [poolBalance EXCEPT ![a] = n]
  /\ PoolTotal(poolBalance') \in -MaxTotal..MaxTotal
  /\ swept' = <<>>

-----------------------------------------------------------------------------
Least(m, n) == IF m < n THEN m ELSE n

(* What the header can give: down to its own minimum, and never less than 0. *)
Lends(b, deficit) ==
  IF b[1] <= HeaderMin THEN 0 ELSE Least(deficit, b[1] - HeaderMin)

(* One turn of the loop: a surplus goes up, a deficit is filled from the   *)
(* header as far as it can.  A surplus further down the list comes too late. *)
SweptOne(b, a) ==
  IF ~Sweeps[a] THEN b
  ELSE IF b[a] > Target[a] THEN [b EXCEPT ![a] = Target[a], ![1] = @ + b[a] - Target[a]]
  ELSE LET d == Lends(b, Target[a] - b[a]) IN [b EXCEPT ![a] = @ + d, ![1] = @ - d]

RunPhysicalSweep ==
  /\ poolBalance' = FoldLeft(SweptOne, poolBalance, [i \in 1..Sub |-> i + 1])
  /\ swept' = poolBalance

PoolNext ==
  \/ \E a \in PoolAccounts, n \in PoolBalances : UpdateAccountBalance(a, n)
  \/ RunPhysicalSweep

PoolSpec == PoolInit /\ [][PoolNext]_poolVars

-----------------------------------------------------------------------------
Overdrawn(n) == IF n < 0 THEN -n ELSE 0
Absolute(n) == IF n < 0 THEN -n ELSE n

(* computeNotionalPoolSummary, per unit of rate: the debit interest the    *)
(* accounts would pay alone, less what the pool pays.                      *)
NetBenefit ==
  PoolTotal([a \in PoolAccounts |-> Overdrawn(poolBalance[a])]) - Overdrawn(PoolTotal(poolBalance))

(* Decimal.toFixed rounds a half up.                                       *)
RoundedShare(part, whole) == (2 * part + whole) \div (2 * whole)

(* allocateInterest: by size of the balance, each share rounded by itself. *)
Allocation ==
  LET sizes == [a \in PoolAccounts |-> Absolute(poolBalance[a])]
      whole == PoolTotal(sizes)
  IN [a \in PoolAccounts |-> IF whole = 0 THEN RoundedShare(TotalInterest, Sub + 1)
                             ELSE RoundedShare(sizes[a] * TotalInterest, whole)]

(* The store holds what its TypeScript type says.                          *)
PoolTypeOK ==
  poolBalance \in [PoolAccounts -> Int] /\ swept \in {<<>>} \cup [PoolAccounts -> Int]

(* A sweep moves money and makes none: the total of the pool is what it    *)
(* was, no participating account ends on the other side of its target, and *)
(* the header is not taken below its minimum (or below where it was).      *)
SweepConserves ==
  swept # <<>> =>
    /\ PoolTotal(poolBalance) = PoolTotal(swept)
    /\ poolBalance[1] >= Least(swept[1], HeaderMin)
    /\ \A a \in PoolAccounts \ {1} :
         IF Sweeps[a] /\ swept[a] >= Target[a] THEN poolBalance[a] = Target[a]
         ELSE poolBalance[a] \in swept[a]..(IF Sweeps[a] THEN Target[a] ELSE swept[a])

(* Netting never costs: the pooled balance pays at most the debit interest *)
(* its accounts would pay alone.                                           *)
NettingNeverCosts == NetBenefit >= 0

(* The rounded allocations miss the total interest by less than half a     *)
(* unit for each account (they need not add up to it).                     *)
AllocationNearTotal ==
  2 * Absolute(PoolTotal(Allocation) - TotalInterest) <= Sub + 1

(* A cash pool makes and loses no money: sweeps conserve it, netting never *)
(* costs, and the interest handed out misses the total by rounding only.   *)
PoolSound == SweepConserves /\ NettingNeverCosts /\ AllocationNearTotal
=============================================================================
