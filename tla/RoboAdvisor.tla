----------------------------- MODULE RoboAdvisor -----------------------------
(***************************************************************************)
(* RoboAdvisorService: one account on a model portfolio, its holdings, the *)
(* drift of each asset class, and the rebalancing plans.  Values are in    *)
(* cents, targets and thresholds in percent; a percentage the service has  *)
(* formatted with two decimals is a number of basis points.  The holdings  *)
(* of one class are taken together: single symbols, their metrics and the  *)
(* tax estimates reach no decision.                                        *)
(***************************************************************************)
EXTENDS Integers, FiniteSetsExt

CONSTANTS
  Classes,      \* asset classes
  Models,       \* target allocations, [Classes -> percent]
  Thresholds,   \* drift thresholds in percent
  Snapshots,    \* what updateHoldings is sent, [Classes -> cents]
  RoboPlans     \* plan ids

ASSUME RoboConstants ==
  /\ IsFiniteSet(Classes)
  /\ Models \subseteq [Classes -> 0..100] /\ \A m \in Models : MapThenSumSet(LAMBDA c : m[c], Classes) = 100
  /\ Thresholds \subseteq Nat \ {0} /\ Snapshots \subseteq [Classes -> Nat]

VARIABLES
  robo,        \* the account, or nothing before it enrolls
  roboPlans    \* planStore: plan id -> plan, with the holdings it was made from

roboVars == <<robo, roboPlans>>

NoAccount == [enrolled |-> FALSE]

RoboInit == robo = NoAccount /\ roboPlans = [p \in {} |-> NoAccount]

Magnitude(n) == IF n < 0 THEN -n ELSE n

Portfolio(held) == MapThenSumSet(LAMBDA c : held[c], Classes)

-----------------------------------------------------------------------------
EnrollAccount(m, t) ==
  /\ ~robo.enrolled
  /\ robo' = [enrolled |-> TRUE, target |-> m, threshold |-> t,
              held |-> [c \in Classes |-> 0], rebalanced |-> FALSE]
  /\ UNCHANGED roboPlans

UpdateHoldings(s) ==
  /\ robo.enrolled
  /\ robo' = [robo EXCEPT !.held = s] /\ UNCHANGED roboPlans

(* The share of a class in basis points, as toFixed(2) rounds a percentage. *)
ActualPct(value, total) == (20000 * value + total) \div (2 * total)

(* checkDrift compares the exact percentages, so no total is rounded here. *)
Breached(a, c) ==
  LET total == Portfolio(a.held)
  IN  IF total = 0 THEN a.target[c] >= a.threshold
      ELSE Magnitude(100 * a.held[c] - a.target[c] * total) >= a.threshold * total

(* generateRebalancingPlan reads the formatted percentages of checkDrift,  *)
(* and trades a class back to its target from what those say it is worth.  *)
(* Trades are in units of one ten-thousandth of a cent.                    *)
DriftPct(a, c) == ActualPct(a.held[c], Portfolio(a.held)) - 100 * a.target[c]

Trades(a) ==
  [c \in {d \in Classes : Magnitude(DriftPct(a, d)) >= 100 * a.threshold} |->
     - Portfolio(a.held) * DriftPct(a, c)]

GenerateRebalancingPlan(p) ==
  /\ robo.enrolled /\ Portfolio(robo.held) > 0
  /\ p \notin DOMAIN roboPlans
  /\ roboPlans' = [q \in DOMAIN roboPlans \cup {p} |->
                     IF q = p THEN [status |-> "PENDING", from |-> robo, trades |-> Trades(robo)]
                     ELSE roboPlans[q]]
  /\ UNCHANGED robo

(* Marks the plan and the account; the holdings come with the next update. *)
ExecutePlan(p) ==
  /\ p \in DOMAIN roboPlans /\ roboPlans[p].status = "PENDING"
  /\ roboPlans' = [roboPlans EXCEPT ![p].status = "EXECUTED"]
  /\ robo' = [robo EXCEPT !.rebalanced = TRUE]

RoboNext ==
  \/ \E m \in Models, t \in Thresholds : EnrollAccount(m, t)
  \/ \E s \in Snapshots : UpdateHoldings(s)
  \/ \E p \in RoboPlans : GenerateRebalancingPlan(p) \/ ExecutePlan(p)

RoboSpec == RoboInit /\ [][RoboNext]_roboVars

-----------------------------------------------------------------------------
(* The account and the plans hold what their interfaces say.               *)
RoboTypeOK ==
  /\ robo = NoAccount \/ robo \in [enrolled : {TRUE}, target : Models, threshold : Thresholds,
                                   held : Snapshots \cup {[c \in Classes |-> 0]},
                                   rebalanced : BOOLEAN]
  /\ DOMAIN roboPlans \subseteq RoboPlans
  /\ \A p \in DOMAIN roboPlans : roboPlans[p].status \in {"PENDING", "EXECUTED"}
  /\ (robo.enrolled /\ robo.rebalanced) <=> \E p \in DOMAIN roboPlans : roboPlans[p].status = "EXECUTED"

(* A plan trades every class checkDrift calls breached, although the two   *)
(* decide on differently rounded numbers; a class it trades is off by at   *)
(* least the threshold, and one it leaves by less than it, each but for    *)
(* half a basis point of rounding.                                         *)
PlanFollowsDrift ==
  \A p \in DOMAIN roboPlans :
    LET plan == roboPlans[p]
        a == plan.from
        exactly(c) == Magnitude(10000 * a.held[c] - 100 * a.target[c] * Portfolio(a.held))
    IN  \A c \in Classes :
          /\ Breached(a, c) => c \in DOMAIN plan.trades
          /\ c \in DOMAIN plan.trades =>
               2 * exactly(c) >= (200 * a.threshold - 1) * Portfolio(a.held)

(* What the trades of a plan buy beyond what they sell.                    *)
NetBought(trades) == MapThenSumSet(LAMBDA c : trades[c], DOMAIN trades)

(* What a plan trades brings each class within half a basis point of its   *)
(* target, and what it buys beyond what it sells is less than a threshold  *)
(* for each class it leaves alone (and the rounding of every class).       *)
PlanReachesTarget ==
  \A p \in DOMAIN roboPlans :
    LET plan == roboPlans[p]
        a == plan.from
        total == Portfolio(a.held)
        left == Classes \ DOMAIN plan.trades
    IN  /\ \A c \in DOMAIN plan.trades :
             2 * Magnitude(10000 * a.held[c] + plan.trades[c] - 100 * a.target[c] * total) <= total
        /\ 2 * Magnitude(NetBought(plan.trades))
             <= (Cardinality(left) * 200 * a.threshold + Cardinality(Classes)) * total
=============================================================================
