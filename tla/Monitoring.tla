----------------------------- MODULE Monitoring -----------------------------
(***************************************************************************)
(* AmlService.monitorTransaction with AmlRulesEngine as AmlModule wires    *)
(* it.  The module injects one repository for the two the engine's factory *)
(* names, so the engine has no transactions to query: the three rules that *)
(* look at an account's history are rejected as soon as a transaction      *)
(* reaches their query, and Promise.allSettled logs it.  What the others   *)
(* find is saved alert by alert; a save may fail or the process end in     *)
(* between, and the transaction may be monitored again, at the same time   *)
(* too.  What becomes of an alert is in Filings.                           *)
(***************************************************************************)
EXTENDS Integers, Sequences, Functions

CONSTANTS
  Contexts,      \* transactions handed in: [amount, cash, wire, risky], in dollars
  MaxMonitored   \* bound: calls

ASSUME MonitoringConstants ==
  /\ Contexts \subseteq [amount : Nat, cash : BOOLEAN, wire : BOOLEAN, risky : BOOLEAN]
  /\ MaxMonitored \in Nat

VARIABLE
  monitored   \* per call: [on, at, found, saved]: its transaction, what it has
              \* yet to save, and the rules it has saved an alert for

monitorVars == <<monitored>>

Rules == <<"CTR_THRESHOLD", "STRUCTURING_CASH", "HIGH_VELOCITY_TRANSFERS",
           "LARGE_WIRE_TRANSFER", "HIGH_RISK_JURISDICTION", "ROUND_DOLLAR_TRANSACTIONS">>
Queries == {"STRUCTURING_CASH", "HIGH_VELOCITY_TRANSFERS", "ROUND_DOLLAR_TRANSACTIONS"}

MonitorInit == monitored = <<>>

-----------------------------------------------------------------------------
(* The transactions a rule does not return null for at once.               *)
Concerns(rule, t) ==
  CASE rule = "CTR_THRESHOLD" -> t.cash /\ t.amount >= 10000
    [] rule = "STRUCTURING_CASH" -> t.cash /\ t.amount >= 5000 /\ t.amount < 10000
    [] rule = "HIGH_VELOCITY_TRANSFERS" -> t.amount >= 1000
    [] rule = "LARGE_WIRE_TRANSFER" -> t.wire /\ t.amount >= 50000
    [] rule = "HIGH_RISK_JURISDICTION" -> t.risky
    [] OTHER -> t.amount >= 10000 /\ t.amount % 1000 = 0

RuleOutcome(rule, t) ==
  IF ~Concerns(rule, t) THEN "null" ELSE IF rule \in Queries THEN "rejected" ELSE "violation"

(* Promise.allSettled.                                                     *)
Evaluate(t) == {rule \in Range(Rules) : RuleOutcome(rule, t) = "violation"}

(* Mutant: Promise.all.                                                    *)
EvaluateAll(t) ==
  {rule \in Range(Rules) :
     /\ RuleOutcome(rule, t) = "violation"
     /\ \A other \in Range(Rules) : RuleOutcome(other, t) # "rejected"}

Severity(rule, t) ==
  CASE rule = "HIGH_RISK_JURISDICTION" -> "CRITICAL"
    [] rule = "LARGE_WIRE_TRANSFER" /\ t.amount > 500000 -> "CRITICAL"
    [] OTHER -> "HIGH"

AlertRiskScore(rule, t) ==
  CASE rule = "HIGH_RISK_JURISDICTION" -> 95
    [] rule = "LARGE_WIRE_TRANSFER" -> IF t.amount > 500000 THEN 90 ELSE 70
    [] OTHER -> 80

DueDateHours == [CRITICAL |-> 24, HIGH |-> 48]

-----------------------------------------------------------------------------
MonitorTransaction(t) ==
  /\ Len(monitored) < MaxMonitored
  /\ monitored' =
       Append(monitored, [on |-> t, at |-> "saving", found |-> Evaluate(t), saved |-> {}])

(* The next violation in the order of the rules becomes an alert.          *)
SaveAlert(n) ==
  /\ monitored[n].at = "saving"
  /\ \E i \in DOMAIN Rules :
       /\ Rules[i] \in monitored[n].found
       /\ \A j \in 1..(i - 1) : Rules[j] \notin monitored[n].found
       /\ monitored' = [monitored EXCEPT ![n].found = @ \ {Rules[i]},
                                         ![n].saved = @ \cup {Rules[i]}]

EndMonitoring(n) ==
  /\ monitored[n].at = "saving" /\ monitored[n].found = {}
  /\ monitored' = [monitored EXCEPT ![n].at = "ended"]

CutOffMonitoring(n) ==
  /\ monitored[n].at = "saving"
  /\ monitored' = [monitored EXCEPT ![n].at = "cutOff"]

MonitorNext ==
  \/ \E t \in Contexts : MonitorTransaction(t)
  \/ \E n \in DOMAIN monitored : SaveAlert(n) \/ EndMonitoring(n) \/ CutOffMonitoring(n)

MonitorSpec == MonitorInit /\ [][MonitorNext]_monitorVars

-----------------------------------------------------------------------------
(* Every call holds what its type says.                                    *)
MonitorTypeOK ==
  \A n \in DOMAIN monitored :
    /\ monitored[n].on \in Contexts /\ monitored[n].at \in {"saving", "ended", "cutOff"}
    /\ monitored[n].found \cup monitored[n].saved \subseteq Range(Rules)

(* A rule that is rejected costs no other its alert: a call that has ended *)
(* has saved one for every rule that concerns the transaction and needs no *)
(* query, and none for a transaction no rule concerns.                     *)
PlainRulesStand ==
  \A n \in DOMAIN monitored : \A rule \in Range(Rules) \ Queries :
    IF Concerns(rule, monitored[n].on)
    THEN monitored[n].at = "ended" => rule \in monitored[n].saved
    ELSE rule \notin monitored[n].saved

(* A call that was cut off has left no gap: with an alert it has saved the *)
(* earlier rules' too.  Of two alerts, the one that scores higher is never *)
(* due later.                                                              *)
AlertsInOrder ==
  /\ \A n \in DOMAIN monitored : \A i, j \in DOMAIN Rules :
       /\ i < j /\ Rules[j] \in monitored[n].saved
       /\ Concerns(Rules[i], monitored[n].on) /\ Rules[i] \notin Queries
       => Rules[i] \in monitored[n].saved
  /\ \A m, n \in DOMAIN monitored :
       \A high \in monitored[m].saved, low \in monitored[n].saved :
         AlertRiskScore(high, monitored[m].on) > AlertRiskScore(low, monitored[n].on) =>
           DueDateHours[Severity(high, monitored[m].on)]
             <= DueDateHours[Severity(low, monitored[n].on)]

(* What is monitored to the end has the alerts the wired engine can raise. *)
MonitoringSound == PlainRulesStand /\ AlertsInOrder
=============================================================================
