------------------------------ MODULE Breaker ------------------------------
(***************************************************************************)
(* CircuitBreaker.execute around ProviderAdapter.call: callers that share  *)
(* one provider, each with up to three attempts.  Times are ages in ticks, *)
(* capped where no comparison can tell them apart; an attempt ends within  *)
(* its timeout, so Tick waits for it, and the pauses between attempts are  *)
(* short beside a tick.                                                    *)
(***************************************************************************)
EXTENDS Integers, Sequences, FiniteSets

CONSTANTS
  Callers,
  FailureThreshold, Window, Recovery,
  MaxRetries,       \* attempts of one call
  AttemptTimeout,
  MaxFailures       \* bound: failures remembered at once

ASSUME BreakerConstants ==
  /\ FailureThreshold \in Nat \ {0} /\ Window \in Nat \ {0} /\ Recovery \in Nat \ {0}
  /\ MaxRetries \in Nat \ {0} /\ AttemptTimeout \in Nat \ {0} /\ MaxFailures \in Nat

VARIABLES
  circuit,   \* [state, failures, opened]: failures and opened hold ages
  caller,    \* [attempt, age]; attempt 0: no call of this caller is running
  healed,    \* the provider has recovered for good
  shut       \* history: the age of the last change of the state to OPEN

breakerVars == <<circuit, caller, healed, shut>>

LongestCall == MaxRetries * AttemptTimeout
OldestAge == Window + LongestCall + Recovery
Idle == [attempt |-> 0, age |-> 0]

BreakerInit ==
  /\ circuit = [state |-> "CLOSED", failures |-> <<>>, opened |-> OldestAge]
  /\ caller = [c \in Callers |-> Idle]
  /\ healed = FALSE /\ shut = OldestAge

-----------------------------------------------------------------------------
Older(a) == IF a < OldestAge THEN a + 1 ELSE a

(* pruneFailures and checkRecovery, in this order.  The failures stand in   *)
(* the order they happened, so the ones that filter drops come first.      *)
Stale(failures) == Cardinality({i \in DOMAIN failures : failures[i] >= Window})

Refreshed(k) ==
  [state |-> IF k.state = "OPEN" /\ k.opened >= Recovery THEN "HALF_OPEN" ELSE k.state,
   failures |-> SubSeq(k.failures, Stale(k.failures) + 1, Len(k.failures)),
   opened |-> k.opened]

(* execute runs in one turn up to the call of the provider.                *)
Execute(c) ==
  /\ caller[c].attempt = 0
  /\ Len(Refreshed(circuit).failures) < MaxFailures
  /\ circuit' = Refreshed(circuit)
  /\ caller' = IF Refreshed(circuit).state = "OPEN" THEN caller
               ELSE [caller EXCEPT ![c] = [attempt |-> 1, age |-> 0]]
  /\ UNCHANGED <<healed, shut>>

(* Mutant: a successful probe resets the failures only.                    *)
FailuresForgotten(k) ==
  IF k.state = "HALF_OPEN" THEN [k EXCEPT !.failures = <<>>] ELSE k

AfterSuccess(k) ==
  IF k.state = "HALF_OPEN"
  THEN [state |-> "CLOSED", failures |-> <<>>, opened |-> OldestAge] ELSE k

(* Mutant: a failed probe opens the circuit without a new opening time.    *)
ReopenedAsBefore(k) ==
  LET failures == Append(k.failures, 0) IN
  CASE k.state = "HALF_OPEN" -> [k EXCEPT !.state = "OPEN", !.failures = failures]
    [] k.state # "HALF_OPEN" /\ Len(failures) >= FailureThreshold ->
         [state |-> "OPEN", failures |-> failures, opened |-> 0]
    [] OTHER -> [k EXCEPT !.failures = failures]

(* Failures are not pruned here, and a failure that arrives while the      *)
(* circuit is OPEN moves the opening time.                                 *)
AfterFailure(k) ==
  LET failures == Append(k.failures, 0) IN
  IF k.state = "HALF_OPEN" \/ Len(failures) >= FailureThreshold
  THEN [state |-> "OPEN", failures |-> failures, opened |-> 0]
  ELSE [k EXCEPT !.failures = failures]

AttemptSucceeds(c) ==
  /\ caller[c].attempt > 0
  /\ circuit' = AfterSuccess(circuit)
  /\ caller' = [caller EXCEPT ![c] = Idle]
  /\ UNCHANGED <<healed, shut>>

(* Every failure is retried, a timed-out POST too, with no request key.    *)
AttemptFails(c) ==
  /\ caller[c].attempt \in 1..MaxRetries - 1 /\ ~healed
  /\ caller' = [caller EXCEPT ![c] = [attempt |-> @.attempt + 1, age |-> 0]]
  /\ UNCHANGED <<circuit, healed, shut>>

LastAttemptFails(c) ==
  /\ caller[c].attempt = MaxRetries /\ ~healed
  /\ circuit' = AfterFailure(circuit)
  /\ caller' = [caller EXCEPT ![c] = Idle]
  /\ shut' = IF circuit.state # "OPEN" /\ circuit'.state = "OPEN" THEN 0 ELSE shut
  /\ UNCHANGED healed

BreakerTick ==
  /\ \A c \in Callers : caller[c].age < AttemptTimeout
  /\ circuit' = [circuit EXCEPT !.opened = Older(@),
                   !.failures = [i \in DOMAIN @ |-> Older(@[i])]]
  /\ caller' = [c \in Callers |->
       IF caller[c].attempt = 0 THEN Idle ELSE [caller[c] EXCEPT !.age = @ + 1]]
  /\ shut' = Older(shut)
  /\ UNCHANGED healed

ProviderHeals == ~healed /\ healed' = TRUE /\ UNCHANGED <<circuit, caller, shut>>

BreakerNext ==
  \/ \E c \in Callers :
       Execute(c) \/ AttemptSucceeds(c) \/ AttemptFails(c) \/ LastAttemptFails(c)
  \/ BreakerTick
  \/ ProviderHeals

(* Callers keep calling, attempts end and time passes; nothing makes the   *)
(* provider heal.                                                          *)
BreakerFairness ==
  /\ \A c \in Callers : WF_breakerVars(Execute(c)) /\ WF_breakerVars(AttemptSucceeds(c))
  /\ WF_breakerVars(BreakerTick)

BreakerSpec == BreakerInit /\ [][BreakerNext]_breakerVars /\ BreakerFairness

-----------------------------------------------------------------------------
(* The breaker holds what its TypeScript type says.                        *)
BreakerTypeOK ==
  /\ circuit \in [state : {"CLOSED", "OPEN", "HALF_OPEN"}, failures : Seq(0..OldestAge),
                  opened : 0..OldestAge]
  /\ caller \in [Callers -> [attempt : 0..MaxRetries, age : 0..AttemptTimeout]]
  /\ healed \in BOOLEAN /\ shut \in 0..OldestAge

(* However calls overlap, a CLOSED circuit remembers fewer failures than   *)
(* the threshold: no interleaving of a late failure with a success that    *)
(* closes the circuit leaves it closed with the failures of an open one.   *)
ClosedBelowThreshold ==
  circuit.state = "CLOSED" => Len(circuit.failures) < FailureThreshold

(* The failures that open a CLOSED circuit are recent, though not all of   *)
(* the last Window as the option's comment has it: onFailure prunes        *)
(* nothing, so they are younger than the window plus the longest call.     *)
OpenedOnRecentFailures ==
  [][circuit.state = "CLOSED" /\ circuit'.state = "OPEN"
       => \A i \in DOMAIN circuit'.failures :
            circuit'.failures[i] < Window + LongestCall]_breakerVars

(* Whatever opens the circuit, a burst of failures or a failed probe, keeps *)
(* new calls off the provider for the whole recovery time: no success of a *)
(* call still running opens the way earlier.  (A failure that arrives while *)
(* it is OPEN need not: it moves the opening time only if enough recent    *)
(* failures are remembered.)                                               *)
OpeningHoldsCallsOff ==
  [][\A c \in Callers :
       shut < Recovery => ~(caller[c].attempt = 0 /\ caller'[c].attempt = 1)]_breakerVars

(* Once the provider has healed, the circuit ends up CLOSED for good: no   *)
(* schedule of callers and clock leaves it OPEN or HALF_OPEN for ever.     *)
HealedCloses == <>[](healed => circuit.state = "CLOSED")

(* The circuit keeps calls off a failing provider: it never remembers the  *)
(* failures of an open circuit while CLOSED, opens on recent failures only *)
(* and, once open, stays shut for the recovery time.                       *)
CircuitSound == []ClosedBelowThreshold /\ OpenedOnRecentFailures /\ OpeningHoldsCallsOff
=============================================================================
