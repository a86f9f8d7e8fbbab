------------------------------ MODULE Delivery ------------------------------
(***************************************************************************)
(* Webhook delivery of open banking: queueDelivery and deliverWebhook over *)
(* a Kafka topic keyed by subscription, whose partition is consumed in     *)
(* order.  emit is not awaited: a message waits in the process until it is *)
(* flushed to the topic, and the offset of the message being handled is    *)
(* committed when the handler returns.  The subscriptions are in memory.   *)
(* The message reaches the consumer as the consumer's own type has it.     *)
(***************************************************************************)
EXTENDS Integers, Sequences, SequencesExt, FiniteSets

CONSTANTS
  Subs,          \* subscriptions, all for the one event type
  Events,
  MaxAttempts,
  Delays,        \* RETRY_DELAYS_MS in ticks, by attempt
  MaxCrashes     \* bound: restarts of the process

ASSUME DeliveryConstants ==
  /\ MaxAttempts \in Nat \ {0} /\ MaxCrashes \in Nat
  /\ Delays \in Seq(Nat) /\ Len(Delays) >= MaxAttempts - 1

VARIABLES
  sub,        \* subscriptions: [status, retryCount]
  topic,      \* the partition of each subscription: messages [event, attempt, wait]
  unflushed,  \* messages emitted and still in the process
  handling,   \* the handler of each partition: "no" | "posting" | "returned"
  outcome,    \* history, per event and subscription: [posts, failed, accepted, dead];
              \* a post that failed may have reached its callback
  queued,     \* history: the deliveries queued, <<event, subscription>>
  crashes

deliveryVars == <<sub, topic, unflushed, handling, outcome, queued, crashes>>

DeliveryInit ==
  /\ sub = [s \in Subs |-> [status |-> "ACTIVE", retryCount |-> 0]]
  /\ topic = [s \in Subs |-> <<>>] /\ unflushed = [s \in Subs |-> <<>>]
  /\ handling = [s \in Subs |-> "no"]
  /\ outcome = [d \in Events \X Subs |-> [posts |-> 0, failed |-> 0, accepted |-> 0, dead |-> 0]]
  /\ queued = {} /\ crashes = 0

Message(e, attempt, wait) == [event |-> e, attempt |-> attempt, wait |-> wait]
Emitted(s, m) == [unflushed EXCEPT ![s] = Append(@, m)]

-----------------------------------------------------------------------------
(* findByEventType: the subscriptions that are active now.                 *)
QueueDelivery(e) ==
  LET targets == {s \in Subs : sub[s].status = "ACTIVE"} IN
  /\ \A s \in Subs : <<e, s>> \notin queued
  /\ targets # {}
  /\ queued' = queued \cup ({e} \X targets)
  /\ unflushed' = [s \in Subs |-> IF s \in targets THEN Append(unflushed[s], Message(e, 1, 0))
                                  ELSE unflushed[s]]
  /\ UNCHANGED <<sub, topic, handling, outcome, crashes>>

Flush(s) ==
  /\ unflushed[s] # <<>>
  /\ topic' = [topic EXCEPT ![s] = Append(@, Head(unflushed[s]))]
  /\ unflushed' = [unflushed EXCEPT ![s] = Tail(@)]
  /\ UNCHANGED <<sub, handling, outcome, queued, crashes>>

(* Mutant: the delay starts again whenever the message is read too early.  *)
RequeueAnew(s) ==
  /\ handling[s] = "no" /\ topic[s] # <<>> /\ Head(topic[s]).wait > 0
  /\ unflushed' = Emitted(s, [Head(topic[s]) EXCEPT !.wait = Delays[Head(topic[s]).attempt - 1]])
  /\ handling' = [handling EXCEPT ![s] = "returned"]
  /\ UNCHANGED <<sub, topic, outcome, queued, crashes>>

(* A message that is not yet due is emitted again, at the end.             *)
Requeue(s) ==
  /\ handling[s] = "no" /\ topic[s] # <<>> /\ Head(topic[s]).wait > 0
  /\ unflushed' = Emitted(s, Head(topic[s]))
  /\ handling' = [handling EXCEPT ![s] = "returned"]
  /\ UNCHANGED <<sub, topic, outcome, queued, crashes>>

(* The subscription is not looked up again: a suspended or deleted one is  *)
(* still posted to.                                                        *)
Post(s) ==
  LET d == <<Head(topic[s]).event, s>> IN
  /\ handling[s] = "no" /\ topic[s] # <<>> /\ Head(topic[s]).wait = 0
  /\ outcome' = [outcome EXCEPT ![d].posts = @ + 1]
  /\ handling' = [handling EXCEPT ![s] = "posting"]
  /\ UNCHANGED <<sub, topic, unflushed, queued, crashes>>

PostSucceeds(s) ==
  /\ handling[s] = "posting"
  /\ outcome' = [outcome EXCEPT ![<<Head(topic[s]).event, s>>].accepted = @ + 1]
  /\ handling' = [handling EXCEPT ![s] = "returned"]
  /\ UNCHANGED <<sub, topic, unflushed, queued, crashes>>

Failed(d) == [outcome EXCEPT ![d].failed = @ + 1]
Dead(d) == [outcome EXCEPT ![d].failed = @ + 1, ![d].dead = @ + 1]

Retry(m) == Message(m.event, m.attempt + 1, Delays[m.attempt])

(* Mutant: the last attempt but one is taken for the last.                 *)
GivesUpEarly(m) == m.attempt >= MaxAttempts - 1

(* Mutant: one attempt more.                                               *)
GivesUpLate(m) == m.attempt > MaxAttempts

GivesUp(m) == m.attempt >= MaxAttempts

PostFails(s) ==
  LET m == Head(topic[s])
      d == <<m.event, s>>
  IN /\ handling[s] = "posting" /\ ~GivesUp(m)
     /\ outcome' = Failed(d)
     /\ unflushed' = Emitted(s, Retry(m))
     /\ handling' = [handling EXCEPT ![s] = "returned"]
     /\ UNCHANGED <<sub, topic, queued, crashes>>

(* incrementRetryCount leaves an unknown subscription alone.               *)
LastPostFails(s) ==
  LET m == Head(topic[s])
      d == <<m.event, s>>
  IN /\ handling[s] = "posting" /\ GivesUp(m)
     /\ outcome' = Dead(d)
     /\ sub' = [sub EXCEPT ![s].retryCount = IF sub[s].status = "gone" THEN @ ELSE @ + 1]
     /\ handling' = [handling EXCEPT ![s] = "returned"]
     /\ UNCHANGED <<topic, unflushed, queued, crashes>>

Commit(s) ==
  /\ handling[s] = "returned"
  /\ topic' = [topic EXCEPT ![s] = Tail(@)]
  /\ handling' = [handling EXCEPT ![s] = "no"]
  /\ UNCHANGED <<sub, unflushed, outcome, queued, crashes>>

Suspend(s) ==
  /\ sub[s].status = "ACTIVE"
  /\ sub' = [sub EXCEPT ![s].status = "SUSPENDED"]
  /\ UNCHANGED <<topic, unflushed, handling, outcome, queued, crashes>>

Delete(s) ==
  /\ sub[s].status # "gone"
  /\ sub' = [sub EXCEPT ![s] = [status |-> "gone", retryCount |-> 0]]
  /\ UNCHANGED <<topic, unflushed, handling, outcome, queued, crashes>>

(* The topic survives; what was not flushed and the subscriptions do not.  *)
Crash ==
  /\ crashes < MaxCrashes
  /\ crashes' = crashes + 1
  /\ sub' = [s \in Subs |-> [status |-> "gone", retryCount |-> 0]]
  /\ unflushed' = [s \in Subs |-> <<>>]
  /\ handling' = [s \in Subs |-> "no"]
  /\ UNCHANGED <<topic, outcome, queued>>

Waits(q) == \E i \in DOMAIN q : q[i].wait > 0
Sooner(q) == [i \in DOMAIN q |-> [q[i] EXCEPT !.wait = IF @ > 0 THEN @ - 1 ELSE 0]]

DeliveryTick ==
  /\ \E s \in Subs : Waits(topic[s]) \/ Waits(unflushed[s])
  /\ topic' = [s \in Subs |-> Sooner(topic[s])]
  /\ unflushed' = [s \in Subs |-> Sooner(unflushed[s])]
  /\ UNCHANGED <<sub, handling, outcome, queued, crashes>>

DeliveryNext ==
  \/ \E e \in Events : QueueDelivery(e)
  \/ \E s \in Subs : \/ Flush(s) \/ Requeue(s) \/ Post(s) \/ Commit(s) \/ Suspend(s) \/ Delete(s)
                     \/ PostSucceeds(s) \/ PostFails(s) \/ LastPostFails(s)
  \/ Crash
  \/ DeliveryTick

Consume(s) ==
  Requeue(s) \/ Post(s) \/ PostSucceeds(s) \/ PostFails(s) \/ LastPostFails(s) \/ Commit(s)

(* The producer flushes, the consumer polls, a post ends within its        *)
(* timeout and time passes.                                                *)
DeliveryFairness ==
  /\ \A s \in Subs : WF_deliveryVars(Flush(s)) /\ WF_deliveryVars(Consume(s))
  /\ WF_deliveryVars(DeliveryTick)

DeliverySpec == DeliveryInit /\ [][DeliveryNext]_deliveryVars /\ DeliveryFairness

-----------------------------------------------------------------------------
Messages == [event : Events, attempt : 1..MaxAttempts, wait : Nat]

(* The stores, the topic and the producer hold what their types say.       *)
DeliveryTypeOK ==
  /\ sub \in [Subs -> [status : {"ACTIVE", "SUSPENDED", "gone"}, retryCount : Nat]]
  /\ \A s \in Subs : topic[s] \in Seq(Messages) /\ unflushed[s] \in Seq(Messages)
  /\ handling \in [Subs -> {"no", "posting", "returned"}]
  /\ queued \subseteq Events \X Subs /\ crashes \in 0..MaxCrashes

Ended(d) == outcome[d].accepted > 0 \/ outcome[d].dead > 0

(* Every queued delivery ends at its callback or in the dead letter queue, *)
(* through retries, requeues of what is not due and subscriptions that are *)
(* suspended or deleted meanwhile, unless the process crashes.             *)
EveryDeliveryEnds == <>[](crashes = 0 => \A d \in queued : Ended(d))

(* A delivery is in the dead letter queue only after all its attempts, and *)
(* a process that has not crashed dead-letters nothing its callback accepted *)
(* and posts to no callback more often than that.                          *)
DeadAfterAllAttempts ==
  \A d \in queued :
    /\ outcome[d].dead > 0 => outcome[d].failed >= MaxAttempts
    /\ crashes = 0 => /\ outcome[d].accepted + outcome[d].dead <= 1
                      /\ outcome[d].posts <= MaxAttempts

(* What a crash loses is what was not flushed: while none has happened, a  *)
(* delivery that has not ended has exactly one live message.               *)
OneLiveMessage ==
  crashes = 0 => \A d \in queued :
    LET s == d[2]
        mine(q) == Cardinality({i \in DOMAIN q : q[i].event = d[1]})
        spent == IF handling[s] = "returned" /\ Head(topic[s]).event = d[1] THEN 1 ELSE 0
    IN mine(topic[s]) + mine(unflushed[s]) - spent = IF Ended(d) THEN 0 ELSE 1

(* No delivery is lost or doubled while the process lives: it has one live *)
(* message until it ends, and it is given up only after all its attempts.  *)
DeliveriesAccounted == DeadAfterAllAttempts /\ OneLiveMessage
=============================================================================
