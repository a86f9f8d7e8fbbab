------------------------------ MODULE Gateway ------------------------------
(***************************************************************************)
(* What stands between the bank and the outside, side by side: the payment *)
(* rails, the consents of open banking, the webhooks going out, the        *)
(* circuit breaker around a provider, the webhooks coming in and the keys  *)
(* of repeated requests, the cards and disputes at Stripe.  They share no  *)
(* state, so a behaviour of the whole is a behaviour of one of them while  *)
(* the others stand still.                                                 *)
(***************************************************************************)
EXTENDS Rails, Consents, Delivery, Breaker, Redelivery, Cards

VARIABLE part   \* the part this behaviour is about

gatewayVars == <<part, railVars, consentVars, deliveryVars, breakerVars, redeliveryVars,
                 cardVars>>

Parts == {"rails", "consents", "delivery", "breaker", "events", "keys", "cards", "disputes"}

Init ==
  /\ part \in Parts
  /\ RailInit /\ ConsentInit /\ DeliveryInit /\ BreakerInit /\ RedeliveryInit
  /\ CardInit

(* Everything a step of one part leaves alone.                             *)
Others(p) ==
  /\ UNCHANGED part
  /\ p # "rails" => UNCHANGED railVars
  /\ p # "consents" => UNCHANGED consentVars
  /\ p # "delivery" => UNCHANGED deliveryVars
  /\ p # "breaker" => UNCHANGED breakerVars
  /\ p \notin {"events", "keys"} => UNCHANGED redeliveryVars
  /\ p \notin {"cards", "disputes"} => UNCHANGED cardVars

Next ==
  \/ part = "rails" /\ RailNext /\ Others("rails")
  \/ part = "consents" /\ ConsentNext /\ Others("consents")
  \/ part = "delivery" /\ DeliveryNext /\ Others("delivery")
  \/ part = "breaker" /\ BreakerNext /\ Others("breaker")
  \/ part = "events" /\ EventsNext /\ Others("events")
  \/ part = "keys" /\ KeysNext /\ Others("keys")
  \/ part = "cards" /\ CardCalls /\ Others("cards")
  \/ part = "disputes" /\ DisputeCalls /\ Others("disputes")

(* Time passes, queues are served and calls end in the part that runs, as  *)
(* DeliveryFairness and BreakerFairness have it; the others owe nothing.   *)
Fairness ==
  /\ \A s \in Subs : /\ WF_gatewayVars(part = "delivery" /\ Flush(s) /\ Others("delivery"))
                     /\ WF_gatewayVars(part = "delivery" /\ Consume(s) /\ Others("delivery"))
  /\ WF_gatewayVars(part = "delivery" /\ DeliveryTick /\ Others("delivery"))
  /\ \A c \in Callers :
       /\ WF_gatewayVars(part = "breaker" /\ Execute(c) /\ Others("breaker"))
       /\ WF_gatewayVars(part = "breaker" /\ AttemptSucceeds(c) /\ Others("breaker"))
  /\ WF_gatewayVars(part = "breaker" /\ BreakerTick /\ Others("breaker"))

Spec == Init /\ [][Next]_gatewayVars /\ Fairness

-----------------------------------------------------------------------------
(* The stores, queues and rows of every part hold what their types say.    *)
GatewayTypeOK ==
  /\ part \in Parts
  /\ RailTypeOK /\ ConsentTypeOK /\ DeliveryTypeOK /\ BreakerTypeOK /\ RedeliveryTypeOK
  /\ CardTypeOK

(* The payments: holds are covered and accounted for, and the rows of      *)
(* cards and disputes say what Stripe says once calls have settled.        *)
PaymentsSound == RailsSound /\ CardAgrees /\ StaysCancelled /\ DisputeFollows
=============================================================================
