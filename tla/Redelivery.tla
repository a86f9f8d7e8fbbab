----------------------------- MODULE Redelivery -----------------------------
(***************************************************************************)
(* The two gates that keep a repeated call from being carried out twice,   *)
(* both over one key in Redis, read and written in separate steps:         *)
(* WebhookRouter.route marks an event before its handler runs, and         *)
(* IdempotencyInterceptor.intercept stores a response after its handler    *)
(* has answered.  All calls here carry the same event id or key.           *)
(***************************************************************************)
EXTENDS Integers, FiniteSets

CONSTANTS
  EventCalls,    \* deliveries of one webhook event, with a valid signature
  KeyedCalls     \* POST requests with one Idempotency-Key

ASSUME RedeliveryConstants == "none" \notin KeyedCalls

VARIABLES
  marked,        \* the event is in the WebhookEventStore
  eventCall,     \* per delivery: step, and whether it began with the mark set
  stored,        \* the cached response: the call it answers, or "none"
  keyedCall,     \* per request: step, and whether it began with a response stored
  expired        \* history: a key has reached the end of its 24 hours

redeliveryVars == <<marked, eventCall, stored, keyedCall, expired>>

Unsent == [step |-> "unsent", late |-> FALSE, body |-> "none"]

RedeliveryInit ==
  /\ marked = FALSE /\ stored = "none" /\ expired = {}
  /\ eventCall = [d \in EventCalls |-> Unsent]
  /\ keyedCall = [r \in KeyedCalls |-> Unsent]

-----------------------------------------------------------------------------
EventStep(d, from, to) ==
  /\ eventCall[d].step = from
  /\ eventCall' = [eventCall EXCEPT ![d].step = to]
  /\ UNCHANGED <<stored, keyedCall, expired>>

DeliverEvent(d) ==
  /\ eventCall[d].step = "unsent"
  /\ eventCall' = [eventCall EXCEPT ![d].step = "sent", ![d].late = marked]
  /\ UNCHANGED <<marked, stored, keyedCall, expired>>

(* Mutant: the answer of isProcessed is not awaited.                       *)
CheckIgnored(d) == EventStep(d, "sent", "unseen") /\ UNCHANGED marked

CheckEvent(d) ==
  /\ EventStep(d, "sent", IF marked THEN "skipped" ELSE "unseen")
  /\ UNCHANGED marked

MarkEvent(d) == EventStep(d, "unseen", "handling") /\ marked' = TRUE

(* The handler answers or throws; the mark stays either way.               *)
EventHandled(d) == EventStep(d, "handling", "handled") /\ UNCHANGED marked
EventFails(d) == EventStep(d, "handling", "failed") /\ UNCHANGED marked

-----------------------------------------------------------------------------
SendRequest(r) ==
  /\ keyedCall[r].step = "unsent"
  /\ keyedCall' = [keyedCall EXCEPT ![r].step = "sent", ![r].late = (stored # "none")]
  /\ UNCHANGED <<marked, eventCall, stored, expired>>

ReadCache(r) ==
  /\ keyedCall[r].step = "sent"
  /\ keyedCall' = [keyedCall EXCEPT ![r].step = IF stored = "none" THEN "running" ELSE "replayed",
                                    ![r].body = stored]
  /\ UNCHANGED <<marked, eventCall, stored, expired>>

(* The response goes out without waiting for setex.                        *)
HandlerAnswers(r) ==
  /\ keyedCall[r].step = "running"
  /\ keyedCall' = [keyedCall EXCEPT ![r].step = "answered", ![r].body = r]
  /\ UNCHANGED <<marked, eventCall, stored, expired>>

HandlerThrows(r) ==
  /\ keyedCall[r].step = "running"
  /\ keyedCall' = [keyedCall EXCEPT ![r].step = "refused"]
  /\ UNCHANGED <<marked, eventCall, stored, expired>>

StoreResponse(r) ==
  /\ keyedCall[r].step = "answered"
  /\ stored' = r
  /\ keyedCall' = [keyedCall EXCEPT ![r].step = "stored"]
  /\ UNCHANGED <<marked, eventCall, expired>>

(* Redis drops the key, of the event or of the response.                   *)
ExpireEvent ==
  /\ marked /\ marked' = FALSE /\ expired' = expired \cup {"event"}
  /\ UNCHANGED <<eventCall, stored, keyedCall>>

ExpireResponse ==
  /\ stored # "none" /\ stored' = "none" /\ expired' = expired \cup {"response"}
  /\ UNCHANGED <<marked, eventCall, keyedCall>>

EventsNext ==
  \/ \E d \in EventCalls : \/ DeliverEvent(d) \/ CheckEvent(d) \/ MarkEvent(d)
                           \/ EventHandled(d) \/ EventFails(d)
  \/ ExpireEvent

KeysNext ==
  \/ \E r \in KeyedCalls : \/ SendRequest(r) \/ ReadCache(r) \/ HandlerAnswers(r)
                           \/ HandlerThrows(r) \/ StoreResponse(r)
  \/ ExpireResponse

RedeliveryNext == EventsNext \/ KeysNext

RedeliverySpec == RedeliveryInit /\ [][RedeliveryNext]_redeliveryVars

-----------------------------------------------------------------------------
EventSteps == {"unsent", "sent", "skipped", "unseen", "handling", "handled", "failed"}
RequestSteps == {"unsent", "sent", "replayed", "running", "answered", "refused", "stored"}

(* The keys in Redis and the calls hold what their types say.              *)
RedeliveryTypeOK ==
  /\ marked \in BOOLEAN /\ stored \in KeyedCalls \cup {"none"}
  /\ eventCall \in [EventCalls -> [step : EventSteps, late : BOOLEAN, body : {"none"}]]
  /\ keyedCall \in [KeyedCalls -> [step : RequestSteps, late : BOOLEAN,
                                   body : KeyedCalls \cup {"none"}]]

(* Within the 24 hours, a delivery sent after the event was marked does    *)
(* not reach the handler, even when the handler of the first one threw:    *)
(* an event whose handler fails is handled by overlapping deliveries only. *)
MarkedIsNotHandled ==
  "event" \notin expired =>
    \A d \in EventCalls : eventCall[d].late => eventCall[d].step \in {"sent", "skipped"}

(* Within the 24 hours, a request sent after a response was stored is      *)
(* answered with the response of a request that was carried out, and is    *)
(* not carried out itself, whichever overlapping ones still run.           *)
StoredIsReplayed ==
  "response" \notin expired =>
    \A r \in KeyedCalls : keyedCall[r].late =>
      /\ keyedCall[r].step \in {"sent", "replayed"}
      /\ keyedCall[r].step = "replayed" => keyedCall[keyedCall[r].body].step = "stored"

(* A key remembered in Redis does its work: the marked event is not        *)
(* handled again and the stored response is replayed.                      *)
RedeliverySound == MarkedIsNotHandled /\ StoredIsReplayed
=============================================================================
