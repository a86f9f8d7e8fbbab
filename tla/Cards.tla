-------------------------------- MODULE Cards --------------------------------
(***************************************************************************)
(* CardsService and DisputesService for one card and one dispute.  A call  *)
(* reads the row, calls Stripe, and updates the row: calls overlap, and    *)
(* one may fail at Stripe (with or without effect there) or at the row.    *)
(* The webhook answers Stripe before its event is handled, so an event     *)
(* whose handling fails is lost; Stripe sends events in any order and      *)
(* more than once.  Authorizations and clearings are in Rails.             *)
(***************************************************************************)
EXTENDS Integers, Sequences, FiniteSetsExt

CONSTANTS
  Windows,       \* calls and events that can be handled at the same time
  DisputeMoves,  \* statuses Stripe gives a dispute
  MaxEvents,     \* bound: events of the dispute
  MaxMishaps     \* bound: calls and events that fail

ASSUME CardConstants == MaxEvents \in Nat \ {0} /\ MaxMishaps \in Nat

VARIABLES
  card,       \* [row, stripe]: the status in each
  dispute,    \* [status, resolved]: resolvedAt as the event that set it, 0 for null
  events,     \* the statuses of the events Stripe has sent
  window,     \* per call between its steps
  handled,    \* history: the events handled
  stopped,    \* history: a cancellation has been answered
  mishaps,
  mixed       \* history: calls overlapped, or an event came after a later one

cardVars == <<card, dispute, events, window, handled, stopped, mishaps, mixed>>

Closed == {"LOST", "STOLEN", "CANCELLED"}
Resolved == {"WON", "LOST"}
Concluded == Resolved \cup {"WARNING_CLOSED", "CHARGE_REFUNDED"}

Unoccupied == [op |-> "free"]
Quiet == \A w \in Windows : window[w] = Unoccupied

CardInit ==
  /\ card = [row |-> "none", stripe |-> "none"]
  /\ dispute = [status |-> "none", resolved |-> 0] /\ events = <<>>
  /\ window = [w \in Windows |-> Unoccupied]
  /\ handled = {} /\ stopped = FALSE /\ mishaps = 0 /\ mixed = FALSE

-----------------------------------------------------------------------------
(* What a call does: from which statuses, what it tells Stripe, and what   *)
(* it writes.  A card that is lost or stolen may be cancelled again.       *)
Move(op, from, stripe, row) == [op |-> op, from |-> from, stripe |-> stripe, row |-> row]
CardMoves ==
  {Move("issue", {"none"}, "active", "ACTIVE"),
   Move("freeze", {"ACTIVE"}, "inactive", "FROZEN"),
   Move("unfreeze", {"FROZEN"}, "active", "ACTIVE")}
  \cup {Move("cancel", {"ACTIVE", "FROZEN", "LOST", "STOLEN"}, "canceled", reason) : reason \in Closed}

Enter(w, call) ==
  /\ window[w] = Unoccupied
  /\ window' = [window EXCEPT ![w] = call]
  /\ mixed' = (mixed \/ ~Quiet)

Leave(w) == window' = [window EXCEPT ![w] = Unoccupied]

(* The row is read and checked.  One card: issuing again makes another.    *)
ReadCard(w) ==
  /\ \E move \in CardMoves :
       /\ card.row \in move.from
       /\ move.op = "issue" => card.stripe = "none" /\ Quiet
       /\ Enter(w, [op |-> move.op, at |-> "stripe", move |-> move])
  /\ UNCHANGED <<card, dispute, events, handled, stopped, mishaps>>

CallStripe(w) ==
  /\ window[w].op \in {"issue", "freeze", "unfreeze", "cancel"} /\ window[w].at = "stripe"
  /\ card' = [card EXCEPT !.stripe = window[w].move.stripe]
  /\ window' = [window EXCEPT ![w].at = "row"]
  /\ UNCHANGED <<dispute, events, handled, stopped, mishaps, mixed>>

WriteCard(w) ==
  /\ window[w].op \in {"issue", "freeze", "unfreeze", "cancel"} /\ window[w].at = "row"
  /\ card' = [card EXCEPT !.row = window[w].move.row]
  /\ stopped' = (stopped \/ window[w].op = "cancel")
  /\ Leave(w)
  /\ UNCHANGED <<dispute, events, handled, mishaps, mixed>>

(* A call or the handling of an event fails where it stands.               *)
Fail(w) ==
  /\ window[w] # Unoccupied /\ mishaps < MaxMishaps
  /\ mishaps' = mishaps + 1
  /\ Leave(w)
  /\ UNCHANGED <<card, dispute, events, handled, stopped, mixed>>

-----------------------------------------------------------------------------
(* Stripe moves a dispute, or has more to say of one that has ended.       *)
Send(status) ==
  /\ Len(events) < MaxEvents
  /\ events' = Append(events, status)

StripeMoves(status) ==
  /\ events # <<>> /\ events[Len(events)] \in Concluded => status = events[Len(events)]
  /\ Send(status)
  /\ UNCHANGED <<card, dispute, window, handled, stopped, mishaps, mixed>>

(* upsertFromStripeEvent: the row is looked up, then updated or inserted.  *)
FindDispute(w, n) ==
  /\ Enter(w, [op |-> "event", n |-> n, found |-> dispute])
  /\ UNCHANGED <<card, dispute, events, handled, stopped, mishaps>>

(* The row as the handler writes it, from the row as it was found.         *)
Upserted(n, found) ==
  [status |-> events[n],
   resolved |-> IF events[n] \notin Resolved THEN 0
                ELSE IF found.resolved # 0 THEN found.resolved ELSE n]

(* The Stripe id is unique: an insert that comes second is refused.        *)
UpsertDispute(w) ==
  /\ window[w].op = "event"
  /\ LET n == window[w].n
         found == window[w].found
         refused == found.status = "none" /\ dispute.status # "none"
     IN  /\ dispute' = IF refused THEN dispute ELSE Upserted(n, found)
         /\ handled' = IF refused THEN handled ELSE handled \cup {n}
         /\ mixed' = (mixed \/ \E later \in handled : later > n)
  /\ Leave(w)
  /\ UNCHANGED <<card, events, stopped, mishaps>>

(* submitEvidence checks no status; Stripe takes evidence while a dispute  *)
(* has not ended, and sends an event of it.                                *)
ReadForEvidence(w) ==
  /\ dispute.status # "none"
  /\ Enter(w, [op |-> "evidence", at |-> "stripe"])
  /\ UNCHANGED <<card, dispute, events, handled, stopped, mishaps>>

SendEvidence(w) ==
  /\ window[w].op = "evidence" /\ window[w].at = "stripe"
  /\ events[Len(events)] \notin Concluded
  /\ Send("UNDER_REVIEW")
  /\ window' = [window EXCEPT ![w].at = "row"]
  /\ UNCHANGED <<card, dispute, handled, stopped, mishaps, mixed>>

WriteEvidence(w) ==
  /\ window[w].op = "evidence" /\ window[w].at = "row"
  /\ dispute' = [dispute EXCEPT !.status = "UNDER_REVIEW"]
  /\ Leave(w)
  /\ UNCHANGED <<card, events, handled, stopped, mishaps, mixed>>

CardCalls ==
  \E w \in Windows : ReadCard(w) \/ CallStripe(w) \/ WriteCard(w) \/ Fail(w)

DisputeCalls ==
  \/ \E status \in DisputeMoves : StripeMoves(status)
  \/ \E w \in Windows :
       \/ \E n \in DOMAIN events : FindDispute(w, n)
       \/ UpsertDispute(w) \/ ReadForEvidence(w) \/ SendEvidence(w) \/ WriteEvidence(w) \/ Fail(w)

-----------------------------------------------------------------------------
(* The card, and the dispute, hold what their entities say.                *)
CardTypeOK ==
  /\ card \in [row : {"none", "ACTIVE", "FROZEN"} \cup Closed,
               stripe : {"none", "active", "inactive", "canceled"}]
  /\ dispute \in [status : {"none", "UNDER_REVIEW"} \cup DisputeMoves, resolved : 0..MaxEvents]
  /\ Len(events) <= MaxEvents /\ handled \subseteq DOMAIN events
  /\ \A w \in Windows :
       window[w].op \in {"free", "issue", "freeze", "unfreeze", "cancel", "event", "evidence"}
  /\ stopped \in BOOLEAN /\ mishaps \in 0..MaxMishaps /\ mixed \in BOOLEAN

(* Between calls that followed each other and did not fail, the row and    *)
(* Stripe say the same of the card.                                        *)
CardAgrees ==
  Quiet /\ ~mixed /\ mishaps = 0 =>
    CASE card.row = "ACTIVE" -> card.stripe = "active"
      [] card.row = "FROZEN" -> card.stripe = "inactive"
      [] card.row = "none" -> card.stripe = "none"
      [] OTHER -> card.stripe = "canceled"

(* A cancellation that was answered stands in both places, whatever failed *)
(* before or after it, unless calls overlap: then a freeze or unfreeze     *)
(* that has read the row earlier brings the card back.                     *)
StaysCancelled == stopped /\ ~mixed => card.row \in Closed /\ card.stripe = "canceled"

(* When the latest event has been handled, events having come in order and *)
(* one at a time, the row has its status, whatever was lost before; it is  *)
(* dated when it is won or lost, by the first event that was handled to    *)
(* say so.                                                                 *)
DisputeFollows ==
  Quiet /\ ~mixed /\ Len(events) \in handled =>
    /\ dispute.status = events[Len(events)]
    /\ dispute.resolved =
         IF dispute.status \in Resolved THEN Min({n \in handled : events[n] \in Resolved}) ELSE 0
=============================================================================
