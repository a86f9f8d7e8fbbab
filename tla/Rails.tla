------------------------------- MODULE Rails -------------------------------
(***************************************************************************)
(* The payment rails of banking-core (wire, ACH, RTP, SEPA) and the card   *)
(* transactions, all on one account row.  placeHold and releaseHold read   *)
(* the row, then write the new hold; each runs inside a request that has   *)
(* read the payment before and updates it afterwards, so requests overlap  *)
(* and a crash leaves one half done.  Every rail posts its journal through *)
(* JournalService, with the single leg the code gives it.  Wire fees are   *)
(* part of the amount, the account stays active and its balance has no     *)
(* other writer here.                                                      *)
(***************************************************************************)
EXTENDS Postings, FiniteSets

CONSTANTS
  Payments,
  Amount,      \* the amount of each
  Opening,     \* the account row at the start
  Clerks,      \* requests that can run at the same time
  MaxOutages,  \* bound: crashes
  MaxCalls     \* bound: times an authorization, or a clearing, is delivered

ASSUME RailConstants ==
  /\ IsFiniteSet(Payments)
  /\ Amount \in [Payments -> Nat \ {0}]
  /\ Opening \in [balance : Nat, avail : Nat, hold : {0}, overdraft : Nat]
  /\ AvailableAgrees(Opening)
  /\ MaxOutages \in Nat /\ MaxCalls \in Nat

VARIABLES
  rail,      \* the rail of each payment: the table its row is in
  row,       \* the account
  payment,   \* status of each payment row, "none" while there is none
  clerk,     \* per request: [op, p, hold]: hold as read
  calls,     \* per card payment: times its [auth] and its [clear] were delivered
  outages,
  overlap    \* history: two requests that change the hold have overlapped

railVars == <<rail, row, payment, clerk, calls, outages, overlap>>

PaymentStatuses ==
  {"none", "PENDING", "PENDING_APPROVAL", "ACCEPTED", "SUBMITTED", "FAILED", "PROCESSING", "REJECTED",
   "APPROVED", "AUTHORIZED", "DECLINED", "CLEARED", "COMPLETED"}

Free == [op |-> "free", p |-> "none", hold |-> 0]

RailInit ==
  /\ rail = [p \in Payments |-> "none"]
  /\ row = Opening /\ payment = [p \in Payments |-> "none"]
  /\ clerk = [w \in Clerks |-> Free]
  /\ calls = [p \in Payments |-> [auth |-> 0, clear |-> 0]] /\ outages = 0 /\ overlap = FALSE

-----------------------------------------------------------------------------
(* The entries every rail hands to postJournal: a single one.              *)
Legs(p) ==
  <<[account |-> "customer", type |-> IF rail[p] = "achIn" THEN "CREDIT" ELSE "DEBIT",
     amount |-> Amount[p], currency |-> "USD"]>>

AfterPosting(p) == AfterLedgerEntry(row, row.balance + Effect(Legs(p), "customer"))

Becomes(p, status) == payment' = [payment EXCEPT ![p] = status]
Works(w, op, p, hold) == clerk' = [clerk EXCEPT ![w] = [op |-> op, p |-> p, hold |-> hold]]
Rests(w) == clerk' = [clerk EXCEPT ![w] = Free]

-----------------------------------------------------------------------------
(* The available balance is read and nothing is held; a key seen before    *)
(* returns the row it made, whatever became of it.  Money an ACH credit    *)
(* brings in needs no cover.                                               *)
Enters(p, by, status) ==
  /\ rail[p] = "none" /\ (by # "achIn" => Amount[p] <= row.avail)
  /\ rail' = [rail EXCEPT ![p] = by]
  /\ Becomes(p, status)
  /\ UNCHANGED <<row, clerk, calls, outages, overlap>>

InitiateWire(p) == Enters(p, "wire", "PENDING_APPROVAL")
InitiateAch(p) == Enters(p, "ach", "PENDING") \/ Enters(p, "achIn", "PENDING")
SendRtp(p) == Enters(p, "rtp", "PENDING")
SendSepa(p) == Enters(p, "sepa", "PENDING")

Moves(p, by, from, to) ==
  /\ rail[p] \in by /\ payment[p] \in from
  /\ Becomes(p, to)
  /\ UNCHANGED <<rail, row, clerk, calls, outages, overlap>>

(* Plaid answers or fails, when it is asked.                               *)
SubmitAch(p) == \E to \in {"SUBMITTED", "FAILED"} : Moves(p, {"ach", "achIn"}, {"PENDING"}, to)
SubmitToNetwork(p) == Moves(p, {"rtp"}, {"PENDING"}, "PROCESSING")

(* An SCT waits for its day; submitAndSettle looks at no status.           *)
AcceptSepa(p) == Moves(p, {"sepa"}, {"PENDING"}, "ACCEPTED")
SubmitSepa(p) == Moves(p, {"sepa"}, PaymentStatuses \ {"none"}, "PROCESSING")

Settles(p, by, from) ==
  /\ rail[p] \in by /\ payment[p] \in from
  /\ IF Balanced(Legs(p))
     THEN row' = AfterPosting(p) /\ Becomes(p, "COMPLETED")
     ELSE UNCHANGED <<row, payment>>
  /\ UNCHANGED <<rail, clerk, calls, outages, overlap>>

CompleteAch(p) == Settles(p, {"ach", "achIn"}, {"PENDING", "SUBMITTED"})
SettleRtp(p) == Settles(p, {"rtp"}, PaymentStatuses \ {"none", "COMPLETED"})
SettleSepa(p) == Settles(p, {"sepa"}, {"PROCESSING"})

Reject(p) == Moves(p, {"rtp"}, PaymentStatuses \ {"none"}, "REJECTED")

-----------------------------------------------------------------------------
Busy == \E w \in Clerks : clerk[w].op # "free"

(* A request that will place a hold: approve, or processAuthorization once *)
(* the provider has been told to approve.                                  *)
StartHold(w, p) ==
  /\ clerk[w].op = "free"
  /\ \/ rail[p] = "wire" /\ payment[p] = "PENDING_APPROVAL" /\ UNCHANGED <<rail, calls>>
     \/ /\ rail[p] \in {"none", "card"} /\ calls[p].auth < MaxCalls /\ Amount[p] <= row.avail
        /\ rail' = [rail EXCEPT ![p] = "card"]
        /\ calls' = [calls EXCEPT ![p].auth = @ + 1]
  /\ Works(w, "holding", p, 0)
  /\ overlap' = (overlap \/ Busy)
  /\ UNCHANGED <<row, payment, outages>>

DeclineAuthorization(p) ==
  /\ rail[p] \in {"none", "card"} /\ calls[p].auth < MaxCalls /\ Amount[p] > row.avail
  /\ calls' = [calls EXCEPT ![p].auth = @ + 1]
  /\ Becomes(p, "DECLINED") /\ rail' = [rail EXCEPT ![p] = "card"]
  /\ UNCHANGED <<row, clerk, outages, overlap>>

(* Mutant: the available balance was checked when the request came in.     *)
ReadUnchecked(w) ==
  /\ clerk[w].op = "holding"
  /\ Works(w, "placing", clerk[w].p, row.hold)
  /\ UNCHANGED <<rail, row, payment, calls, outages, overlap>>

(* placeHold: refused when too little is available by now.  A card payment *)
(* the provider has approved is then held nowhere and recorded nowhere.    *)
ReadForHold(w) ==
  LET p == clerk[w].p IN
  /\ clerk[w].op = "holding"
  /\ IF Amount[p] <= row.avail
     THEN Works(w, "placing", p, row.hold) ELSE Rests(w)
  /\ UNCHANGED <<rail, row, payment, calls, outages, overlap>>

WriteHold(w) ==
  LET p == clerk[w].p IN
  /\ clerk[w].op = "placing"
  /\ row' = AfterHoldUpdate(row, clerk[w].hold + Amount[p])
  /\ Works(w, "placed", p, 0)
  /\ UNCHANGED <<rail, payment, calls, outages, overlap>>

RecordHold(w) ==
  LET p == clerk[w].p IN
  /\ clerk[w].op = "placed"
  /\ Becomes(p, IF rail[p] = "wire" THEN "APPROVED" ELSE "AUTHORIZED")
  /\ Rests(w)
  /\ UNCHANGED <<rail, row, calls, outages, overlap>>

(* submit: the journal comes first, so the hold is never reached.          *)
SubmitWire(p) ==
  /\ rail[p] = "wire" /\ payment[p] = "APPROVED"
  /\ IF Balanced(Legs(p))
     THEN /\ row' = AfterHoldUpdate(AfterPosting(p), row.hold - Amount[p])
          /\ Becomes(p, "PROCESSING")
     ELSE UNCHANGED <<row, payment>>
  /\ UNCHANGED <<rail, clerk, calls, outages, overlap>>

(* complete looks at no status.                                            *)
CompleteWire(p) == Moves(p, {"wire"}, PaymentStatuses \ {"none"}, "COMPLETED")

(* clearTransaction looks at no status either: releaseHold, then the       *)
(* journal, whose refusal leaves the transaction AUTHORIZED.               *)
StartClearing(w, p) ==
  /\ clerk[w].op = "free" /\ rail[p] = "card" /\ payment[p] # "none"
  /\ calls[p].clear < MaxCalls
  /\ calls' = [calls EXCEPT ![p].clear = @ + 1]
  /\ Works(w, "releasing", p, row.hold)
  /\ overlap' = (overlap \/ Busy)
  /\ UNCHANGED <<rail, row, payment, outages>>

ReleaseAndClear(w) ==
  LET p == clerk[w].p
      left == clerk[w].hold - Amount[p]
  IN /\ clerk[w].op = "releasing"
     /\ IF left < 0 THEN UNCHANGED <<row, payment>>
        ELSE IF Balanced(Legs(p))
        THEN row' = AfterHoldUpdate(AfterPosting(p), left) /\ Becomes(p, "CLEARED")
        ELSE row' = AfterHoldUpdate(row, left) /\ UNCHANGED payment
     /\ Rests(w)
     /\ UNCHANGED <<rail, calls, outages, overlap>>

Outage ==
  /\ outages < MaxOutages
  /\ outages' = outages + 1
  /\ clerk' = [w \in Clerks |-> Free]
  /\ UNCHANGED <<rail, row, payment, calls, overlap>>

RailNext ==
  \/ \E p \in Payments :
       \/ InitiateWire(p) \/ InitiateAch(p) \/ SendRtp(p) \/ SendSepa(p)
       \/ SubmitAch(p) \/ SubmitToNetwork(p) \/ AcceptSepa(p) \/ SubmitSepa(p)
       \/ CompleteAch(p) \/ SettleRtp(p) \/ SettleSepa(p) \/ Reject(p)
       \/ DeclineAuthorization(p) \/ SubmitWire(p) \/ CompleteWire(p)
       \/ \E w \in Clerks : StartHold(w, p) \/ StartClearing(w, p)
  \/ \E w \in Clerks : ReadForHold(w) \/ WriteHold(w) \/ RecordHold(w) \/ ReleaseAndClear(w)
  \/ Outage

RailSpec == RailInit /\ [][RailNext]_railVars

-----------------------------------------------------------------------------
(* The rows and the requests hold what their types say.                    *)
RailTypeOK ==
  /\ rail \in [Payments -> {"none", "wire", "ach", "achIn", "rtp", "sepa", "card"}]
  /\ row \in [balance : Int, avail : Int, hold : Int, overdraft : Nat]
  /\ payment \in [Payments -> PaymentStatuses]
  /\ clerk \in [Clerks -> [op : {"free", "holding", "placing", "placed", "releasing"},
                           p : Payments \cup {"none"}, hold : Int]]
  /\ calls \in [Payments -> [auth : 0..MaxCalls, clear : 0..MaxCalls]] /\ outages \in 0..MaxOutages
  /\ overlap \in BOOLEAN

(* However requests overlap, crash or are delivered again, the hold is     *)
(* never negative and never more than the account could pay: every hold is *)
(* computed from a row on which it was checked.                            *)
HoldWithinFunds == row.hold >= 0 /\ row.hold <= row.balance + row.overdraft

(* Holds are accounted for: while nothing has crashed, no two requests     *)
(* have overlapped and no call has come twice, the hold is the sum of the  *)
(* approved wires and of the authorized card payments not yet cleared.     *)
(* (A wire that is completed by hand keeps its hold, and the clearing of a *)
(* declined payment releases the hold of another.)                         *)
HoldsAccounted ==
  (/\ outages = 0 /\ ~overlap /\ ~Busy
   /\ \A p \in Payments : /\ calls[p].auth < 2 /\ calls[p].clear < 2
                          /\ (rail[p] = "wire" => payment[p] # "COMPLETED")
                          /\ (payment[p] = "DECLINED" => calls[p].clear = 0))
  => row.hold = SumOf([p \in Payments |->
       IF payment[p] = "APPROVED" \/ (payment[p] = "AUTHORIZED" /\ calls[p].clear = 0)
       THEN Amount[p] ELSE 0])

(* The holds of the payment rails are covered and accounted for.           *)
RailsSound == HoldWithinFunds /\ HoldsAccounted

(* What the rails promise: rtp.controller.ts, line 33, has "Sub-second     *)
(* settlement, 24/7/365" and rtp.service.ts, line 108, "For real-time      *)
(* rails, settle immediately".  A real-time payment that was accepted is   *)
(* COMPLETED in the end, or rejected.  The journal of a settlement has one *)
(* leg, validateBalance refuses it, and the payment stays PROCESSING.      *)
RtpSettles ==
  \A p \in Payments : rail[p] = "rtp" ~> payment[p] \in {"COMPLETED", "REJECTED"}
=============================================================================
