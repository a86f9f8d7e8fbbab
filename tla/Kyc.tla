--------------------------------- MODULE Kyc ---------------------------------
(***************************************************************************)
(* KycService with its two providers, and ScreeningService with the one it *)
(* searches.  Every await is a step of its own: calls and webhooks overlap, *)
(* a provider may fail to answer, its webhooks come early, late and more   *)
(* than once.  A provider refers to a verification by the row it was asked *)
(* about.  The reviews of screening hits are in Filings.                   *)
(***************************************************************************)
EXTENDS Integers, FiniteSets

CONSTANTS
  People,         \* customers
  Verifications,  \* rows, numbered from 1 as they are inserted
  Handlers,       \* calls and webhooks that can be handled at the same time
  Results,        \* what a check may end with: passed, unsure, failed
  Reviews,        \* what an officer may decide: APPROVED, DECLINED
  MaxRefusals     \* bound: calls a provider does not answer

ASSUME KycConstants ==
  /\ IsFiniteSet(Verifications) /\ Verifications = 1..Cardinality(Verifications)
  /\ MaxRefusals \in Nat
  /\ Results \subseteq {"passed", "unsure", "failed"} /\ Reviews \subseteq {"APPROVED", "DECLINED"}

VARIABLES
  provider,   \* KYC_PROVIDER
  verified,   \* the rows: [customer, status, ref]
  checkOf,    \* per row, at the provider: "unknown", "started", or its result
  handler,    \* per call between its awaits
  decided,    \* history, per row: who wrote its status last, and on what
  leftBehind,  \* history: rows whose call failed
  overlapped, \* history: customers two of whose calls overlapped, or who were
              \* decided about while one ran
  search,     \* a call of screenCustomer: [at, country, found, answer]
  screened,   \* its records, per type: [status, next], next once nextScreenAt is set
  reviewed    \* history: types whose hit has been resolved

kycVars == <<provider, verified, checkOf, handler, decided, leftBehind, overlapped>>
searchVars == <<search, screened, reviewed>>

NoVerification == [customer |-> "none", status |-> "none", ref |-> 0]
NotCalled == [op |-> "away"]
Undecided == [by |-> "none", on |-> 0]

Used == {v \in Verifications : verified[v] # NoVerification}
Active(v) == verified[v].status \in {"INITIATED", "PENDING"}
ActiveFor(c) == {v \in Used : verified[v].customer = c /\ Active(v)}

KycInit ==
  /\ provider \in {"JUMIO", "ONFIDO"}
  /\ verified = [v \in Verifications |-> NoVerification]
  /\ checkOf = [v \in Verifications |-> "unknown"]
  /\ handler = [h \in Handlers |-> NotCalled]
  /\ decided = [v \in Verifications |-> Undecided]
  /\ leftBehind = {} /\ overlapped = {}

-----------------------------------------------------------------------------
Handle(h, call) == handler' = [handler EXCEPT ![h] = call]
Running(c) == {h \in Handlers : handler[h].op = "initiate" /\ handler[h].customer = c}

(* A customer with an active verification is sent back to it; its expiry   *)
(* is not looked at.                                                       *)
FindActive(h, c) ==
  /\ handler[h] = NotCalled /\ ActiveFor(c) = {}
  /\ Handle(h, [op |-> "initiate", at |-> "save", customer |-> c])
  /\ overlapped' = IF Running(c) # {} THEN overlapped \cup {c} ELSE overlapped
  /\ UNCHANGED <<provider, verified, checkOf, decided, leftBehind>>

SaveInitiated(h) ==
  /\ handler[h].op = "initiate" /\ handler[h].at = "save"
  /\ \E v \in Verifications \ Used :
       /\ \A w \in Verifications \ Used : v <= w
       /\ verified' = [verified EXCEPT ![v] =
            [customer |-> handler[h].customer, status |-> "INITIATED", ref |-> 0]]
       /\ Handle(h, [op |-> "initiate", at |-> "ask", customer |-> handler[h].customer, v |-> v])
  /\ UNCHANGED <<provider, checkOf, decided, leftBehind, overlapped>>

(* The provider knows the verification from here on.                       *)
AskProvider(h) ==
  /\ handler[h].op = "initiate" /\ handler[h].at = "ask"
  /\ checkOf' = [checkOf EXCEPT ![handler[h].v] = "started"]
  /\ handler' = [handler EXCEPT ![h].at = "pend"]
  /\ UNCHANGED <<provider, verified, decided, leftBehind, overlapped>>

(* The provider does not answer, or its answer is lost: the row stays.     *)
ProviderFails(h) ==
  /\ handler[h].op = "initiate" /\ handler[h].at \in {"ask", "pend"}
  /\ Cardinality(leftBehind) < MaxRefusals
  /\ leftBehind' = leftBehind \cup {handler[h].v}
  /\ Handle(h, NotCalled)
  /\ UNCHANGED <<provider, verified, checkOf, decided, overlapped>>

WritePending(h) ==
  /\ handler[h].op = "initiate" /\ handler[h].at = "pend"
  /\ verified' = [verified EXCEPT ![handler[h].v].status = "PENDING",
                                  ![handler[h].v].ref = handler[h].v]
  /\ decided' = [decided EXCEPT ![handler[h].v] = Undecided]
  /\ Handle(h, NotCalled)
  /\ UNCHANGED <<provider, checkOf, leftBehind, overlapped>>

-----------------------------------------------------------------------------
ProviderDecides(v, result) ==
  /\ checkOf[v] = "started"
  /\ checkOf' = [checkOf EXCEPT ![v] = result]
  /\ UNCHANGED <<provider, verified, handler, decided, leftBehind, overlapped>>

(* The row a webhook about v is for: Jumio's by its reference, Onfido's is *)
(* any that is pending.                                                    *)
Matches(v, w) ==
  IF provider = "JUMIO" THEN verified[w].ref = v ELSE verified[w].status = "PENDING"

FindVerification(h, v) ==
  /\ handler[h] = NotCalled /\ checkOf[v] # "unknown"
  /\ \E w \in Used :
       /\ Matches(v, w)
       /\ Handle(h, [op |-> "webhook", at |-> "fetch", about |-> v, v |-> w])
  /\ UNCHANGED <<provider, verified, checkOf, decided, leftBehind, overlapped>>

(* mapDecision and mapResult: with no result yet, Jumio's is to be         *)
(* reviewed and Onfido's is declined.                                      *)
Mapped(result) ==
  CASE result = "passed" -> "APPROVED"
    [] result = "unsure" -> "REVIEW_REQUIRED"
    [] result = "failed" -> "DECLINED"
    [] OTHER -> IF provider = "JUMIO" THEN "REVIEW_REQUIRED" ELSE "DECLINED"

FetchResult(h) ==
  /\ handler[h].op = "webhook" /\ handler[h].at = "fetch"
  /\ Handle(h, [op |-> "webhook", at |-> "write", about |-> handler[h].about, v |-> handler[h].v,
               result |-> checkOf[handler[h].about]])
  /\ UNCHANGED <<provider, verified, checkOf, decided, leftBehind, overlapped>>

Decide(v, status, who) ==
  /\ verified' = [verified EXCEPT ![v].status = status]
  /\ decided' = [decided EXCEPT ![v] = who]
  /\ overlapped' = IF Running(verified[v].customer) # {}
                   THEN overlapped \cup {verified[v].customer} ELSE overlapped

WriteResult(h) ==
  /\ handler[h].op = "webhook" /\ handler[h].at = "write"
  /\ Decide(handler[h].v, Mapped(handler[h].result), [by |-> "provider", on |-> handler[h].about])
  /\ Handle(h, NotCalled)
  /\ UNCHANGED <<provider, checkOf, leftBehind>>

(* manualReview looks at no status.                                        *)
ManualReview(v, decision) ==
  /\ v \in Used
  /\ Decide(v, decision, [by |-> "officer", on |-> v])
  /\ UNCHANGED <<provider, checkOf, handler, leftBehind>>

KycNext ==
  \/ \E h \in Handlers :
       \/ \E c \in People : FindActive(h, c)
       \/ SaveInitiated(h) \/ AskProvider(h) \/ ProviderFails(h) \/ WritePending(h)
       \/ \E v \in Verifications : FindVerification(h, v)
       \/ FetchResult(h) \/ WriteResult(h)
  \/ \E v \in Verifications :
       \/ \E result \in Results : ProviderDecides(v, result)
       \/ \E decision \in Reviews : ManualReview(v, decision)

-----------------------------------------------------------------------------
(* The three searches, one after the other.                                *)
Searches == <<"SANCTIONS", "PEP", "ADVERSE_MEDIA">>
ScreeningTypes == {"SANCTIONS", "PEP", "ADVERSE_MEDIA", "WATCHLIST"}
HighRisk == {"IR", "KP", "SY", "CU", "SD", "MM", "LY", "BY", "RU", "VE"}

SearchInit ==
  /\ search = [at |-> 0, country |-> "none", found |-> {}, answer |-> "none"]
  /\ screened = [t \in ScreeningTypes |-> [status |-> "none", next |-> FALSE]]
  /\ reviewed = {}

ScreenCustomer(country) ==
  /\ search.at = 0
  /\ search' = [search EXCEPT !.at = 1, !.country = country]
  /\ UNCHANGED <<screened, reviewed>>

(* A record is saved per search; the answer is kept in memory.             *)
RunScreening(status) ==
  /\ search.at \in 1..3
  /\ screened' = [screened EXCEPT ![Searches[search.at]].status = status]
  /\ search' = [search EXCEPT !.at = @ + 1,
                  !.found = IF status = "HIT" THEN @ \cup {Searches[search.at]} ELSE @]
  /\ UNCHANGED reviewed

SearchFails ==
  /\ search.at \in 1..3
  /\ search' = [search EXCEPT !.at = 7, !.answer = "failed"]
  /\ UNCHANGED <<screened, reviewed>>

CheckJurisdiction ==
  /\ search.at = 4
  /\ LET risky == search.country \in HighRisk
     IN  /\ screened' = IF risky THEN [screened EXCEPT !["WATCHLIST"].status = "HIT"] ELSE screened
         /\ search' = [search EXCEPT !.at = 5,
                         !.found = IF risky THEN @ \cup {"WATCHLIST"} ELSE @]
  /\ UNCHANGED reviewed

(* The date of the next screening is written to every record, by id.       *)
ScheduleNext ==
  /\ search.at = 5
  /\ screened' = [t \in ScreeningTypes |->
       IF screened[t].status = "none" THEN screened[t] ELSE [screened[t] EXCEPT !.next = TRUE]]
  /\ search' = [search EXCEPT !.at = 6, !.answer = IF search.found = {} THEN "clear" ELSE "hits"]
  /\ UNCHANGED reviewed

(* resolveScreening looks at no status, so a record that is clear can be   *)
(* made a match.                                                           *)
ResolveScreening(t, decision) ==
  /\ screened[t].status # "none"
  /\ screened' = [screened EXCEPT ![t].status = decision]
  /\ reviewed' = reviewed \cup {t}
  /\ UNCHANGED search

SearchNext ==
  \/ \E country \in {"none", "US", "RU"} : ScreenCustomer(country)
  \/ \E status \in {"CLEAR", "HIT"} : RunScreening(status)
  \/ SearchFails \/ CheckJurisdiction \/ ScheduleNext
  \/ \E t \in ScreeningTypes, decision \in {"CONFIRMED_MATCH", "FALSE_POSITIVE"} :
       ResolveScreening(t, decision)

-----------------------------------------------------------------------------
(* The rows hold what their entity says.                                   *)
KycTypeOK ==
  /\ provider \in {"JUMIO", "ONFIDO"}
  /\ verified \in [Verifications ->
       [customer : People \cup {"none"}, ref : {0} \cup Verifications,
        status : {"none", "INITIATED", "PENDING", "APPROVED", "DECLINED", "REVIEW_REQUIRED"}]]
  /\ checkOf \in [Verifications -> {"unknown", "started"} \cup Results]
  /\ leftBehind \subseteq Verifications /\ Cardinality(leftBehind) <= MaxRefusals
  /\ overlapped \subseteq People
  /\ search.at \in 0..7 /\ search.found \subseteq ScreeningTypes
  /\ screened \in [ScreeningTypes ->
       [next : BOOLEAN, status : {"none", "CLEAR", "HIT", "CONFIRMED_MATCH", "FALSE_POSITIVE"}]]
  /\ reviewed \subseteq ScreeningTypes

(* A verification is approved by an officer or by a check that passed, on  *)
(* however many webhooks and in whatever order; with Jumio it is its own   *)
(* check.  With Onfido it may be that of somebody else: the webhook is not *)
(* matched by its applicant.  So it is its own only as long as the         *)
(* provider has been asked about no other.                                 *)
ApprovedOnGrounds ==
  \A v \in Used : verified[v].status = "APPROVED" =>
    \/ decided[v].by = "officer"
    \/ /\ decided[v].by = "provider" /\ checkOf[decided[v].on] = "passed"
       /\ \/ decided[v].on = v
          \/ provider = "ONFIDO" /\ \E w \in Verifications \ {v} : checkOf[w] # "unknown"

(* A customer has one active verification at most, whatever goes on for    *)
(* others, unless two of the customer's own calls overlap or a decision    *)
(* overtakes one.                                                          *)
OneActive == \A c \in People \ overlapped : Cardinality(ActiveFor(c)) <= 1

(* A verification that is stuck before it reached its customer, and so     *)
(* keeps the customer from starting another, has been left by a provider   *)
(* that did not answer.                                                    *)
StuckWasAbandoned ==
  \A v \in Used : verified[v].status = "INITIATED" =>
    \/ v \in leftBehind
    \/ \E h \in Running(verified[v].customer) : handler[h].at # "save" /\ handler[h].v = v

(* A customer is clear only after all three searches and off the list of   *)
(* countries, whatever officers resolve meanwhile; a screening that failed *)
(* half-way gives no answer and leaves records that come up for no next    *)
(* screening; and a review stands when the dates are written after it.     *)
ClearIsComplete ==
  /\ search.answer = "clear" =>
       /\ search.country \notin HighRisk
       /\ \A i \in 1..3 : screened[Searches[i]].status = "CLEAR" \/ Searches[i] \in reviewed
  /\ \A t \in ScreeningTypes : screened[t].next =>
       /\ search.answer \in {"clear", "hits"}
       /\ \A i \in 1..3 : screened[Searches[i]].next
  /\ \A t \in reviewed : screened[t].status \in {"CONFIRMED_MATCH", "FALSE_POSITIVE"}
=============================================================================
