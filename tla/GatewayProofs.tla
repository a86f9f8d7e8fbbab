---------------------------- MODULE GatewayProofs ----------------------------
(***************************************************************************)
(* Theorems about what stands between the bank and the outside: the        *)
(* consents, for every set of consents and requests and any number of      *)
(* token pairs; the calls that go out and the ones that come in again      *)
(* (Delivery, for every set of events and subscriptions and every schedule *)
(* of retries; Breaker, for every set of callers, window, threshold and    *)
(* recovery time; Redelivery, for every set of deliveries and requests);   *)
(* the payment rails, for every finite set of payments and any number of   *)
(* requests at once; the cards and disputes, for any number of calls,      *)
(* events and failures; and the whole Gateway, whose parts share no state, *)
(* so that each keeps its own invariant while the others stand still.      *)
(***************************************************************************)
EXTENDS Gateway, Sums, WellFoundedInduction

-----------------------------------------------------------------------------
(* The consents.                                                           *)

(* The actions by what they write: requests only, rows, pairs.             *)
Reads(r) ==
  \/ \E c \in ConsentIds :
       ReadToAuthorise(r, c) \/ ReadToRevoke(r, c) \/ FindCode(r, c) \/ ReadLapsed(r, c)
  \/ \E k \in 1..MaxPairs : FindRefreshToken(r, k) \/ Introspect(r, k)
Checks(r) == CheckRefresh(r) \/ IssueFails(r) \/ Resolve(r) \/ Serve(r)

(* What a request has at hand is there: the consent it is about, and the   *)
(* one a live token belongs to.                                            *)
Named ==
  /\ \A r \in Requests : request[r].op # "done" => request[r].on \in ConsentIds
  /\ \A k \in 1..MaxPairs : pair[k].access \/ pair[k].refresh => pair[k].consent \in ConsentIds

(* Token pairs are issued one after the other.                             *)
Filled(n) == \A k \in 1..MaxPairs : pair[k].consent # "none" <=> k <= n

(* A parent that is spent is found by nobody: no row has the code, or the  *)
(* refresh token is gone for good.                                         *)
Spent(p) ==
  \/ p[1] = "code" /\ p[2] \in 1..codes /\ \A c \in ConsentIds : consent[c].code # p[2]
  \/ p[1] = "refresh" /\ p[2] \in 1..MaxPairs /\ pair[p[2]].consent # "none"
     /\ ~pair[p[2]].refresh

(* No two rows have one code, a code being exchanged is in no other row    *)
(* than the one its request is about, and whatever a pair came from, or is *)
(* about to come from, is spent.                                           *)
CodesApart ==
  /\ \A c \in ConsentIds : consent[c].code <= codes
  /\ \A c, d \in ConsentIds : c # d /\ consent[c].code = consent[d].code => consent[c].code = 0
FromFits(r) ==
  /\ request[r].op = "exchange" =>
       /\ request[r].from[1] = "code" /\ request[r].from[2] \in 1..codes
       /\ \A c \in ConsentIds : consent[c].code = request[r].from[2] => c = request[r].on
  /\ request[r].op \in {"refresh", "rotate"} =>
       /\ request[r].from[1] = "refresh" /\ request[r].from[2] \in 1..MaxPairs
       /\ pair[request[r].from[2]].consent # "none"
  /\ request[r].op = "issue" => Spent(request[r].from)
ParentsSpent ==
  /\ \A r \in Requests : FromFits(r)
  /\ \A k \in 1..MaxPairs : pair[k].parent[1] # "none" => Spent(pair[k].parent)

(* Whoever may still write over a revocation was in flight when it came.   *)
RevokersKnown ==
  \A c \in ConsentIds, r \in Requests :
    /\ consent[c].status = "REVOKED"
    /\ request[r].op \in {"authorise", "expire"} /\ request[r].on = c
    => r \in revokedBy[c]

GrantInv ==
  /\ ConsentTypeOK /\ Named /\ CodesApart /\ ParentsSpent /\ RevokersKnown
  /\ \E n \in 0..MaxPairs : Filled(n)

-----------------------------------------------------------------------------
(* The next pair goes where none is.                                       *)
LEMMA IssuedCounts ==
  ASSUME NEW n \in 0..MaxPairs, Filled(n)
  PROVE  Issued = n
<1>1. {k \in 1..MaxPairs : pair[k].consent # "none"} = 1..n
  BY ConsentConstants DEF Filled
<1>2. Cardinality(1..n) = n
  BY FS_Interval
<1> QED
  BY <1>1, <1>2 DEF Issued

(* Every request is somewhere in the list of actions.                      *)
LEMMA NextCases ==
  ASSUME ConsentNext
  PROVE  \/ \E c \in ConsentIds, byClient \in BOOLEAN : CreateConsent(c, byClient)
         \/ \E c \in ConsentIds : CodeExpires(c) \/ ConsentLapses(c)
         \/ \E r \in Requests : Reads(r) \/ Checks(r)
         \/ \E r \in Requests : WriteAuthorised(r) \/ WriteRevoked(r) \/ WriteExpired(r)
         \/ \E r \in Requests : ClearCode(r) \/ DeleteRefreshToken(r) \/ IssueTokenPair(r)
         \/ \E k \in 1..MaxPairs, which \in {"access", "refresh"} : RevokeToken(k, which)
BY DEF ConsentNext, Reads, Checks

(* The types in parts: rows, pairs, and requests in flight.                *)
Rows == [status : {"none", "AWAITING", "AUTHORISED", "REVOKED", "EXPIRED"},
         client : BOOLEAN, code : 0..MaxPairs, past : BOOLEAN]
TokenPairs == [consent : ConsentIds \cup {"none"}, access : BOOLEAN,
               refresh : BOOLEAN, parent : Parents]
InFlight == [op : Ops, on : ConsentIds \cup {"none"}, from : Parents]

(* ConsentTypeOK, variable by variable.                                    *)
LEMMA TypeParts ==
  ConsentTypeOK <=> /\ consent \in [ConsentIds -> Rows] /\ codes \in 0..MaxPairs
                    /\ pair \in [1..MaxPairs -> TokenPairs]
                    /\ request \in [Requests -> InFlight]
                    /\ revokedBy \in [ConsentIds -> SUBSET Requests]
BY DEF ConsentTypeOK, Rows, TokenPairs, InFlight

(* Where a request may go next.                                            *)
LEMMA GoesTyped ==
  ASSUME request \in [Requests -> InFlight], NEW r,
         NEW op \in Ops, NEW c \in ConsentIds \cup {"none"}, NEW from \in Parents,
         Goes(r, op, c, from) \/ Ends(r)
  PROVE  request' \in [Requests -> InFlight]
<1>1. [op |-> op, on |-> c, from |-> from] \in InFlight
  BY DEF InFlight
<1>2. Done \in InFlight
  BY DEF Done, InFlight, Ops, Parents
<1> QED
  BY <1>1, <1>2 DEF Goes, Ends

(* A request that begins reads one consent and writes nothing.             *)
LEMMA ReadsGo ==
  ASSUME ConsentTypeOK, Named, NEW r \in Requests, Reads(r)
  PROVE  /\ \E op \in Ops, c \in ConsentIds, from \in Parents :
              op # "done" /\ Goes(r, op, c, from)
         /\ UNCHANGED <<consent, codes, pair, revokedBy>>
         /\ request[r].op = "done"
<1>1. CASE \E c \in ConsentIds : ReadToAuthorise(r, c) \/ ReadToRevoke(r, c) \/ ReadLapsed(r, c)
  <2>1. <<"none", 0>> \in Parents
    BY DEF Parents
  <2> QED
    BY <1>1, <2>1 DEF ReadToAuthorise, ReadToRevoke, ReadLapsed, Ops
<1>2. ASSUME NEW c \in ConsentIds, FindCode(r, c)
      PROVE  <<"code", consent[c].code>> \in Parents
  <2>1. consent[c].code \in 1..MaxPairs
    BY <1>2, ConsentConstants DEF ConsentTypeOK, FindCode
  <2> QED
    BY <2>1 DEF Parents
<1>3. ASSUME NEW k \in 1..MaxPairs, FindRefreshToken(r, k) \/ Introspect(r, k)
      PROVE  /\ pair[k].consent \in ConsentIds
             /\ <<"refresh", k>> \in Parents /\ <<"access", k>> \in Parents
  BY <1>3 DEF Named, FindRefreshToken, Introspect, Parents
<1> QED
  BY <1>1, <1>2, <1>3 DEF Reads, FindCode, FindRefreshToken, Introspect, Ops

(* A check takes a request further, or ends it, and writes nothing.        *)
LEMMA ChecksGo ==
  ASSUME ConsentTypeOK, NEW r \in Requests, Checks(r)
  PROVE  /\ \/ \E op \in {"rotate", "serving"} : Goes(r, op, request[r].on, request[r].from)
            \/ Ends(r)
         /\ UNCHANGED <<consent, codes, pair, revokedBy>>
         /\ request[r].op # "done"
BY DEF Checks, CheckRefresh, IssueFails, Resolve, Serve

(* Every step keeps the rows, pairs and requests typed.                    *)
LEMMA TypesKept == ConsentTypeOK /\ Named /\ [ConsentNext]_consentVars => ConsentTypeOK'
<1> SUFFICES ASSUME ConsentTypeOK, Named, [ConsentNext]_consentVars PROVE ConsentTypeOK'
  OBVIOUS
<1>0. /\ consent \in [ConsentIds -> Rows] /\ codes \in 0..MaxPairs
      /\ pair \in [1..MaxPairs -> TokenPairs]
      /\ request \in [Requests -> InFlight]
      /\ revokedBy \in [ConsentIds -> SUBSET Requests]
  BY TypeParts
<1> DEFINE Kept == /\ consent' \in [ConsentIds -> Rows] /\ codes' \in 0..MaxPairs
                   /\ pair' \in [1..MaxPairs -> TokenPairs]
                   /\ request' \in [Requests -> InFlight]
                   /\ revokedBy' \in [ConsentIds -> SUBSET Requests]
<1> SUFFICES Kept
  BY DEF ConsentTypeOK, Rows, TokenPairs, InFlight
<1>a. ASSUME NEW r \in Requests PROVE request[r] \in InFlight
  BY <1>0
<1>b. ASSUME NEW c \in ConsentIds PROVE consent[c] \in Rows
  BY <1>0
<1>c. ASSUME NEW k \in 1..MaxPairs PROVE pair[k] \in TokenPairs
  BY <1>0
<1>d. ASSUME NEW r \in Requests, Ends(r) PROVE request' \in [Requests -> InFlight]
  BY <1>0, <1>d, GoesTyped DEF Ops, Parents
<1>e. 0 \in 0..MaxPairs
  BY ConsentConstants
<1>1. ASSUME NEW c \in ConsentIds, NEW b \in BOOLEAN, CreateConsent(c, b) PROVE Kept
  <2>1. [NoConsent EXCEPT !.status = "AWAITING", !.client = b] \in Rows
    BY <1>e DEF NoConsent, Rows
  <2> QED
    BY <1>0, <1>1, <2>1 DEF CreateConsent
<1>2. ASSUME NEW c \in ConsentIds, CodeExpires(c) \/ ConsentLapses(c) PROVE Kept
  <2>1. /\ [consent[c] EXCEPT !.code = 0] \in Rows
        /\ [consent[c] EXCEPT !.past = TRUE] \in Rows
    BY <1>b, <1>e DEF Rows
  <2> QED
    BY <1>0, <1>2, <2>1 DEF CodeExpires, ConsentLapses
<1>3. ASSUME NEW r \in Requests, Reads(r) PROVE Kept
  BY <1>0, <1>3, ReadsGo, GoesTyped
<1>4. ASSUME NEW r \in Requests, Checks(r) PROVE Kept
  <2>1. request[r].on \in ConsentIds \cup {"none"} /\ request[r].from \in Parents
    BY <1>a DEF InFlight
  <2>2. /\ \/ \E op \in Ops : Goes(r, op, request[r].on, request[r].from)
           \/ Ends(r)
        /\ UNCHANGED <<consent, codes, pair, revokedBy>>
    BY <1>4, ChecksGo DEF Ops
  <2>3. request' \in [Requests -> InFlight]
    BY <1>0, <1>d, <2>1, <2>2, GoesTyped
  <2> QED
    BY <1>0, <2>2, <2>3
<1>5. ASSUME NEW r \in Requests, WriteAuthorised(r) PROVE Kept
  <2>1. codes + 1 \in 0..MaxPairs
    BY <1>0, <1>5, ConsentConstants DEF WriteAuthorised
  <2>2. consent' \in [ConsentIds -> Rows]
    <3> DEFINE c == request[r].on
               authorised == [consent[c] EXCEPT !.status = "AUTHORISED", !.code = codes + 1,
                                                !.past = FALSE]
    <3>1. consent' = [consent EXCEPT ![c] = authorised]
      BY <1>5 DEF WriteAuthorised
    <3>2. c \in ConsentIds => authorised \in Rows
      BY <1>b, <2>1 DEF Rows
    <3> QED
      BY <1>0, <3>1, <3>2
  <2> QED
    BY <1>0, <1>5, <1>d, <2>1, <2>2 DEF WriteAuthorised
<1>6. ASSUME NEW r \in Requests, WriteRevoked(r) PROVE Kept
  <2>1. consent' \in [ConsentIds -> Rows]
    BY <1>0, <1>b, <1>6 DEF WriteRevoked, Rows
  <2> QED
    BY <1>0, <1>6, <1>d, <2>1 DEF WriteRevoked
<1>7. ASSUME NEW r \in Requests, WriteExpired(r) PROVE Kept
  <2>1. consent' \in [ConsentIds -> Rows]
    BY <1>0, <1>b, <1>7 DEF WriteExpired, Rows
  <2> QED
    BY <1>0, <1>7, <1>d, <2>1 DEF WriteExpired
<1>8. ASSUME NEW r \in Requests, ClearCode(r) PROVE Kept
  <2>1. consent' \in [ConsentIds -> Rows]
    BY <1>0, <1>b, <1>e, <1>8 DEF ClearCode, Rows
  <2>2. request' \in [Requests -> InFlight]
    BY <1>0, <1>a, <1>8, GoesTyped DEF ClearCode, InFlight, Ops
  <2> QED
    BY <1>0, <1>8, <2>1, <2>2 DEF ClearCode
<1>9. ASSUME NEW r \in Requests, DeleteRefreshToken(r) PROVE Kept
  <2>1. pair' \in [1..MaxPairs -> TokenPairs]
    BY <1>0, <1>c, <1>9 DEF DeleteRefreshToken, TokenPairs
  <2>2. request' \in [Requests -> InFlight]
    BY <1>0, <1>a, <1>9, GoesTyped DEF DeleteRefreshToken, InFlight, Ops
  <2> QED
    BY <1>0, <1>9, <2>1, <2>2 DEF DeleteRefreshToken
<1>10. ASSUME NEW r \in Requests, IssueTokenPair(r) PROVE Kept
  <2>1. [consent |-> request[r].on, access |-> TRUE, refresh |-> TRUE,
         parent |-> request[r].from] \in TokenPairs
    BY <1>a DEF InFlight, TokenPairs
  <2> QED
    BY <1>0, <1>10, <1>d, <2>1 DEF IssueTokenPair
<1>11. ASSUME NEW k \in 1..MaxPairs, NEW which \in {"access", "refresh"}, RevokeToken(k, which)
       PROVE  Kept
  <2>1. PICK a \in BOOLEAN, b \in BOOLEAN :
          pair' = [pair EXCEPT ![k].access = a, ![k].refresh = b]
    BY <1>c, <1>11 DEF RevokeToken, TokenPairs
  <2>2. pair' \in [1..MaxPairs -> TokenPairs]
    BY <1>0, <1>c, <2>1 DEF TokenPairs
  <2> QED
    BY <1>0, <1>11, <2>2 DEF RevokeToken
<1>12. CASE UNCHANGED consentVars
  BY <1>0, <1>12 DEF consentVars
<1> QED
  BY <1>1, <1>2, <1>3, <1>4, <1>5, <1>6, <1>7, <1>8, <1>9, <1>10, <1>11, <1>12, NextCases

-----------------------------------------------------------------------------
(* What a request has at hand stays there.                                 *)
LEMMA NamedKept ==
  ConsentTypeOK /\ Named /\ [ConsentNext]_consentVars => Named'
<1> SUFFICES ASSUME ConsentTypeOK, Named, [ConsentNext]_consentVars PROVE Named'
  OBVIOUS
<1>0. /\ request \in [Requests -> InFlight] /\ pair \in [1..MaxPairs -> TokenPairs]
  BY TypeParts
<1> DEFINE CallsNamed == \A r \in Requests : request'[r].op # "done" => request'[r].on \in ConsentIds
           PairsNamed == \A k \in 1..MaxPairs :
                           pair'[k].access \/ pair'[k].refresh => pair'[k].consent \in ConsentIds
<1>e. ASSUME NEW r \in Requests, Ends(r) PROVE CallsNamed
  BY <1>0, <1>e DEF Ends, Done, Named
<1>g. ASSUME NEW r \in Requests, NEW op, NEW c \in ConsentIds, NEW from, Goes(r, op, c, from)
      PROVE  CallsNamed
  BY <1>0, <1>g DEF Goes, Named
<1>u. UNCHANGED pair => PairsNamed
  BY DEF Named
<1>v. UNCHANGED request => CallsNamed
  BY DEF Named
<1>n. ASSUME NEW r \in Requests, request[r].op # "done" PROVE request[r].on \in ConsentIds
  BY <1>n DEF Named
<1>1. ASSUME NEW r \in Requests, Reads(r) PROVE CallsNamed /\ PairsNamed
  BY <1>1, <1>g, <1>u, ReadsGo
<1>2. ASSUME NEW r \in Requests, Checks(r) PROVE CallsNamed /\ PairsNamed
  BY <1>2, <1>e, <1>g, <1>n, <1>u, ChecksGo
<1>3. ASSUME NEW r \in Requests, WriteAuthorised(r) \/ WriteRevoked(r) \/ WriteExpired(r)
      PROVE  CallsNamed /\ PairsNamed
  BY <1>3, <1>e, <1>u DEF WriteAuthorised, WriteRevoked, WriteExpired
<1>4. ASSUME NEW r \in Requests, ClearCode(r) PROVE CallsNamed /\ PairsNamed
  BY <1>4, <1>g, <1>n, <1>u DEF ClearCode
<1>5. ASSUME NEW r \in Requests, DeleteRefreshToken(r) PROVE CallsNamed /\ PairsNamed
  <2>1. CallsNamed
    BY <1>5, <1>g, <1>n DEF DeleteRefreshToken
  <2>2. PairsNamed
    BY <1>0, <1>5 DEF DeleteRefreshToken, Named, TokenPairs
  <2> QED
    BY <2>1, <2>2
<1>6. ASSUME NEW r \in Requests, IssueTokenPair(r) PROVE CallsNamed /\ PairsNamed
  <2>1. CallsNamed /\ request[r].on \in ConsentIds
    BY <1>6, <1>e, <1>n DEF IssueTokenPair
  <2>2. PairsNamed
    BY <1>0, <1>6, <2>1 DEF IssueTokenPair, Named, TokenPairs
  <2> QED
    BY <2>1, <2>2
<1>7. ASSUME NEW k \in 1..MaxPairs, NEW which \in {"access", "refresh"}, RevokeToken(k, which)
      PROVE  CallsNamed /\ PairsNamed
  <2>1. /\ \A j \in 1..MaxPairs : /\ pair'[j].access => pair[j].access
                                  /\ pair'[j].refresh => pair[j].refresh
                                  /\ pair'[j].consent = pair[j].consent
    BY <1>0, <1>7 DEF RevokeToken, TokenPairs
  <2> QED
    BY <1>7, <1>v, <2>1 DEF RevokeToken, Named
<1>8. CASE \/ \E c \in ConsentIds, b \in BOOLEAN : CreateConsent(c, b)
           \/ \E c \in ConsentIds : CodeExpires(c) \/ ConsentLapses(c)
           \/ UNCHANGED consentVars
  <2>1. UNCHANGED <<pair, request>>
    BY <1>8 DEF CreateConsent, CodeExpires, ConsentLapses, consentVars
  <2> QED
    BY <2>1 DEF Named
<1>9. CallsNamed /\ PairsNamed => Named'
  BY DEF Named
<1> HIDE DEF CallsNamed, PairsNamed
<1> QED
  BY <1>1, <1>2, <1>3, <1>4, <1>5, <1>6, <1>7, <1>8, <1>9, NextCases

(* A revocation notes every request that may still undo it, and no later   *)
(* one becomes such a request.                                             *)
LEMMA RevokersKept ==
  ConsentTypeOK /\ Named /\ RevokersKnown /\ [ConsentNext]_consentVars => RevokersKnown'
<1> SUFFICES ASSUME ConsentTypeOK, Named, RevokersKnown, [ConsentNext]_consentVars,
                    NEW c \in ConsentIds, NEW q \in Requests,
                    consent'[c].status = "REVOKED",
                    request'[q].op \in {"authorise", "expire"}, request'[q].on = c
             PROVE  q \in revokedBy'[c]
  BY DEF RevokersKnown
<1>0. /\ consent \in [ConsentIds -> Rows] /\ request \in [Requests -> InFlight]
      /\ revokedBy \in [ConsentIds -> SUBSET Requests]
  BY TypeParts
<1>a. /\ consent[c].status = "REVOKED" /\ request[q] = request'[q] => q \in revokedBy[c]
  BY DEF RevokersKnown
<1>e. ASSUME NEW r \in Requests, Ends(r) PROVE q # r /\ request[q] = request'[q]
  BY <1>0, <1>e DEF Ends, Done
<1>1. ASSUME NEW r \in Requests, Reads(r) PROVE q \in revokedBy'[c]
  <2>1. UNCHANGED <<consent, revokedBy>>
    BY <1>1, ReadsGo
  <2>2. CASE q # r
    <3>1. request[q] = request'[q]
      BY <1>0, <1>1, <2>2, ReadsGo DEF Goes
    <3> QED
      BY <1>a, <2>1, <3>1
  <2>3. CASE q = r
    <3>1. \/ ReadToAuthorise(r, c) \/ ReadLapsed(r, c)
          \/ request'[r].op \notin {"authorise", "expire"} \/ request'[r].on # c
      BY <1>0, <1>1, <2>3 DEF Reads, ReadToAuthorise, ReadToRevoke, FindCode, ReadLapsed,
                              FindRefreshToken, Introspect, Goes
    <3> QED
      BY <2>1, <2>3, <3>1 DEF ReadToAuthorise, ReadLapsed
  <2> QED
    BY <2>2, <2>3
<1>2. ASSUME NEW r \in Requests, Checks(r) PROVE q \in revokedBy'[c]
  <2>1. request[q] = request'[q]
    BY <1>0, <1>2, ChecksGo DEF Goes, Ends, Done
  <2> QED
    BY <1>2, <1>a, <2>1, ChecksGo
<1>3. ASSUME NEW r \in Requests, WriteAuthorised(r) \/ WriteExpired(r) PROVE q \in revokedBy'[c]
  <2>1. request[q] = request'[q]
    BY <1>3, <1>e DEF WriteAuthorised, WriteExpired
  <2>2. consent[c].status = "REVOKED" /\ UNCHANGED revokedBy
    BY <1>0, <1>3 DEF WriteAuthorised, WriteExpired, Rows
  <2> QED
    BY <1>a, <2>1, <2>2
<1>4. ASSUME NEW r \in Requests, WriteRevoked(r) PROVE q \in revokedBy'[c]
  <2>1. q # r /\ request[q] = request'[q]
    BY <1>4, <1>e DEF WriteRevoked
  <2>2. CASE request[r].on = c
    BY <1>0, <1>4, <2>1, <2>2 DEF WriteRevoked
  <2>3. CASE request[r].on # c
    <3>1. consent[c].status = "REVOKED" /\ revokedBy'[c] = revokedBy[c]
      BY <1>0, <1>4, <2>3 DEF WriteRevoked, Rows
    <3> QED
      BY <1>a, <2>1, <3>1
  <2> QED
    BY <2>2, <2>3
<1>5. ASSUME NEW r \in Requests, ClearCode(r) \/ DeleteRefreshToken(r) \/ IssueTokenPair(r)
      PROVE  q \in revokedBy'[c]
  <2>1. request[q] = request'[q]
    BY <1>0, <1>5 DEF ClearCode, DeleteRefreshToken, IssueTokenPair, Goes, Ends, Done
  <2>2. consent[c].status = "REVOKED" /\ UNCHANGED revokedBy
    BY <1>0, <1>5 DEF ClearCode, DeleteRefreshToken, IssueTokenPair, Rows
  <2> QED
    BY <1>a, <2>1, <2>2
<1>6. CASE \/ \E d \in ConsentIds, b \in BOOLEAN : CreateConsent(d, b)
           \/ \E d \in ConsentIds : CodeExpires(d) \/ ConsentLapses(d)
  <2>1. UNCHANGED <<request, revokedBy>>
    BY <1>6 DEF CreateConsent, CodeExpires, ConsentLapses
  <2>2. CASE \E d \in ConsentIds, b \in BOOLEAN : CreateConsent(d, b)
    <3>1. \A b \in BOOLEAN : [NoConsent EXCEPT !.status = "AWAITING", !.client = b].status # "REVOKED"
      BY DEF NoConsent
    <3>2. consent[c].status = "REVOKED"
      BY <1>0, <2>2, <3>1 DEF CreateConsent
    <3> QED
      BY <1>a, <2>1, <3>2
  <2>3. CASE \E d \in ConsentIds : CodeExpires(d) \/ ConsentLapses(d)
    <3>1. consent[c].status = "REVOKED"
      BY <1>0, <2>3 DEF CodeExpires, ConsentLapses, Rows
    <3> QED
      BY <1>a, <2>1, <3>1
  <2> QED
    BY <1>6, <2>2, <2>3
<1>7. CASE \/ \E k \in 1..MaxPairs, which \in {"access", "refresh"} : RevokeToken(k, which)
           \/ UNCHANGED consentVars
  BY <1>7, <1>a DEF RevokeToken, consentVars
<1> QED
  BY <1>1, <1>2, <1>3, <1>4, <1>5, <1>6, <1>7, NextCases

-----------------------------------------------------------------------------
(* What a step does to codes and tokens: a row keeps its code, loses it or *)
(* gets a new one; a pair stays, and its refresh token at most goes.       *)
GrantMoves ==
  /\ codes' >= codes
  /\ \A c \in ConsentIds :
       consent'[c].code \in {consent[c].code, 0} \/ consent'[c].code > codes
  /\ \A k \in 1..MaxPairs : pair[k].consent # "none" =>
       /\ pair'[k].consent # "none" /\ pair'[k].parent = pair[k].parent
       /\ pair'[k].refresh => pair[k].refresh

(* What is spent stays spent.                                              *)
LEMMA SpentStays ==
  ASSUME ConsentTypeOK, ConsentTypeOK', GrantMoves, NEW p, Spent(p)
  PROVE  Spent(p)'
<1>1. CASE p[1] = "code" /\ p[2] \in 1..codes /\ \A c \in ConsentIds : consent[c].code # p[2]
  <2>1. codes \in Nat /\ codes' \in Nat /\ p[2] \in 1..codes'
    BY <1>1, ConsentConstants DEF GrantMoves, ConsentTypeOK
  <2>2. \A c \in ConsentIds : consent'[c].code # p[2]
    BY <1>1, <2>1 DEF GrantMoves
  <2> QED
    BY <1>1, <2>1, <2>2 DEF Spent
<1>2. CASE p[1] = "refresh" /\ p[2] \in 1..MaxPairs /\ pair[p[2]].consent # "none"
           /\ ~pair[p[2]].refresh
  BY <1>2 DEF Spent, GrantMoves
<1> QED
  BY <1>1, <1>2 DEF Spent

(* A request that does not move keeps what it has at hand.                 *)
LEMMA FromStays ==
  ASSUME ConsentTypeOK, ConsentTypeOK', GrantMoves, NEW r \in Requests, FromFits(r),
         request'[r] = request[r]
  PROVE  FromFits(r)'
<1>1. ASSUME request[r].op = "exchange"
      PROVE  /\ request[r].from[1] = "code" /\ request[r].from[2] \in 1..codes'
             /\ \A c \in ConsentIds : consent'[c].code = request[r].from[2] => c = request[r].on
  <2>1. codes \in Nat /\ codes' \in Nat /\ request[r].from[2] \in 1..codes
    BY <1>1, ConsentConstants DEF FromFits, ConsentTypeOK
  <2> QED
    BY <1>1, <2>1 DEF FromFits, GrantMoves
<1>2. request[r].op \in {"refresh", "rotate"} =>
        /\ request[r].from[1] = "refresh" /\ request[r].from[2] \in 1..MaxPairs
        /\ pair'[request[r].from[2]].consent # "none"
  BY DEF FromFits, GrantMoves
<1>3. request[r].op = "issue" => Spent(request[r].from)'
  BY SpentStays DEF FromFits
<1> QED
  BY <1>1, <1>2, <1>3 DEF FromFits

(* Every step moves that way, and new codes and pairs are new.             *)
LEMMA StepMoves ==
  ASSUME ConsentTypeOK, Named, CodesApart, NEW n \in 0..MaxPairs, Filled(n),
         [ConsentNext]_consentVars
  PROVE  GrantMoves /\ CodesApart' /\ \E m \in 0..MaxPairs : Filled(m)'
<1>0. /\ consent \in [ConsentIds -> Rows] /\ codes \in 0..MaxPairs /\ codes \in Nat
      /\ pair \in [1..MaxPairs -> TokenPairs] /\ MaxPairs \in Nat
      /\ request \in [Requests -> InFlight]
  BY TypeParts, ConsentConstants
<1> DEFINE CodesMove ==
             /\ codes' >= codes
             /\ \A c \in ConsentIds :
                  consent'[c].code \in {consent[c].code, 0} \/ consent'[c].code > codes
           PairsMove ==
             \A k \in 1..MaxPairs : pair[k].consent # "none" =>
               /\ pair'[k].consent # "none" /\ pair'[k].parent = pair[k].parent
               /\ pair'[k].refresh => pair[k].refresh
           StillFilled == \E m \in 0..MaxPairs : Filled(m)'
           Kept == CodesMove /\ PairsMove /\ CodesApart' /\ StillFilled
<1>a. UNCHANGED pair => PairsMove /\ StillFilled
  BY <1>0 DEF Filled
<1>b. UNCHANGED codes /\ (\A c \in ConsentIds : consent'[c].code \in {consent[c].code, 0})
        => CodesMove /\ CodesApart'
  BY <1>0 DEF CodesApart
<1>1. ASSUME NEW r \in Requests, Reads(r) \/ Checks(r) PROVE Kept
  <2>1. UNCHANGED <<consent, codes, pair>>
    BY <1>1, ReadsGo, ChecksGo
  <2> QED
    BY <2>1, <1>a, <1>b
<1>2. ASSUME NEW c \in ConsentIds, NEW b \in BOOLEAN, CreateConsent(c, b) PROVE Kept
  <2>1. [NoConsent EXCEPT !.status = "AWAITING", !.client = b].code = 0
    BY DEF NoConsent
  <2>2. UNCHANGED <<codes, pair>> /\ \A d \in ConsentIds : consent'[d].code \in {consent[d].code, 0}
    BY <1>0, <1>2, <2>1 DEF CreateConsent
  <2> QED
    BY <2>2, <1>a, <1>b
<1>3. ASSUME NEW c \in ConsentIds, CodeExpires(c) \/ ConsentLapses(c) PROVE Kept
  <2>1. UNCHANGED <<codes, pair>> /\ \A d \in ConsentIds : consent'[d].code \in {consent[d].code, 0}
    BY <1>0, <1>3 DEF CodeExpires, ConsentLapses, Rows
  <2> QED
    BY <2>1, <1>a, <1>b
<1>4. ASSUME NEW r \in Requests, WriteRevoked(r) \/ WriteExpired(r) \/ ClearCode(r) PROVE Kept
  <2>1. UNCHANGED <<codes, pair>> /\ \A d \in ConsentIds : consent'[d].code \in {consent[d].code, 0}
    BY <1>0, <1>4 DEF WriteRevoked, WriteExpired, ClearCode, Rows
  <2> QED
    BY <2>1, <1>a, <1>b
<1>5. ASSUME NEW r \in Requests, WriteAuthorised(r) PROVE Kept
  <2>1. /\ codes' = codes + 1 /\ UNCHANGED pair
        /\ \A d \in ConsentIds :
             consent'[d].code = IF d = request[r].on THEN codes + 1 ELSE consent[d].code
    BY <1>0, <1>5 DEF WriteAuthorised, Rows
  <2>2. \A d \in ConsentIds : consent[d].code \in Nat
    BY <1>0 DEF Rows
  <2>3. CodesMove /\ CodesApart'
    BY <1>0, <2>1, <2>2 DEF CodesApart
  <2> QED
    BY <2>1, <2>3, <1>a
<1>6. ASSUME NEW r \in Requests, DeleteRefreshToken(r) PROVE Kept
  <2>1. /\ UNCHANGED <<consent, codes>>
        /\ \A k \in 1..MaxPairs : /\ pair'[k].consent = pair[k].consent
                                  /\ pair'[k].parent = pair[k].parent
                                  /\ pair'[k].refresh => pair[k].refresh
    BY <1>0, <1>6 DEF DeleteRefreshToken, TokenPairs
  <2>2. PairsMove /\ StillFilled
    BY <2>1 DEF Filled
  <2> QED
    BY <2>1, <2>2, <1>b
<1>7. ASSUME NEW k \in 1..MaxPairs, NEW which \in {"access", "refresh"}, RevokeToken(k, which)
      PROVE  Kept
  <2>1. /\ UNCHANGED <<consent, codes>>
        /\ \A j \in 1..MaxPairs : /\ pair'[j].consent = pair[j].consent
                                  /\ pair'[j].parent = pair[j].parent
                                  /\ pair'[j].refresh => pair[j].refresh
    BY <1>0, <1>7 DEF RevokeToken, TokenPairs
  <2>2. PairsMove /\ StillFilled
    BY <2>1 DEF Filled
  <2> QED
    BY <2>1, <2>2, <1>b
<1>8. ASSUME NEW r \in Requests, IssueTokenPair(r) PROVE Kept
  <2>1. Issued = n
    BY IssuedCounts
  <2>2. n + 1 \in 1..MaxPairs
    BY <1>0, <1>8, <2>1 DEF IssueTokenPair
  <2>3. request[r].on # "none"
    BY <1>8, ConsentConstants DEF Named, IssueTokenPair
  <2>4. /\ UNCHANGED <<consent, codes>>
        /\ pair'[n + 1].consent = request[r].on
        /\ \A k \in 1..MaxPairs : k # n + 1 => pair'[k] = pair[k]
    BY <1>0, <1>8, <2>1, <2>2 DEF IssueTokenPair
  <2>5. PairsMove
    BY <2>4 DEF Filled
  <2>6. Filled(n + 1)'
    BY <2>2, <2>3, <2>4 DEF Filled
  <2> QED
    BY <1>0, <2>2, <2>4, <2>5, <2>6, <1>b
<1>9. CASE UNCHANGED consentVars
  <2>1. UNCHANGED <<consent, codes, pair>>
    BY <1>9 DEF consentVars
  <2>2. Kept
    BY <2>1, <1>a, <1>b
  <2> QED
    BY <2>2 DEF GrantMoves
<1>10. Kept => GrantMoves /\ CodesApart' /\ \E m \in 0..MaxPairs : Filled(m)'
  BY DEF GrantMoves
<1> HIDE DEF Kept
<1> QED
  BY <1>1, <1>2, <1>3, <1>4, <1>5, <1>6, <1>7, <1>8, <1>9, <1>10, NextCases

(* Whatever a pair came from, or is about to come from, is spent.          *)
LEMMA ParentsKept ==
  ASSUME ConsentTypeOK, ConsentTypeOK', Named, CodesApart, ParentsSpent, GrantMoves,
         NEW n \in 0..MaxPairs, Filled(n), [ConsentNext]_consentVars
  PROVE  ParentsSpent'
<1>0. /\ consent \in [ConsentIds -> Rows] /\ codes \in Nat /\ MaxPairs \in Nat
      /\ pair \in [1..MaxPairs -> TokenPairs] /\ request \in [Requests -> InFlight]
  BY TypeParts, ConsentConstants
<1> DEFINE CallsFit == \A q \in Requests : FromFits(q)'
           PairsFit == \A k \in 1..MaxPairs : pair'[k].parent[1] # "none" => Spent(pair[k].parent)'
<1>s. ASSUME NEW k \in 1..MaxPairs, pair'[k].parent[1] # "none",
             pair'[k].parent = pair[k].parent
      PROVE  Spent(pair[k].parent)'
  BY <1>s, SpentStays DEF ParentsSpent
<1>u. (\A k \in 1..MaxPairs : pair'[k].parent = pair[k].parent) => PairsFit
  BY <1>s
<1>q. ASSUME NEW r \in Requests, FromFits(r)',
             \A q \in Requests : q # r => request'[q] = request[q]
      PROVE  CallsFit
  BY <1>q, FromStays DEF ParentsSpent
<1>g. ASSUME NEW r \in Requests, NEW op, NEW c, NEW from,
             Goes(r, op, c, from), op \notin {"exchange", "refresh", "rotate", "issue"}
      PROVE  CallsFit
  <2>1. request'[r].op = op /\ \A q \in Requests : q # r => request'[q] = request[q]
    BY <1>0, <1>g DEF Goes
  <2>2. FromFits(r)'
    BY <1>g, <2>1 DEF FromFits
  <2> QED
    BY <2>1, <2>2, <1>q
<1>e. ASSUME NEW r \in Requests, Ends(r) PROVE CallsFit
  <2>1. request'[r].op = "done" /\ \A q \in Requests : q # r => request'[q] = request[q]
    BY <1>0, <1>e DEF Ends, Done
  <2>2. FromFits(r)'
    BY <2>1 DEF FromFits
  <2> QED
    BY <2>1, <2>2, <1>q
<1>v. UNCHANGED request => CallsFit
  BY FromStays DEF ParentsSpent
<1>1. ASSUME NEW r \in Requests, Reads(r) PROVE CallsFit /\ PairsFit
  <2>1. UNCHANGED <<consent, codes, pair>>
    BY <1>1, ReadsGo
  <2>2. ASSUME NEW c \in ConsentIds, FindCode(r, c) PROVE CallsFit
    <3>1. /\ request'[r] = [op |-> "exchange", on |-> c, from |-> <<"code", consent[c].code>>]
          /\ consent[c].code # 0
          /\ \A q \in Requests : q # r => request'[q] = request[q]
      BY <1>0, <2>2 DEF FindCode, Goes
    <3>2. consent[c].code \in 1..codes
      BY <1>0, <3>1 DEF CodesApart, Rows
    <3>3. FromFits(r)'
      BY <2>1, <3>1, <3>2 DEF FromFits, CodesApart
    <3> QED
      BY <3>1, <3>3, <1>q
  <2>3. ASSUME NEW k \in 1..MaxPairs, FindRefreshToken(r, k) PROVE CallsFit
    <3>1. /\ request'[r] = [op |-> "refresh", on |-> pair[k].consent, from |-> <<"refresh", k>>]
          /\ pair[k].refresh
          /\ \A q \in Requests : q # r => request'[q] = request[q]
      BY <1>0, <2>3 DEF FindRefreshToken, Goes
    <3>2. pair[k].consent # "none"
      BY <3>1, ConsentConstants DEF Named
    <3>3. FromFits(r)'
      BY <2>1, <3>1, <3>2 DEF FromFits
    <3> QED
      BY <3>1, <3>3, <1>q
  <2>4. ASSUME NEW c \in ConsentIds, ReadToAuthorise(r, c) \/ ReadToRevoke(r, c) \/ ReadLapsed(r, c)
        PROVE  CallsFit
    BY <2>4, <1>g DEF ReadToAuthorise, ReadToRevoke, ReadLapsed
  <2>5. ASSUME NEW k \in 1..MaxPairs, Introspect(r, k) PROVE CallsFit
    BY <2>5, <1>g DEF Introspect
  <2>6. PairsFit
    BY <2>1, <1>u
  <2> HIDE DEF CallsFit
  <2> QED
    BY <1>1, <2>2, <2>3, <2>4, <2>5, <2>6 DEF Reads
<1>2. ASSUME NEW r \in Requests, Checks(r) PROVE CallsFit /\ PairsFit
  <2>1. UNCHANGED pair
    BY <1>2, ChecksGo
  <2>2. CASE Goes(r, "rotate", request[r].on, request[r].from) /\ request[r].op = "refresh"
    <3>1. /\ request'[r] = [op |-> "rotate", on |-> request[r].on, from |-> request[r].from]
          /\ \A q \in Requests : q # r => request'[q] = request[q]
      BY <1>0, <2>2 DEF Goes
    <3>2. FromFits(r)'
      BY <2>1, <2>2, <3>1 DEF ParentsSpent, FromFits
    <3>3. CallsFit
      BY <3>1, <3>2, <1>q
    <3> QED
      BY <2>1, <3>3, <1>u
  <2>3. Goes(r, "serving", request[r].on, request[r].from) => CallsFit
    BY <1>g
  <2>4. \/ Goes(r, "rotate", request[r].on, request[r].from) /\ request[r].op = "refresh"
        \/ Goes(r, "serving", request[r].on, request[r].from) \/ Ends(r)
    BY <1>2 DEF Checks, CheckRefresh, IssueFails, Resolve, Serve
  <2> HIDE DEF CallsFit
  <2> QED
    BY <2>1, <2>2, <2>3, <2>4, <1>e, <1>u
<1>3. ASSUME NEW r \in Requests, WriteAuthorised(r) \/ WriteRevoked(r) \/ WriteExpired(r)
      PROVE  CallsFit /\ PairsFit
  BY <1>3, <1>e, <1>u DEF WriteAuthorised, WriteRevoked, WriteExpired
<1>4. ASSUME NEW r \in Requests, ClearCode(r) PROVE CallsFit /\ PairsFit
  <2>1. /\ request'[r] = [op |-> "issue", on |-> request[r].on, from |-> request[r].from]
        /\ \A q \in Requests : q # r => request'[q] = request[q]
        /\ request[r].op = "exchange" /\ UNCHANGED <<codes, pair>>
    BY <1>0, <1>4 DEF ClearCode, Goes
  <2>2. \A c \in ConsentIds :
          consent'[c].code = IF c = request[r].on THEN 0 ELSE consent[c].code
    BY <1>0, <1>4 DEF ClearCode, Rows
  <2>3. /\ request[r].from[1] = "code" /\ request[r].from[2] \in 1..codes
        /\ \A c \in ConsentIds : consent[c].code = request[r].from[2] => c = request[r].on
    BY <2>1 DEF ParentsSpent, FromFits
  <2>4. \A c \in ConsentIds : consent'[c].code # request[r].from[2]
    BY <1>0, <2>2, <2>3
  <2>5. FromFits(r)'
    BY <2>1, <2>3, <2>4 DEF FromFits, Spent
  <2>6. CallsFit
    BY <2>1, <2>5, <1>q
  <2> QED
    BY <2>1, <2>6, <1>u
<1>5. ASSUME NEW r \in Requests, DeleteRefreshToken(r) PROVE CallsFit /\ PairsFit
  <2>1. /\ request'[r] = [op |-> "issue", on |-> request[r].on, from |-> request[r].from]
        /\ \A q \in Requests : q # r => request'[q] = request[q]
        /\ request[r].op = "rotate"
    BY <1>0, <1>5 DEF DeleteRefreshToken, Goes
  <2>2. /\ request[r].from[1] = "refresh" /\ request[r].from[2] \in 1..MaxPairs
        /\ pair[request[r].from[2]].consent # "none"
    BY <2>1 DEF ParentsSpent, FromFits
  <2>3. /\ pair'[request[r].from[2]].consent # "none" /\ ~pair'[request[r].from[2]].refresh
        /\ \A k \in 1..MaxPairs : pair'[k].parent = pair[k].parent
    BY <1>0, <1>5, <2>2 DEF DeleteRefreshToken, TokenPairs
  <2>4. FromFits(r)'
    BY <2>1, <2>2, <2>3 DEF FromFits, Spent
  <2>5. CallsFit
    BY <2>1, <2>4, <1>q
  <2> QED
    BY <2>3, <2>5, <1>u
<1>6. ASSUME NEW r \in Requests, IssueTokenPair(r) PROVE CallsFit /\ PairsFit
  <2>1. CallsFit
    BY <1>6, <1>e DEF IssueTokenPair
  <2>2. Spent(request[r].from)
    BY <1>6 DEF ParentsSpent, FromFits, IssueTokenPair
  <2>3. \A k \in 1..MaxPairs : pair'[k].parent \in {pair[k].parent, request[r].from}
    BY <1>0, <1>6 DEF IssueTokenPair
  <2>4. ASSUME NEW k \in 1..MaxPairs, pair'[k].parent = request[r].from
        PROVE  Spent(pair[k].parent)'
    <3>1. \A p : p = request[r].from => (Spent(p) => Spent(p)')
      BY SpentStays
    <3> QED
      BY <2>2, <2>4, <3>1
  <2> QED
    BY <2>1, <2>3, <2>4, <1>s
<1>7. ASSUME NEW k \in 1..MaxPairs, NEW which \in {"access", "refresh"}, RevokeToken(k, which)
      PROVE  CallsFit /\ PairsFit
  <2>1. \A j \in 1..MaxPairs : pair'[j].parent = pair[j].parent
    BY <1>0, <1>7 DEF RevokeToken, TokenPairs
  <2> QED
    BY <1>7, <2>1, <1>u, <1>v DEF RevokeToken
<1>8. CASE \/ \E c \in ConsentIds, b \in BOOLEAN : CreateConsent(c, b)
           \/ \E c \in ConsentIds : CodeExpires(c) \/ ConsentLapses(c)
           \/ UNCHANGED consentVars
  <2>1. UNCHANGED <<pair, request>>
    BY <1>8 DEF CreateConsent, CodeExpires, ConsentLapses, consentVars
  <2>2. CallsFit /\ PairsFit
    BY <2>1, <1>u, <1>v
  <2> QED
    BY <2>2 DEF ParentsSpent
<1>9. CallsFit /\ PairsFit => ParentsSpent'
  BY DEF ParentsSpent
<1> HIDE DEF CallsFit, PairsFit
<1> QED
  BY <1>1, <1>2, <1>3, <1>4, <1>5, <1>6, <1>7, <1>8, <1>9, NextCases

-----------------------------------------------------------------------------
(* The invariant holds at the start.                                       *)
LEMMA GrantInit == ConsentInit => GrantInv
<1> SUFFICES ASSUME ConsentInit PROVE GrantInv
  OBVIOUS
<1>0. MaxPairs \in Nat /\ 0 \in 0..MaxPairs /\ <<"none", 0>> \in Parents
  BY ConsentConstants DEF Parents
<1>1. NoConsent \in Rows /\ NoPair \in TokenPairs /\ Done \in InFlight
  BY <1>0 DEF NoConsent, NoPair, Done, Rows, TokenPairs, InFlight, Ops
<1>2. ConsentTypeOK
  BY <1>0, <1>1, TypeParts DEF ConsentInit
<1>3. /\ \A c \in ConsentIds : consent[c].status = "none" /\ consent[c].code = 0
      /\ \A r \in Requests : request[r].op = "done"
      /\ \A k \in 1..MaxPairs : /\ ~pair[k].access /\ ~pair[k].refresh
                                /\ pair[k].consent = "none" /\ pair[k].parent[1] = "none"
      /\ codes = 0
  BY DEF ConsentInit, NoConsent, NoPair, Done
<1>4. Named /\ CodesApart /\ ParentsSpent /\ RevokersKnown
  BY <1>3 DEF Named, CodesApart, ParentsSpent, FromFits, RevokersKnown
<1>5. Filled(0)
  BY <1>3 DEF Filled
<1> QED
  BY <1>0, <1>2, <1>4, <1>5 DEF GrantInv

(* Every step keeps the invariant and moves codes and tokens one way.      *)
LEMMA GrantStep == GrantInv /\ [ConsentNext]_consentVars => GrantInv' /\ GrantMoves
<1> SUFFICES ASSUME GrantInv, [ConsentNext]_consentVars PROVE GrantInv' /\ GrantMoves
  OBVIOUS
<1>1. ConsentTypeOK' /\ Named' /\ RevokersKnown'
  BY TypesKept, NamedKept, RevokersKept DEF GrantInv
<1>2. PICK n \in 0..MaxPairs : Filled(n)
  BY DEF GrantInv
<1>3. GrantMoves /\ CodesApart' /\ \E m \in 0..MaxPairs : Filled(m)'
  BY <1>2, StepMoves DEF GrantInv
<1>4. ParentsSpent'
  BY <1>1, <1>2, <1>3, ParentsKept DEF GrantInv
<1> QED
  BY <1>1, <1>3, <1>4 DEF GrantInv

(* A step that undoes a revocation ends a request that was in flight.      *)
LEMMA StepRevokes ==
  ASSUME GrantInv, [ConsentNext]_consentVars, NEW c \in ConsentIds,
         consent[c].status = "REVOKED", consent'[c].status # "REVOKED"
  PROVE  \E r \in revokedBy[c] : request[r].on = c /\ request'[r].op = "done"
<1>0. /\ consent \in [ConsentIds -> Rows] /\ request \in [Requests -> InFlight]
  BY TypeParts DEF GrantInv
<1>1. ASSUME NEW r \in Requests, WriteAuthorised(r) \/ WriteExpired(r)
      PROVE  \E q \in revokedBy[c] : request[q].on = c /\ request'[q].op = "done"
  <2>1. request[r].on = c /\ request[r].op \in {"authorise", "expire"}
    BY <1>0, <1>1 DEF WriteAuthorised, WriteExpired
  <2>2. r \in revokedBy[c]
    BY <2>1 DEF GrantInv, RevokersKnown
  <2>3. request'[r].op = "done"
    BY <1>0, <1>1 DEF WriteAuthorised, WriteExpired, Ends, Done
  <2> QED
    BY <2>1, <2>2, <2>3
<1>2. ASSUME NEW r \in Requests, WriteRevoked(r) \/ ClearCode(r) PROVE FALSE
  BY <1>0, <1>2 DEF WriteRevoked, ClearCode, Rows
<1>3. ASSUME NEW r \in Requests, Reads(r) \/ Checks(r) PROVE FALSE
  BY <1>3, ReadsGo, ChecksGo DEF GrantInv
<1>4. ASSUME NEW r \in Requests, DeleteRefreshToken(r) \/ IssueTokenPair(r) PROVE FALSE
  BY <1>4 DEF DeleteRefreshToken, IssueTokenPair
<1>5. ASSUME NEW d \in ConsentIds,
             (\E b \in BOOLEAN : CreateConsent(d, b)) \/ CodeExpires(d) \/ ConsentLapses(d)
      PROVE  FALSE
  <2>1. consent'[c].status = consent[c].status \/ (c = d /\ consent[d].status = "none")
    BY <1>0, <1>5 DEF CreateConsent, CodeExpires, ConsentLapses, Rows
  <2> QED
    BY <2>1, <1>5 DEF CodeExpires, ConsentLapses
<1>6. CASE \/ \E k \in 1..MaxPairs, which \in {"access", "refresh"} : RevokeToken(k, which)
           \/ UNCHANGED consentVars
  BY <1>6 DEF RevokeToken, consentVars
<1> QED
  BY <1>1, <1>2, <1>3, <1>4, <1>5, <1>6, NextCases

(* Nobody finds a code or a refresh token that a pair has come from.       *)
LEMMA StepFindsUnspent ==
  ASSUME GrantInv, [ConsentNext]_consentVars, NEW r \in Requests,
         request[r].op = "done", request'[r].op \in {"exchange", "refresh"},
         NEW k \in 1..MaxPairs
  PROVE  pair[k].parent # request'[r].from
<1>0. /\ request \in [Requests -> InFlight] /\ consent \in [ConsentIds -> Rows]
  BY TypeParts DEF GrantInv
<1>s. pair[k].parent[1] # "none" => Spent(pair[k].parent)
  BY DEF GrantInv, ParentsSpent
<1>1. ASSUME NEW q \in Requests, Reads(q) PROVE pair[k].parent # request'[r].from
  <2>1. q = r
    BY <1>0, <1>1, ReadsGo DEF Goes, GrantInv
  <2>2. \/ \E c \in ConsentIds : FindCode(r, c)
        \/ \E j \in 1..MaxPairs : FindRefreshToken(r, j)
    BY <1>0, <1>1, <2>1 DEF Reads, ReadToAuthorise, ReadToRevoke, ReadLapsed, Introspect, Goes
  <2>3. ASSUME NEW c \in ConsentIds, FindCode(r, c) PROVE pair[k].parent # request'[r].from
    <3>1. request'[r].from = <<"code", consent[c].code>>
      BY <1>0, <2>3 DEF FindCode, Goes
    <3> QED
      BY <3>1, <1>s DEF Spent
  <2>4. ASSUME NEW j \in 1..MaxPairs, FindRefreshToken(r, j)
        PROVE  pair[k].parent # request'[r].from
    <3>1. request'[r].from = <<"refresh", j>> /\ pair[j].refresh
      BY <1>0, <2>4 DEF FindRefreshToken, Goes
    <3> QED
      BY <3>1, <1>s DEF Spent
  <2> QED
    BY <2>2, <2>3, <2>4
<1>2. ASSUME NEW q \in Requests,
             Checks(q) \/ WriteAuthorised(q) \/ WriteRevoked(q) \/ WriteExpired(q)
               \/ ClearCode(q) \/ DeleteRefreshToken(q) \/ IssueTokenPair(q)
      PROVE  FALSE
  <2>1. request[q].op # "done"
    BY <1>2, ChecksGo DEF GrantInv, WriteAuthorised, WriteRevoked, WriteExpired, ClearCode,
                          DeleteRefreshToken, IssueTokenPair
  <2>2. request'[r] = request[r] \/ q = r
    BY <1>0, <1>2 DEF Checks, CheckRefresh, IssueFails, Resolve, Serve, WriteAuthorised,
         WriteRevoked, WriteExpired, ClearCode, DeleteRefreshToken, IssueTokenPair, Goes, Ends
  <2> QED
    BY <2>1, <2>2
<1>3. CASE \/ \E c \in ConsentIds, b \in BOOLEAN : CreateConsent(c, b)
           \/ \E c \in ConsentIds : CodeExpires(c) \/ ConsentLapses(c)
           \/ \E j \in 1..MaxPairs, which \in {"access", "refresh"} : RevokeToken(j, which)
           \/ UNCHANGED consentVars
  <2>1. UNCHANGED request
    BY <1>3 DEF CreateConsent, CodeExpires, ConsentLapses, RevokeToken, consentVars
  <2> QED
    BY <2>1
<1> QED
  BY <1>1, <1>2, <1>3, NextCases

(* The consents, codes, tokens and requests stay typed.                    *)
THEOREM ConsentsTyped == ConsentSpec => []ConsentTypeOK
<1>1. GrantInv => ConsentTypeOK
  BY DEF GrantInv
<1> QED
  BY <1>1, GrantInit, GrantStep, PTL DEF ConsentSpec

(* What a step never does to a consent, a code or a refresh token.         *)
LEMMA GrantStepSound ==
  GrantInv /\ [ConsentNext]_consentVars
    => /\ \A c \in ConsentIds :
            consent[c].status = "REVOKED" /\ consent'[c].status # "REVOKED"
              => \E r \in revokedBy[c] : request[r].on = c /\ request'[r].op = "done"
       /\ \A r \in Requests :
            request[r].op = "done" /\ request'[r].op \in {"exchange", "refresh"}
              => \A k \in 1..MaxPairs : pair[k].parent # request'[r].from
BY StepRevokes, StepFindsUnspent

(* However requests overlap, OAuth2Service and ConsentService undo a       *)
(* revocation only through a request that had read the consent before, and *)
(* no code or refresh token that has produced tokens is accepted again.    *)
THEOREM GrantsAreSound == ConsentSpec => GrantsSound
BY GrantInit, GrantStep, GrantStepSound, PTL
   DEF ConsentSpec, GrantsSound, RevocationStands, GrantSpentOnce

-----------------------------------------------------------------------------
(* The calls that go out and come in again.                                *)

(* What a sequence is, in the terms the proofs below use.                  *)
LEMMA SeqBasics ==
  ASSUME NEW S, NEW f \in Seq(S)
  PROVE  /\ Len(f) \in Nat /\ DOMAIN f = 1..Len(f)
         /\ \A i \in 1..Len(f) : f[i] \in S
<1>1. ASSUME NEW i \in 1..Len(f) PROVE f[i] \in S
  OBVIOUS
<1>2. Len(f) \in Nat /\ DOMAIN f = 1..Len(f)
  OBVIOUS
<1> QED
  BY <1>1, <1>2

-----------------------------------------------------------------------------
(* The messages about an event in a queue, and the one of them, if any,    *)
(* whose handler has returned and which is committed next.                 *)
Places(q, e) == {i \in DOMAIN q : q[i].event = e}
Here(q, e) == Cardinality(Places(q, e))
Leaving(t, h, e) == IF h = "returned" /\ Head(t).event = e THEN 1 ELSE 0

(* One delivery while the process lives, from the topic t and the unflushed *)
(* messages u of its subscription, its handler h and its outcome o; n is   *)
(* the number of times it was queued.                                       *)
OneLive(t, u, h, o, e, n) ==
  Here(t, e) + Here(u, e) - Leaving(t, h, e) =
    IF o.accepted = 0 /\ o.dead = 0 THEN n ELSE 0
PostsCounted(t, u, h, o, e) ==
  /\ \A i \in DOMAIN t : t[i].event = e /\ ~(i = 1 /\ h = "returned") =>
       o.posts = t[i].attempt - 1 + (IF i = 1 /\ h = "posting" THEN 1 ELSE 0)
  /\ \A i \in DOMAIN u : u[i].event = e => o.posts = u[i].attempt - 1
InHand(t, u, h, o, e, n) ==
  /\ o.accepted + o.dead <= 1 /\ o.posts <= MaxAttempts /\ (n = 0 => o.posts = 0 /\ o.accepted = 0 /\ o.dead = 0)
  /\ OneLive(t, u, h, o, e, n) /\ PostsCounted(t, u, h, o, e)

Queue == Seq(Messages)
Put(q, m) == Append(q, m)
Cut(q) == Tail(q)
Outcomes == [posts : Nat, failed : Nat, accepted : Nat, dead : Nat]
Handlings == {"no", "posting", "returned"}

(* What counting does as a message comes, goes, or waits.                  *)
LEMMA HereTyped ==
  ASSUME NEW q \in Queue, NEW e
  PROVE  /\ IsFiniteSet(Places(q, e)) /\ Here(q, e) \in Nat
         /\ Here(q, e) = 0 <=> \A i \in DOMAIN q : q[i].event # e
         /\ Here(q, e) <= 1 => \A i, j \in DOMAIN q : q[i].event = e /\ q[j].event = e => i = j
<1>1. Len(q) \in Nat /\ DOMAIN q = 1..Len(q)
  BY SeqBasics DEF Queue
<1>2. IsFiniteSet(1..Len(q)) /\ Places(q, e) \in SUBSET (1..Len(q))
  BY <1>1, FS_Interval DEF Places
<1>3. IsFiniteSet(Places(q, e)) /\ Here(q, e) \in Nat
  BY <1>2, FS_Subset, FS_CardinalityType DEF Here
<1>4. Here(q, e) = 0 <=> Places(q, e) = {}
  BY <1>3, FS_EmptySet DEF Here
<1>5. ASSUME Here(q, e) <= 1, NEW i \in DOMAIN q, NEW j \in DOMAIN q, q[i].event = e, q[j].event = e
      PROVE  i = j
  <2>1. i \in Places(q, e) /\ j \in Places(q, e)
    BY <1>5 DEF Places
  <2>2. Here(q, e) = 1
    BY <1>3, <1>4, <1>5, <2>1
  <2>3. PICK x : Places(q, e) = {x}
    BY <1>3, <2>2, FS_Singleton DEF Here
  <2> QED
    BY <2>1, <2>3
<1> QED
  BY <1>3, <1>4, <1>5 DEF Places

(* A message added at the end counts once, and changes no other place.     *)
LEMMA HereAppend ==
  ASSUME NEW q \in Queue, NEW m \in Messages, NEW e, NEW r, r = Put(q, m)
  PROVE  /\ r \in Queue /\ r # <<>> /\ (q # <<>> => Head(r) = Head(q)) /\ (q = <<>> => Head(r) = m)
         /\ DOMAIN r = 1..Len(q) + 1 /\ DOMAIN q = 1..Len(q) /\ Len(q) \in Nat
         /\ r[Len(q) + 1] = m /\ \A i \in DOMAIN q : r[i] = q[i]
         /\ Here(r, e) = Here(q, e) + (IF m.event = e THEN 1 ELSE 0)
<1>1. q \in Seq(Messages) /\ r = Append(q, m)
  BY DEF Queue, Put
<1>2. /\ r \in Seq(Messages) /\ DOMAIN r = 1..Len(q) + 1 /\ DOMAIN q = 1..Len(q) /\ Len(q) \in Nat
      /\ r[Len(q) + 1] = m /\ \A i \in 1..Len(q) : r[i] = q[i]
  BY <1>1
<1>3. r # <<>> /\ (q # <<>> => Head(r) = Head(q)) /\ (q = <<>> => Head(r) = m)
  BY <1>1
<1>4. IsFiniteSet(Places(q, e)) /\ Len(q) + 1 \notin Places(q, e)
  <2>1. \A i \in Places(q, e) : i \in 1..Len(q)
    BY <1>2 DEF Places
  <2>2. IsFiniteSet(Places(q, e))
    BY HereTyped
  <2> QED
    BY <1>2, <2>1, <2>2
<1>5. Places(r, e) = IF m.event = e THEN Places(q, e) \cup {Len(q) + 1} ELSE Places(q, e)
  BY <1>2 DEF Places
<1>6. Here(r, e) = Here(q, e) + (IF m.event = e THEN 1 ELSE 0)
  <2>1. Here(q, e) \in Nat
    BY HereTyped
  <2>2. Cardinality(Places(q, e) \cup {Len(q) + 1}) = Here(q, e) + 1
    BY <1>4, FS_AddElement DEF Here
  <2> QED
    BY <1>5, <2>1, <2>2 DEF Here
<1> QED
  BY <1>2, <1>3, <1>6 DEF Queue

(* Taking the first message away moves the others one place forward.       *)
LEMMA HereTail ==
  ASSUME NEW q \in Queue, q # <<>>, NEW e, NEW r, r = Cut(q)
  PROVE  /\ r \in Queue /\ 1 \in DOMAIN q /\ q[1] = Head(q) /\ Head(q) \in Messages
         /\ \A i \in DOMAIN r : i + 1 \in DOMAIN q /\ r[i] = q[i + 1] /\ i \in Nat \ {0}
         /\ Here(r, e) = Here(q, e) - (IF Head(q).event = e THEN 1 ELSE 0)
<1>1. q \in Seq(Messages) /\ r = Tail(q)
  BY DEF Queue, Cut
<1>2. Len(q) \in Nat \ {0} /\ DOMAIN q = 1..Len(q) /\ q[1] = Head(q) /\ Head(q) \in Messages
  BY <1>1
<1>3. r \in Seq(Messages) /\ DOMAIN r = 1..Len(q) - 1 /\ \A i \in 1..Len(q) - 1 : r[i] = q[i + 1]
  BY <1>1
<1>4. Here(r, e) = Here(q, e) - (IF Head(q).event = e THEN 1 ELSE 0)
  <2> DEFINE S == Places(r, e)
             T == Places(q, e) \ {1}
             f == [i \in S |-> i + 1]
  <2>1. IsFiniteSet(S) /\ IsFiniteSet(Places(q, e)) /\ Here(q, e) \in Nat
    BY <1>1, <1>3, HereTyped DEF Queue
  <2>2. ExistsBijection(S, T)
    <3>1. \A i \in S : i \in Int /\ f[i] \in T /\ f[i] = i + 1
      BY <1>2, <1>3 DEF Places
    <3>2. \A j \in T : j - 1 \in S /\ f[j - 1] = j
      BY <1>2, <1>3 DEF Places
    <3>3. \A i, j \in S : f[i] = f[j] => i = j
      BY <3>1
    <3>4. \A j \in T : \E i \in S : f[i] = j
      BY <3>2
    <3>5. f \in [S -> T]
      BY <3>1
    <3> HIDE DEF f, S, T
    <3>6. f \in Bijection(S, T)
      BY <3>3, <3>4, <3>5 DEF Bijection, Injection, Surjection, IsInjective
    <3> QED
      BY <3>6 DEF ExistsBijection
  <2>3. Cardinality(T) = Cardinality(S)
    BY <2>1, <2>2, FS_Bijection
  <2>4. Cardinality(T) = IF 1 \in Places(q, e) THEN Here(q, e) - 1 ELSE Here(q, e)
    BY <2>1, FS_RemoveElement DEF Here
  <2>5. 1 \in Places(q, e) <=> Head(q).event = e
    BY <1>2 DEF Places
  <2> QED
    BY <2>1, <2>3, <2>4, <2>5 DEF Here
<1> QED
  BY <1>2, <1>3, <1>4 DEF Queue

(* Time passing changes how long messages wait, not what they are.         *)
LEMMA HereSooner ==
  ASSUME NEW q \in Queue, NEW e
  PROVE  /\ Sooner(q) \in Queue /\ DOMAIN Sooner(q) = DOMAIN q /\ (Sooner(q) = <<>> <=> q = <<>>)
         /\ \A i \in DOMAIN q : Sooner(q)[i].event = q[i].event /\ Sooner(q)[i].attempt = q[i].attempt
         /\ Here(Sooner(q), e) = Here(q, e)
         /\ q # <<>> => Head(Sooner(q)).event = Head(q).event
<1>1. Len(q) \in Nat /\ DOMAIN q = 1..Len(q) /\ \A i \in 1..Len(q) : q[i] \in Messages
  BY SeqBasics DEF Queue
<1> DEFINE next(i) == [q[i] EXCEPT !.wait = IF @ > 0 THEN @ - 1 ELSE 0]
           r == [i \in 1..Len(q) |-> next(i)]
<1>2. Sooner(q) = r
  BY <1>1 DEF Sooner
<1>3. \A i \in 1..Len(q) : /\ next(i) \in Messages /\ next(i).event = q[i].event
                           /\ next(i).attempt = q[i].attempt
  BY <1>1 DEF Messages
<1> HIDE DEF next
<1>4. r \in [1..Len(q) -> Messages]
  BY <1>3
<1>5. r \in Seq(Messages) /\ DOMAIN r = 1..Len(q) /\ Len(r) = Len(q)
  BY <1>1, <1>4
<1>6. \A i \in DOMAIN q : r[i].event = q[i].event /\ r[i].attempt = q[i].attempt
  BY <1>1, <1>3
<1>7. Places(r, e) = Places(q, e)
  BY <1>1, <1>5, <1>6 DEF Places
<1> HIDE DEF r
<1>8. (r = <<>> <=> Len(r) = 0) /\ (q = <<>> <=> Len(q) = 0)
  BY <1>5 DEF Queue
<1>9. q # <<>> => /\ 1 \in DOMAIN q /\ Head(q) = q[1] /\ Head(r) = r[1]
  BY <1>1, <1>5, <1>8 DEF Queue
<1> QED
  BY <1>1, <1>2, <1>5, <1>6, <1>7, <1>8, <1>9 DEF Here, Queue

-----------------------------------------------------------------------------
(* A delivery in hand, and its messages.                                   *)
Underway(t, u, h, o, e, n) ==
  /\ t \in Queue /\ u \in Queue /\ h \in Handlings /\ o \in Outcomes /\ n \in {0, 1}
  /\ h # "no" => t # <<>>
  /\ InHand(t, u, h, o, e, n)

(* The message at the head, while it is live, is the only one, has made    *)
(* all posts so far and belongs to a delivery that was queued and has not  *)
(* ended.                                                                  *)
AtHead(t, u, h, o, e, n) ==
  Underway(t, u, h, o, e, n) /\ t # <<>> /\ t[1].event = e /\ h # "returned"
Alone(t, u, h, o, e, n) ==
  /\ Here(t, e) = 1 /\ Here(u, e) = 0 /\ Leaving(t, h, e) = 0
  /\ n = 1 /\ o.accepted = 0 /\ o.dead = 0
  /\ \A i \in DOMAIN t : t[i].event = e => i = 1
  /\ \A i \in DOMAIN u : u[i].event # e
  /\ t[1] \in Messages
  /\ o.posts = t[1].attempt - 1 + (IF h = "posting" THEN 1 ELSE 0)

(* A message at the head of its topic is the only one of its delivery.     *)
LEMMA HeadAlone ==
  ASSUME NEW t, NEW u, NEW h, NEW o, NEW e, NEW n \in Nat, AtHead(t, u, h, o, e, n)
  PROVE  Alone(t, u, h, o, e, n)
<1>0. Underway(t, u, h, o, e, n) /\ t # <<>> /\ t[1].event = e /\ h # "returned"
  BY DEF AtHead
<1>1. 1 \in DOMAIN t /\ t[1] = Head(t) /\ Head(t) \in Messages
  BY <1>0, HereTail DEF Underway
<1>2. Here(t, e) \in Nat /\ Here(u, e) \in Nat /\ Here(t, e) # 0
  BY <1>0, <1>1, HereTyped DEF Underway
<1>3. Leaving(t, h, e) = 0 /\ n \in {0, 1}
  BY <1>0 DEF Leaving, Underway
<1>4. Here(t, e) + Here(u, e) = (IF o.accepted = 0 /\ o.dead = 0 THEN n ELSE 0)
  BY <1>0, <1>2, <1>3 DEF Underway, InHand, OneLive
<1>5. Here(t, e) = 1 /\ Here(u, e) = 0 /\ n = 1 /\ o.accepted = 0 /\ o.dead = 0
  BY <1>2, <1>3, <1>4
<1>6. \A i \in DOMAIN t : t[i].event = e => i = 1
  BY <1>0, <1>1, <1>5, HereTyped DEF Underway
<1>7. \A i \in DOMAIN u : u[i].event # e
  BY <1>0, <1>5, HereTyped DEF Underway
<1>8. o.posts = t[1].attempt - 1 + (IF h = "posting" THEN 1 ELSE 0)
  BY <1>0, <1>1 DEF Underway, InHand, PostsCounted
<1> QED
  BY <1>1, <1>3, <1>5, <1>6, <1>7, <1>8 DEF Alone

(* A delivery is queued, of this event or of another.                      *)
LEMMA QueueingInHand ==
  ASSUME NEW t, NEW u, NEW h, NEW o, NEW e, NEW n \in Nat, Underway(t, u, h, o, e, n),
         NEW f \in Events, f = e => n = 0, NEW x \in Nat, x = (IF f = e THEN 1 ELSE n),
         NEW v, v = Put(u, Message(f, 1, 0))
  PROVE  Underway(t, v, h, o, e, x)
<1>1. Message(f, 1, 0) \in Messages /\ Message(f, 1, 0).event = f /\ Message(f, 1, 0).attempt = 1
  BY DeliveryConstants DEF Message, Messages
<1>2. /\ v \in Queue /\ DOMAIN v = 1..Len(u) + 1 /\ DOMAIN u = 1..Len(u)
      /\ v[Len(u) + 1] = Message(f, 1, 0) /\ \A i \in DOMAIN u : v[i] = u[i]
      /\ Here(v, e) = Here(u, e) + (IF f = e THEN 1 ELSE 0)
  <2>1. u \in Queue
    BY DEF Underway
  <2> QED
    BY <1>1, <2>1, HereAppend
<1>3. Here(t, e) \in Nat /\ Here(u, e) \in Nat /\ Leaving(t, h, e) \in {0, 1}
  BY HereTyped DEF Underway, Leaving
<1>4. OneLive(t, v, h, o, e, x)
  BY <1>2, <1>3 DEF Underway, InHand, OneLive
<1>5. PostsCounted(t, v, h, o, e)
  <2>1. f = e => o.posts = 0
    BY DEF Underway, InHand
  <2> QED
    BY <1>1, <1>2, <2>1 DEF Underway, InHand, PostsCounted
<1> QED
  BY <1>2, <1>4, <1>5 DEF Underway, InHand

(* Moving a message from the producer to the topic moves the one live      *)
(* message and counts no post.                                             *)
LEMMA FlushInHand ==
  ASSUME NEW t, NEW u, NEW h, NEW o, NEW e, NEW n \in Nat, Underway(t, u, h, o, e, n),
         u # <<>>, NEW m, m = Head(u), NEW q, q = Put(t, m), NEW v, v = Cut(u)
  PROVE  Underway(q, v, h, o, e, n)
<1>1. /\ v \in Queue /\ 1 \in DOMAIN u /\ u[1] = m /\ m \in Messages
      /\ \A i \in DOMAIN v : i + 1 \in DOMAIN u /\ v[i] = u[i + 1]
      /\ Here(v, e) = Here(u, e) - (IF m.event = e THEN 1 ELSE 0)
  <2>1. u \in Queue
    BY DEF Underway
  <2> QED
    BY <2>1, HereTail
<1>2. /\ q \in Queue /\ q # <<>> /\ (t # <<>> => Head(q) = Head(t))
      /\ DOMAIN q = 1..Len(t) + 1 /\ DOMAIN t = 1..Len(t) /\ Len(t) \in Nat
      /\ q[Len(t) + 1] = m /\ \A i \in DOMAIN t : q[i] = t[i]
      /\ Here(q, e) = Here(t, e) + (IF m.event = e THEN 1 ELSE 0)
  <2>1. t \in Queue
    BY DEF Underway
  <2>2. m \in Messages
    BY <1>1
  <2> QED
    BY <2>1, <2>2, HereAppend
<1>3. Here(t, e) \in Nat /\ Here(u, e) \in Nat
  BY HereTyped DEF Underway
<1>4. Leaving(q, h, e) = Leaving(t, h, e) /\ Leaving(t, h, e) \in {0, 1}
  BY <1>2 DEF Leaving, Underway, Handlings
<1>5. OneLive(q, v, h, o, e, n)
  BY <1>1, <1>2, <1>3, <1>4 DEF Underway, InHand, OneLive
<1>6. Len(t) + 1 = 1 => h = "no"
  <2>1. t \in Seq(Messages) /\ (Len(t) = 0 => t = <<>>)
    BY DEF Underway, Queue
  <2> QED
    BY <1>2, <2>1 DEF Underway
<1>7. PostsCounted(q, v, h, o, e)
  <2>1. ASSUME NEW i \in DOMAIN q, q[i].event = e, ~(i = 1 /\ h = "returned")
        PROVE  o.posts = q[i].attempt - 1 + (IF i = 1 /\ h = "posting" THEN 1 ELSE 0)
    <3>1. CASE i \in DOMAIN t
      BY <1>2, <2>1, <3>1 DEF Underway, InHand, PostsCounted
    <3>2. CASE i = Len(t) + 1
      <4>1. o.posts = m.attempt - 1 /\ m.attempt \in Int
        BY <1>1, <1>2, <2>1, <3>2 DEF Underway, InHand, PostsCounted, Messages
      <4> QED
        BY <1>2, <1>6, <3>2, <4>1
    <3> QED
      BY <1>2, <3>1, <3>2
  <2>2. \A i \in DOMAIN v : v[i].event = e => o.posts = v[i].attempt - 1
    BY <1>1 DEF Underway, InHand, PostsCounted
  <2> QED
    BY <2>1, <2>2 DEF PostsCounted
<1> QED
  BY <1>1, <1>2, <1>5, <1>7 DEF Underway, InHand

(* Committing takes away the message whose handling had returned, which no *)
(* longer counted.                                                         *)
LEMMA CommitInHand ==
  ASSUME NEW t, NEW u, NEW h, NEW o, NEW e, NEW n \in Nat, Underway(t, u, h, o, e, n),
         h = "returned", NEW q, q = Cut(t)
  PROVE  Underway(q, u, "no", o, e, n)
<1>1. /\ q \in Queue /\ 1 \in DOMAIN t /\ t[1] = Head(t) /\ Head(t) \in Messages
      /\ \A i \in DOMAIN q : i + 1 \in DOMAIN t /\ q[i] = t[i + 1] /\ i \in Nat \ {0}
      /\ Here(q, e) = Here(t, e) - (IF Head(t).event = e THEN 1 ELSE 0)
  <2>1. t \in Queue /\ t # <<>>
    BY DEF Underway
  <2> QED
    BY <2>1, HereTail
<1>2. Here(t, e) \in Nat /\ Here(u, e) \in Nat
  BY HereTyped DEF Underway
<1>3. OneLive(q, u, "no", o, e, n)
  BY <1>1, <1>2 DEF Underway, InHand, OneLive, Leaving
<1>4. PostsCounted(q, u, "no", o, e)
  <2>1. ASSUME NEW i \in DOMAIN q, q[i].event = e
        PROVE  o.posts = q[i].attempt - 1 + 0
    <3>1. i + 1 \in DOMAIN t /\ q[i] = t[i + 1] /\ i + 1 # 1
      BY <1>1
    <3> QED
      BY <2>1, <3>1 DEF Underway, InHand, PostsCounted
  <2> QED
    BY <2>1 DEF Underway, InHand, PostsCounted
<1> QED
  BY <1>1, <1>3, <1>4 DEF Underway, InHand, Handlings

(* A tick counts nothing.                                                  *)
LEMMA TickInHand ==
  ASSUME NEW t, NEW u, NEW h, NEW o, NEW e, NEW n \in Nat, Underway(t, u, h, o, e, n)
  PROVE  Underway(Sooner(t), Sooner(u), h, o, e, n)
<1>1. PICK q : q = Sooner(t)
  OBVIOUS
<1>2. PICK v : v = Sooner(u)
  OBVIOUS
<1>3. /\ q \in Queue /\ DOMAIN q = DOMAIN t /\ (q = <<>> <=> t = <<>>)
      /\ \A i \in DOMAIN t : q[i].event = t[i].event /\ q[i].attempt = t[i].attempt
      /\ Here(q, e) = Here(t, e) /\ (t # <<>> => Head(q).event = Head(t).event)
  BY <1>1, HereSooner DEF Underway
<1>4. /\ v \in Queue /\ DOMAIN v = DOMAIN u
      /\ \A i \in DOMAIN u : v[i].event = u[i].event /\ v[i].attempt = u[i].attempt
      /\ Here(v, e) = Here(u, e)
  BY <1>2, HereSooner DEF Underway
<1>5. Leaving(q, h, e) = Leaving(t, h, e)
  BY <1>3 DEF Leaving, Underway
<1>6. PostsCounted(q, v, h, o, e)
  BY <1>3, <1>4 DEF Underway, InHand, PostsCounted
<1>7. Underway(q, v, h, o, e, n)
  BY <1>3, <1>4, <1>5, <1>6 DEF Underway, InHand, OneLive
<1> QED
  BY <1>1, <1>2, <1>7

(* The handler of a message about another event does not matter here, nor  *)
(* does a message about one.                                               *)
LEMMA OthersInHand ==
  ASSUME NEW t, NEW u, NEW h, NEW o, NEW e, NEW n \in Nat, Underway(t, u, h, o, e, n),
         t # <<>>, t[1].event # e, NEW i \in Handlings
  PROVE  /\ Underway(t, u, i, o, e, n)
         /\ \A m \in Messages : m.event # e => Underway(t, Put(u, m), i, o, e, n)
<1>0. h # "returned" \/ Leaving(t, h, e) = 0
  BY DEF Leaving
<1>1. 1 \in DOMAIN t /\ t[1].event # e
  <2>1. t \in Queue
    BY DEF Underway
  <2> QED
    BY <2>1, HereTail
<1>2. Leaving(t, h, e) = 0 /\ Leaving(t, i, e) = 0
  BY DEF Leaving
<1>3. Underway(t, u, i, o, e, n)
  BY <1>1, <1>2 DEF Underway, InHand, OneLive, PostsCounted
<1>4. ASSUME NEW m \in Messages, m.event # e PROVE Underway(t, Put(u, m), i, o, e, n)
  <2>1. u \in Queue
    BY DEF Underway
  <2>2. PICK v : v = Put(u, m)
    OBVIOUS
  <2>3. /\ v \in Queue /\ DOMAIN v = 1..Len(u) + 1 /\ DOMAIN u = 1..Len(u) /\ Len(u) \in Nat
        /\ v[Len(u) + 1] = m /\ \A j \in DOMAIN u : v[j] = u[j]
        /\ Here(v, e) = Here(u, e) + 0
    BY <1>4, <2>1, <2>2, HereAppend
  <2>4. PostsCounted(t, v, i, o, e)
    BY <1>3, <1>4, <2>3 DEF Underway, InHand, PostsCounted
  <2>5. Here(v, e) = Here(u, e)
    BY <2>1, <2>3, HereTyped
  <2>6. Underway(t, v, i, o, e, n)
    BY <1>3, <2>3, <2>4, <2>5 DEF Underway, InHand, OneLive
  <2> QED
    BY <2>2, <2>6
<1> QED
  BY <1>3, <1>4

(* A post starts.                                                          *)
LEMMA PostInHand ==
  ASSUME NEW t, NEW u, NEW h, NEW o, NEW e, NEW n \in Nat, Underway(t, u, h, o, e, n),
         t # <<>>, t[1].event = e, h = "no",
         NEW p \in Outcomes, p.posts = o.posts + 1, p.accepted = o.accepted, p.dead = o.dead
  PROVE  Underway(t, u, "posting", p, e, n)
<1>1. /\ Here(t, e) = 1 /\ Here(u, e) = 0 /\ n = 1 /\ o.accepted = 0 /\ o.dead = 0
      /\ \A i \in DOMAIN t : t[i].event = e => i = 1
      /\ \A i \in DOMAIN u : u[i].event # e
      /\ t[1] \in Messages /\ o.posts = t[1].attempt - 1 + 0
  <2>1. AtHead(t, u, h, o, e, n)
    BY DEF AtHead
  <2>2. Alone(t, u, h, o, e, n)
    BY <2>1, HeadAlone
  <2> QED
    BY <2>2 DEF Alone
<1>2. t[1].attempt \in 1..MaxAttempts
  <2>1. t \in Queue
    BY DEF Underway
  <2> QED
    BY <1>1, <2>1, HereTail DEF Messages
<1>3. p.posts = t[1].attempt /\ p.posts <= MaxAttempts
  BY <1>1, <1>2, DeliveryConstants DEF Outcomes
<1>4. OneLive(t, u, "posting", p, e, n)
  BY <1>1 DEF OneLive, Leaving
<1>5. PostsCounted(t, u, "posting", p, e)
  BY <1>1, <1>2, <1>3 DEF PostsCounted
<1> QED
  BY <1>1, <1>3, <1>4, <1>5 DEF Underway, InHand, Handlings

(* The handler emits the message of the same delivery that is its next, or *)
(* the same one again, and returns.                                        *)
LEMMA EmittedInHand ==
  ASSUME NEW t, NEW u, NEW h, NEW o, NEW e, NEW n \in Nat, Underway(t, u, h, o, e, n),
         t # <<>>, t[1].event = e, h # "returned",
         NEW p \in Outcomes, p.posts = o.posts, p.accepted = o.accepted, p.dead = o.dead,
         NEW m \in Messages, m.event = e,
         m.attempt = t[1].attempt + (IF h = "posting" THEN 1 ELSE 0),
         NEW v, v = Put(u, m)
  PROVE  Underway(t, v, "returned", p, e, n)
<1>1. /\ Here(t, e) = 1 /\ Here(u, e) = 0 /\ n = 1 /\ o.accepted = 0 /\ o.dead = 0
      /\ \A i \in DOMAIN t : t[i].event = e => i = 1
      /\ \A i \in DOMAIN u : u[i].event # e
      /\ t[1] \in Messages
      /\ o.posts = t[1].attempt - 1 + (IF h = "posting" THEN 1 ELSE 0)
  <2>1. AtHead(t, u, h, o, e, n)
    BY DEF AtHead
  <2>2. Alone(t, u, h, o, e, n)
    BY <2>1, HeadAlone
  <2> QED
    BY <2>2 DEF Alone
<1>2. u \in Queue
  BY DEF Underway
<1>3. /\ v \in Queue /\ DOMAIN v = 1..Len(u) + 1 /\ DOMAIN u = 1..Len(u)
      /\ v[Len(u) + 1] = m /\ \A i \in DOMAIN u : v[i] = u[i]
      /\ Here(v, e) = Here(u, e) + 1
  BY <1>2, HereAppend
<1>4. p.posts = m.attempt - 1
  BY <1>1 DEF Messages
<1>5. OneLive(t, v, "returned", p, e, n)
  BY <1>1, <1>3 DEF OneLive, Leaving
<1>6. PostsCounted(t, v, "returned", p, e)
  BY <1>1, <1>3, <1>4 DEF PostsCounted
<1> QED
  BY <1>1, <1>3, <1>5, <1>6 DEF Underway, InHand, Handlings

(* The delivery ends and the handler returns.                              *)
LEMMA EndedInHand ==
  ASSUME NEW t, NEW u, NEW h, NEW o, NEW e, NEW n \in Nat, Underway(t, u, h, o, e, n),
         t # <<>>, t[1].event = e, h # "returned",
         NEW p \in Outcomes, p.posts = o.posts, p.accepted + p.dead = o.accepted + o.dead + 1
  PROVE  Underway(t, u, "returned", p, e, n)
<1>1. /\ Here(t, e) = 1 /\ Here(u, e) = 0 /\ n = 1 /\ o.accepted = 0 /\ o.dead = 0
      /\ \A i \in DOMAIN t : t[i].event = e => i = 1
      /\ \A i \in DOMAIN u : u[i].event # e
  <2>1. AtHead(t, u, h, o, e, n)
    BY DEF AtHead
  <2>2. Alone(t, u, h, o, e, n)
    BY <2>1, HeadAlone
  <2> QED
    BY <2>2 DEF Alone
<1>2. p.accepted + p.dead = 1 /\ ~(p.accepted = 0 /\ p.dead = 0)
  BY <1>1 DEF Outcomes
<1>3. OneLive(t, u, "returned", p, e, n)
  BY <1>1, <1>2 DEF OneLive, Leaving
<1>4. PostsCounted(t, u, "returned", p, e)
  BY <1>1 DEF PostsCounted
<1> QED
  BY <1>1, <1>2, <1>3, <1>4 DEF Underway, InHand, Handlings

-----------------------------------------------------------------------------
DeliveryTypes ==
  /\ sub \in [Subs -> [status : {"ACTIVE", "SUSPENDED", "gone"}, retryCount : Nat]]
  /\ topic \in [Subs -> Queue] /\ unflushed \in [Subs -> Queue]
  /\ handling \in [Subs -> Handlings] /\ outcome \in [Events \X Subs -> Outcomes]
  /\ queued \subseteq Events \X Subs /\ crashes \in 0..MaxCrashes

AtWork == \A s \in Subs : handling[s] # "no" => topic[s] # <<>>

(* A message stands for a delivery that was queued and has failed in all   *)
(* its earlier attempts.                                                   *)
Known(s, m) == <<m.event, s>> \in queued /\ outcome[<<m.event, s>>].failed >= m.attempt - 1
Said(s, q) == \A i \in DOMAIN q : Known(s, q[i])
AllSaid == \A s \in Subs : Said(s, topic[s]) /\ Said(s, unflushed[s])

DeadFailed == \A d \in Events \X Subs : outcome[d].dead > 0 => outcome[d].failed >= MaxAttempts

Times(e, s) == IF <<e, s>> \in queued THEN 1 ELSE 0
AllInHand ==
  crashes = 0 => \A s \in Subs : \A e \in Events :
    InHand(topic[s], unflushed[s], handling[s], outcome[<<e, s>>], e, Times(e, s))

DeliveryInv == DeliveryTypes /\ AtWork /\ AllSaid /\ DeadFailed /\ AllInHand

(* What is known of every message of a queue stays known as messages come, *)
(* go and wait.                                                            *)
LEMMA SaidMoves ==
  ASSUME NEW s, NEW q \in Queue, Said(s, q)
  PROVE  /\ \A m \in Messages : Known(s, m) => Said(s, Put(q, m))
         /\ q # <<>> => Said(s, Cut(q))
         /\ Said(s, Sooner(q))
<1>1. ASSUME NEW m \in Messages, Known(s, m) PROVE Said(s, Put(q, m))
  <2>1. PICK r : r = Put(q, m)
    OBVIOUS
  <2>2. /\ DOMAIN r = 1..Len(q) + 1 /\ DOMAIN q = 1..Len(q) /\ Len(q) \in Nat
        /\ r[Len(q) + 1] = m /\ \A i \in DOMAIN q : r[i] = q[i]
    BY <2>1, HereAppend
  <2>3. Said(s, r)
    BY <1>1, <2>2 DEF Said
  <2> QED
    BY <2>1, <2>3
<1>2. ASSUME q # <<>> PROVE Said(s, Cut(q))
  <2>1. PICK r : r = Cut(q)
    OBVIOUS
  <2>2. \A i \in DOMAIN r : i + 1 \in DOMAIN q /\ r[i] = q[i + 1]
    BY <1>2, <2>1, HereTail
  <2>3. Said(s, r)
    BY <2>2 DEF Said
  <2> QED
    BY <2>1, <2>3
<1>3. Said(s, Sooner(q))
  <2>1. PICK r : r = Sooner(q)
    OBVIOUS
  <2>2. DOMAIN r = DOMAIN q /\ \A i \in DOMAIN q : r[i].event = q[i].event /\ r[i].attempt = q[i].attempt
    BY <2>1, HereSooner
  <2>3. Said(s, r)
    BY <2>2 DEF Said, Known
  <2> QED
    BY <2>1, <2>3
<1> QED
  BY <1>1, <1>2, <1>3

(* What is known stays known, as deliveries are queued and posts fail.     *)
LEMMA KnownStays ==
  ASSUME DeliveryTypes, DeliveryTypes', queued \subseteq queued',
         \A d \in Events \X Subs : outcome'[d].failed >= outcome[d].failed,
         NEW s \in Subs
  PROVE  /\ \A m \in Messages : Known(s, m) => Known(s, m)'
         /\ \A q \in Queue : Said(s, q) => Said(s, q)'
<1>1. ASSUME NEW m \in Messages, Known(s, m) PROVE Known(s, m)'
  <2>2. PICK d \in Events \X Subs : d = <<m.event, s>>
    BY DEF Messages
  <2>3. d \in queued /\ outcome[d].failed >= m.attempt - 1
    BY <1>1, <2>2 DEF Known
  <2>4. outcome[d].failed \in Nat /\ outcome'[d].failed \in Nat /\ m.attempt \in Int
    BY DEF DeliveryTypes, Outcomes, Messages
  <2>5. d \in queued' /\ outcome'[d].failed >= m.attempt - 1
    BY <2>3, <2>4
  <2> QED
    BY <2>2, <2>5 DEF Known
<1>2. ASSUME NEW q \in Queue, Said(s, q), NEW i \in DOMAIN q PROVE Known(s, q[i])'
  <2>1. q[i] \in Messages /\ Known(s, q[i])
    BY <1>2, SeqBasics DEF Queue, Said
  <2> QED
    BY <1>1, <2>1
<1> QED
  BY <1>1, <1>2 DEF Said

(* Most steps change one subscription and the outcome of one delivery.     *)
LEMMA LocalStep ==
  ASSUME DeliveryInv, NEW s \in Subs, NEW f \in Events,
         NEW t \in Queue, NEW u \in Queue, NEW h \in Handlings, NEW o \in Outcomes,
         topic' = [topic EXCEPT ![s] = t], unflushed' = [unflushed EXCEPT ![s] = u],
         handling' = [handling EXCEPT ![s] = h], outcome' = [outcome EXCEPT ![<<f, s>>] = o],
         queued' = queued, crashes' = crashes,
         sub' \in [Subs -> [status : {"ACTIVE", "SUSPENDED", "gone"}, retryCount : Nat]],
         h # "no" => t # <<>>, o.failed >= outcome[<<f, s>>].failed,
         o.dead > 0 => o.failed >= MaxAttempts,
         Said(s, t), \A i \in DOMAIN u : Known(s, u[i]) \/ Known(s, u[i])',
         crashes = 0 => /\ InHand(t, u, h, o, f, Times(f, s))
                        /\ \A e \in Events : e # f => InHand(t, u, h, outcome[<<e, s>>], e, Times(e, s))
  PROVE  DeliveryInv'
<1>1. /\ topic'[s] = t /\ unflushed'[s] = u /\ handling'[s] = h /\ outcome'[<<f, s>>] = o
      /\ \A x \in Subs : x # s => /\ topic'[x] = topic[x] /\ unflushed'[x] = unflushed[x]
                                  /\ handling'[x] = handling[x]
      /\ \A e \in Events : \A x \in Subs : <<e, x>> # <<f, s>> => outcome'[<<e, x>>] = outcome[<<e, x>>]
  BY DEF DeliveryInv, DeliveryTypes
<1>2. DeliveryTypes'
  BY DEF DeliveryInv, DeliveryTypes
<1>3. AtWork'
  BY <1>1 DEF DeliveryInv, AtWork
<1>4. \A d \in Events \X Subs : outcome'[d].failed >= outcome[d].failed
  <2> SUFFICES ASSUME NEW e \in Events, NEW x \in Subs
               PROVE  outcome'[<<e, x>>].failed >= outcome[<<e, x>>].failed
    OBVIOUS
  <2>1. outcome[<<e, x>>].failed \in Nat
    BY DEF DeliveryInv, DeliveryTypes, Outcomes
  <2> QED
    BY <1>1, <2>1
<1>5. AllSaid'
  <2>0. ASSUME NEW x \in Subs, NEW q, q = topic'[x] \/ q = unflushed'[x] PROVE Said(x, q)'
    <3>1. CASE x = s
      <4>1. q = t \/ q = u
        BY <1>1, <2>0, <3>1
      <4>2. \A i \in DOMAIN u : u[i] \in Messages
        BY SeqBasics DEF Queue
      <4>3. DeliveryTypes /\ queued \subseteq queued'
        BY DEF DeliveryInv
      <4>4. Said(s, t)' /\ \A m \in Messages : Known(s, m) => Known(s, m)'
        BY <1>2, <1>4, <4>3, KnownStays
      <4>5. Said(s, u)'
        BY <4>2, <4>4 DEF Said
      <4> QED
        BY <3>1, <4>1, <4>4, <4>5
    <3>2. CASE x # s
      <4>1. q \in Queue /\ Said(x, q)
        BY <1>1, <2>0, <3>2 DEF DeliveryInv, DeliveryTypes, AllSaid
      <4>2. DeliveryTypes /\ queued \subseteq queued'
        BY DEF DeliveryInv
      <4> QED
        BY <1>2, <1>4, <4>1, <4>2, KnownStays
    <3> QED
      BY <3>1, <3>2
  <2> SUFFICES ASSUME NEW x \in Subs PROVE Said(x, topic[x])' /\ Said(x, unflushed[x])'
    BY DEF AllSaid
  <2>1. PICK q, v : q = topic'[x] /\ v = unflushed'[x]
    OBVIOUS
  <2>2. Said(x, q)' /\ Said(x, v)'
    BY <2>0, <2>1
  <2> QED
    BY <2>1, <2>2 DEF Said, Known
<1>6. DeadFailed'
  BY <1>1 DEF DeliveryInv, DeadFailed
<1>7. AllInHand'
  <2> SUFFICES ASSUME crashes = 0, NEW x \in Subs, NEW e \in Events
               PROVE  InHand(topic'[x], unflushed'[x], handling'[x], outcome'[<<e, x>>], e, Times(e, x))
    BY DEF AllInHand, Times
  <2>1. CASE x = s /\ e = f
    BY <1>1, <2>1
  <2>2. CASE x = s /\ e # f
    BY <1>1, <2>2
  <2>3. CASE x # s
    BY <1>1, <2>3 DEF DeliveryInv, AllInHand
  <2> QED
    BY <2>1, <2>2, <2>3
<1> QED
  BY <1>2, <1>3, <1>5, <1>6, <1>7 DEF DeliveryInv

(* What the invariant says of one subscription.                            *)
LEMMA AtSubscription ==
  ASSUME DeliveryInv, NEW s \in Subs, NEW t, t = topic[s], NEW u, u = unflushed[s],
         NEW h, h = handling[s]
  PROVE  /\ t \in Queue /\ u \in Queue /\ h \in Handlings /\ (h # "no" => t # <<>>)
         /\ Said(s, t) /\ Said(s, u)
         /\ t # <<>> => t[1] = Head(t) /\ Head(t) \in Messages /\ Known(s, Head(t))
         /\ u # <<>> => Head(u) \in Messages /\ Known(s, Head(u))
         /\ \A e \in Events :
              /\ outcome[<<e, s>>] \in Outcomes /\ Times(e, s) \in Nat
              /\ outcome[<<e, s>>].dead > 0 => outcome[<<e, s>>].failed >= MaxAttempts
              /\ crashes = 0 => Underway(t, u, h, outcome[<<e, s>>], e, Times(e, s))
<1>1. /\ t \in Queue /\ u \in Queue /\ h \in Handlings /\ (h # "no" => t # <<>>)
      /\ Said(s, t) /\ Said(s, u)
  BY DEF DeliveryInv, DeliveryTypes, AtWork, AllSaid
<1>2. t # <<>> => t[1] = Head(t) /\ Head(t) \in Messages /\ Known(s, Head(t))
  <2>1. t # <<>> => 1 \in DOMAIN t /\ t[1] = Head(t) /\ Head(t) \in Messages
    BY <1>1, HereTail
  <2> QED
    BY <1>1, <2>1 DEF Said
<1>3. u # <<>> => Head(u) \in Messages /\ Known(s, Head(u))
  <2>1. u # <<>> => 1 \in DOMAIN u /\ u[1] = Head(u) /\ Head(u) \in Messages
    BY <1>1, HereTail
  <2> QED
    BY <1>1, <2>1 DEF Said
<1>4. ASSUME NEW e \in Events
      PROVE  /\ outcome[<<e, s>>] \in Outcomes /\ Times(e, s) \in Nat
             /\ outcome[<<e, s>>].dead > 0 => outcome[<<e, s>>].failed >= MaxAttempts
             /\ crashes = 0 => Underway(t, u, h, outcome[<<e, s>>], e, Times(e, s))
  <2>1. outcome[<<e, s>>] \in Outcomes /\ Times(e, s) \in {0, 1}
    BY DEF DeliveryInv, DeliveryTypes, Times
  <2>2. crashes = 0 => InHand(t, u, h, outcome[<<e, s>>], e, Times(e, s))
    BY DEF DeliveryInv, AllInHand
  <2>3. outcome[<<e, s>>].dead > 0 => outcome[<<e, s>>].failed >= MaxAttempts
    BY DEF DeliveryInv, DeadFailed
  <2> QED
    BY <1>1, <2>1, <2>2, <2>3 DEF Underway
<1> QED
  BY <1>1, <1>2, <1>3, <1>4


(* Every step of the service keeps the invariant: the producer flushes,    *)
LEMMA FlushKeeps == ASSUME DeliveryInv, NEW s \in Subs, Flush(s) PROVE DeliveryInv'
<1>1. PICK t, u, h : t = topic[s] /\ u = unflushed[s] /\ h = handling[s]
  OBVIOUS
<1>2. PICK m, f, o : m = Head(u) /\ f = m.event /\ o = outcome[<<f, s>>]
  OBVIOUS
<1>3. PICK q, v : q = Put(t, m) /\ v = Cut(u)
  OBVIOUS
<1>4. u # <<>>
  BY <1>1 DEF Flush
<1>5. /\ t \in Queue /\ u \in Queue /\ h \in Handlings /\ (h # "no" => t # <<>>)
      /\ Said(s, t) /\ Said(s, u) /\ m \in Messages /\ Known(s, m)
  BY <1>1, <1>2, <1>4, AtSubscription
<1>6. /\ f \in Events /\ o \in Outcomes /\ (o.dead > 0 => o.failed >= MaxAttempts)
      /\ o.failed >= outcome[<<f, s>>].failed
  <2>1. f \in Events
    BY <1>2, <1>5 DEF Messages
  <2>2. o \in Outcomes /\ (o.dead > 0 => o.failed >= MaxAttempts)
    BY <1>2, <2>1, AtSubscription
  <2> QED
    BY <1>2, <2>1, <2>2 DEF Outcomes
<1>7. q \in Queue /\ q # <<>> /\ v \in Queue
  BY <1>3, <1>4, <1>5, HereAppend, HereTail
<1>8. Said(s, q) /\ \A i \in DOMAIN v : Known(s, v[i]) \/ Known(s, v[i])'
  BY <1>3, <1>4, <1>5, SaidMoves DEF Said
<1>9. ASSUME crashes = 0, NEW e \in Events
      PROVE  InHand(q, v, h, outcome[<<e, s>>], e, Times(e, s))
  <2>1. Times(e, s) \in Nat /\ Underway(t, u, h, outcome[<<e, s>>], e, Times(e, s))
    BY <1>1, <1>9, AtSubscription
  <2> QED
    BY <1>2, <1>3, <1>4, <2>1, FlushInHand DEF Underway
<1>10. /\ topic' = [topic EXCEPT ![s] = q] /\ unflushed' = [unflushed EXCEPT ![s] = v]
       /\ handling' = [handling EXCEPT ![s] = h] /\ outcome' = [outcome EXCEPT ![<<f, s>>] = o]
       /\ queued' = queued /\ crashes' = crashes
       /\ sub' \in [Subs -> [status : {"ACTIVE", "SUSPENDED", "gone"}, retryCount : Nat]]
  <2>1. topic' = [topic EXCEPT ![s] = q] /\ unflushed' = [unflushed EXCEPT ![s] = v]
    BY <1>1, <1>2, <1>3 DEF Flush, Put, Cut
  <2>2. handling' = [handling EXCEPT ![s] = h] /\ outcome' = [outcome EXCEPT ![<<f, s>>] = o]
    BY <1>1, <1>2, <1>6 DEF Flush, DeliveryInv, DeliveryTypes
  <2>3. sub' \in [Subs -> [status : {"ACTIVE", "SUSPENDED", "gone"}, retryCount : Nat]]
    BY DEF Flush, DeliveryInv, DeliveryTypes
  <2> QED
    BY <2>1, <2>2, <2>3 DEF Flush
<1> QED
  BY <1>2, <1>5, <1>6, <1>7, <1>8, <1>9, <1>10, LocalStep

(* A step of the handler of the message at the head.                       *)
LEMMA HandlerStep ==
  ASSUME DeliveryInv, NEW s \in Subs, NEW t, t = topic[s], NEW u, u = unflushed[s], t # <<>>,
         NEW f, f = Head(t).event, NEW i \in Handlings, NEW o \in Outcomes, NEW v,
         \/ v = u
         \/ \E x \in Messages : x.event = f /\ v = Put(u, x) /\ (Known(s, x) \/ Known(s, x)'),
         o.failed >= outcome[<<f, s>>].failed, o.dead > 0 => o.failed >= MaxAttempts,
         topic' = topic, unflushed' = [unflushed EXCEPT ![s] = v],
         handling' = [handling EXCEPT ![s] = i], outcome' = [outcome EXCEPT ![<<f, s>>] = o],
         queued' = queued, crashes' = crashes,
         sub' \in [Subs -> [status : {"ACTIVE", "SUSPENDED", "gone"}, retryCount : Nat]],
         crashes = 0 => Underway(t, v, i, o, f, Times(f, s))
  PROVE  DeliveryInv'
<1>1. /\ t \in Queue /\ u \in Queue /\ Said(s, t) /\ Said(s, u)
      /\ t[1] = Head(t) /\ Head(t) \in Messages
  BY AtSubscription
<1>2. f \in Events
  BY <1>1 DEF Messages
<1>3. v \in Queue /\ \A j \in DOMAIN v : Known(s, v[j]) \/ Known(s, v[j])'
  <2>1. CASE v = u
    BY <1>1, <2>1 DEF Said
  <2>2. ASSUME NEW x \in Messages, v = Put(u, x), Known(s, x) \/ Known(s, x)'
        PROVE  v \in Queue /\ \A j \in DOMAIN v : Known(s, v[j]) \/ Known(s, v[j])'
    <3>1. /\ v \in Queue /\ DOMAIN v = 1..Len(u) + 1 /\ DOMAIN u = 1..Len(u) /\ Len(u) \in Nat
          /\ v[Len(u) + 1] = x /\ (\A j \in DOMAIN u : v[j] = u[j])
          /\ Here(v, f) = Here(u, f) + (IF x.event = f THEN 1 ELSE 0)
      <4>1. u \in Queue /\ v = Put(u, x)
        BY <1>1, <2>2
      <4> QED
        BY ONLY <4>1, HereAppend
    <3> QED
      BY <1>1, <2>2, <3>1 DEF Said
  <2> QED
    BY <2>1, <2>2
<1>4. crashes = 0 => InHand(t, v, i, o, f, Times(f, s))
  BY DEF Underway
<1>5. ASSUME crashes = 0, NEW e \in Events, e # f
      PROVE  InHand(t, v, i, outcome[<<e, s>>], e, Times(e, s))
  <2>1. Times(e, s) \in Nat /\ Underway(t, u, handling[s], outcome[<<e, s>>], e, Times(e, s))
    BY <1>5, AtSubscription
  <2>2. Underway(t, v, i, outcome[<<e, s>>], e, Times(e, s))
    BY <1>1, <1>5, <2>1, OthersInHand
  <2> QED
    BY <2>2 DEF Underway
<1>6. topic' = [topic EXCEPT ![s] = t]
  BY DEF DeliveryInv, DeliveryTypes
<1> QED
  BY <1>1, <1>2, <1>3, <1>4, <1>5, <1>6, LocalStep

(* a message that waits goes back to the end of its topic,                 *)
LEMMA RequeueKeeps == ASSUME DeliveryInv, NEW s \in Subs, Requeue(s) PROVE DeliveryInv'
<1>1. PICK t, u, h : t = topic[s] /\ u = unflushed[s] /\ h = handling[s]
  OBVIOUS
<1>2. PICK m, f, o : m = Head(t) /\ f = m.event /\ o = outcome[<<f, s>>]
  OBVIOUS
<1>3. PICK v : v = Put(u, m)
  OBVIOUS
<1>4. t # <<>> /\ h = "no"
  BY <1>1 DEF Requeue
<1>5. t[1] = m /\ m \in Messages /\ Known(s, m) /\ f \in Events
  BY <1>1, <1>2, <1>4, AtSubscription DEF Messages
<1>6. /\ o \in Outcomes /\ (o.dead > 0 => o.failed >= MaxAttempts) /\ Times(f, s) \in Nat
      /\ crashes = 0 => Underway(t, u, h, o, f, Times(f, s))
  BY <1>1, <1>2, <1>5, AtSubscription
<1>7. crashes = 0 => Underway(t, v, "returned", o, f, Times(f, s))
  <2>1. m.attempt = t[1].attempt + (IF h = "posting" THEN 1 ELSE 0)
    BY <1>4, <1>5 DEF Messages
  <2>2. t[1].event = f /\ m.event = f /\ h # "returned"
    BY <1>2, <1>4, <1>5
  <2>3. o.posts = o.posts /\ o.accepted = o.accepted /\ o.dead = o.dead
    OBVIOUS
  <2> QED
    BY <1>3, <1>4, <1>5, <1>6, <2>1, <2>2, <2>3, EmittedInHand
<1>8. /\ unflushed' = [unflushed EXCEPT ![s] = v] /\ handling' = [handling EXCEPT ![s] = "returned"]
      /\ outcome' = [outcome EXCEPT ![<<f, s>>] = o]
  BY <1>1, <1>2, <1>3 DEF Requeue, Emitted, Put, DeliveryInv, DeliveryTypes
<1>9. /\ topic' = topic /\ queued' = queued /\ crashes' = crashes
      /\ sub' \in [Subs -> [status : {"ACTIVE", "SUSPENDED", "gone"}, retryCount : Nat]]
  BY DEF Requeue, DeliveryInv, DeliveryTypes
<1>10. o.failed >= outcome[<<f, s>>].failed /\ "returned" \in Handlings
  BY <1>2, <1>6 DEF Outcomes, Handlings
<1>11. \E x \in Messages : x.event = f /\ v = Put(u, x) /\ (Known(s, x) \/ Known(s, x)')
  BY <1>2, <1>3, <1>5
<1> QED
  BY <1>1, <1>2, <1>4, <1>6, <1>7, <1>8, <1>9, <1>10, <1>11, HandlerStep

(* a POST begins,                                                          *)
LEMMA PostKeeps == ASSUME DeliveryInv, NEW s \in Subs, Post(s) PROVE DeliveryInv'
<1>1. PICK t, u, h : t = topic[s] /\ u = unflushed[s] /\ h = handling[s]
  OBVIOUS
<1>2. PICK m, f, o : m = Head(t) /\ f = m.event /\ o = outcome[<<f, s>>]
  OBVIOUS
<1>3. PICK p : p = [o EXCEPT !.posts = @ + 1]
  OBVIOUS
<1>4. t # <<>> /\ h = "no"
  BY <1>1 DEF Post
<1>5. t[1] = m /\ m \in Messages /\ f \in Events
  BY <1>1, <1>2, <1>4, AtSubscription DEF Messages
<1>6. /\ o \in Outcomes /\ (o.dead > 0 => o.failed >= MaxAttempts) /\ Times(f, s) \in Nat
      /\ crashes = 0 => Underway(t, u, h, o, f, Times(f, s))
  BY <1>1, <1>2, <1>5, AtSubscription
<1>7. /\ p \in Outcomes /\ p.posts = o.posts + 1 /\ p.failed = o.failed
      /\ p.accepted = o.accepted /\ p.dead = o.dead
  BY <1>3, <1>6 DEF Outcomes
<1>8. crashes = 0 => Underway(t, u, "posting", p, f, Times(f, s))
  BY <1>2, <1>4, <1>5, <1>6, <1>7, PostInHand
<1>9. /\ unflushed' = [unflushed EXCEPT ![s] = u] /\ handling' = [handling EXCEPT ![s] = "posting"]
      /\ outcome' = [outcome EXCEPT ![<<f, s>>] = p]
  <2>1. outcome' = [outcome EXCEPT ![<<f, s>>].posts = @ + 1]
    BY <1>1, <1>2 DEF Post
  <2>2. outcome' = [outcome EXCEPT ![<<f, s>>] = p]
    BY <1>2, <1>3, <2>1
  <2> QED
    BY <1>1, <2>2 DEF Post, DeliveryInv, DeliveryTypes
<1>10. /\ topic' = topic /\ queued' = queued /\ crashes' = crashes
       /\ sub' \in [Subs -> [status : {"ACTIVE", "SUSPENDED", "gone"}, retryCount : Nat]]
  BY DEF Post, DeliveryInv, DeliveryTypes
<1>11. /\ p.failed >= outcome[<<f, s>>].failed /\ (p.dead > 0 => p.failed >= MaxAttempts)
       /\ "posting" \in Handlings
  BY <1>2, <1>6, <1>7 DEF Outcomes, Handlings
<1> QED
  BY <1>1, <1>2, <1>4, <1>7, <1>8, <1>9, <1>10, <1>11, HandlerStep

(* A post that is answered, and one that fails for the last time.          *)
LEMMA PostEndsKeeps ==
  ASSUME DeliveryInv, NEW s \in Subs, PostSucceeds(s) \/ LastPostFails(s) PROVE DeliveryInv'
<1>1. PICK t, u, h : t = topic[s] /\ u = unflushed[s] /\ h = handling[s]
  OBVIOUS
<1>2. PICK m, f, o : m = Head(t) /\ f = m.event /\ o = outcome[<<f, s>>]
  OBVIOUS
<1>4. t # <<>> /\ h = "posting"
  BY <1>1 DEF PostSucceeds, LastPostFails, DeliveryInv, AtWork
<1>5. t[1] = m /\ m \in Messages /\ f \in Events /\ Known(s, m)
  BY <1>1, <1>2, <1>4, AtSubscription DEF Messages
<1>6. /\ o \in Outcomes /\ (o.dead > 0 => o.failed >= MaxAttempts) /\ Times(f, s) \in Nat
      /\ crashes = 0 => Underway(t, u, h, o, f, Times(f, s))
  BY <1>1, <1>2, <1>5, AtSubscription
<1>7. ASSUME NEW p \in Outcomes, p.posts = o.posts, p.accepted + p.dead = o.accepted + o.dead + 1,
             p.failed >= o.failed, p.dead > 0 => p.failed >= MaxAttempts,
             outcome' = [outcome EXCEPT ![<<f, s>>] = p]
      PROVE  DeliveryInv'
  <2>1. crashes = 0 => Underway(t, u, "returned", p, f, Times(f, s))
    BY <1>2, <1>4, <1>5, <1>6, <1>7, EndedInHand
  <2>2. /\ unflushed' = [unflushed EXCEPT ![s] = u] /\ handling' = [handling EXCEPT ![s] = "returned"]
        /\ topic' = topic /\ queued' = queued /\ crashes' = crashes
    BY <1>1 DEF PostSucceeds, LastPostFails, DeliveryInv, DeliveryTypes
  <2>3. sub' \in [Subs -> [status : {"ACTIVE", "SUSPENDED", "gone"}, retryCount : Nat]]
    <3>1. CASE PostSucceeds(s)
      BY <3>1 DEF PostSucceeds, DeliveryInv, DeliveryTypes
    <3>2. CASE LastPostFails(s)
      BY <3>2 DEF LastPostFails, DeliveryInv, DeliveryTypes
    <3> QED
      BY <3>1, <3>2
  <2>4. "returned" \in Handlings /\ p.failed >= outcome[<<f, s>>].failed
    BY <1>2, <1>7 DEF Handlings
  <2> QED
    BY <1>1, <1>2, <1>4, <1>7, <2>1, <2>2, <2>3, <2>4, HandlerStep
<1>8. CASE PostSucceeds(s)
  <2>1. PICK p : p = [o EXCEPT !.accepted = @ + 1]
    OBVIOUS
  <2>2. /\ p \in Outcomes /\ p.posts = o.posts /\ p.failed = o.failed /\ p.dead = o.dead
        /\ p.accepted = o.accepted + 1
    BY <1>6, <2>1 DEF Outcomes
  <2>3. outcome' = [outcome EXCEPT ![<<f, s>>].accepted = @ + 1]
    BY <1>1, <1>2, <1>8 DEF PostSucceeds
  <2>4. outcome' = [outcome EXCEPT ![<<f, s>>] = p]
    BY <1>2, <2>1, <2>3
  <2>5. p.accepted + p.dead = o.accepted + o.dead + 1 /\ p.failed >= o.failed
    BY <1>6, <2>2 DEF Outcomes
  <2> QED
    BY <1>6, <1>7, <2>2, <2>4, <2>5
<1>9. CASE LastPostFails(s)
  <2>1. PICK p : p = [o EXCEPT !.failed = @ + 1, !.dead = @ + 1]
    OBVIOUS
  <2>2. /\ p \in Outcomes /\ p.posts = o.posts /\ p.failed = o.failed + 1 /\ p.dead = o.dead + 1
        /\ p.accepted = o.accepted
    <3>1. PICK r : r = [o EXCEPT !.failed = @ + 1]
      OBVIOUS
    <3>2. /\ r \in Outcomes /\ r.posts = o.posts /\ r.failed = o.failed + 1 /\ r.dead = o.dead
          /\ r.accepted = o.accepted
      BY <1>6, <3>1 DEF Outcomes
    <3>3. p = [r EXCEPT !.dead = @ + 1]
      BY <2>1, <3>1
    <3> QED
      BY <3>2, <3>3 DEF Outcomes
  <2>3. outcome' = [outcome EXCEPT ![<<f, s>>].failed = @ + 1, ![<<f, s>>].dead = @ + 1]
    BY <1>1, <1>2, <1>9 DEF LastPostFails, Dead
  <2>4. outcome' = [outcome EXCEPT ![<<f, s>>] = p]
    BY <1>2, <2>1, <2>3
  <2>5. p.accepted + p.dead = o.accepted + o.dead + 1 /\ p.failed >= o.failed
    BY <1>6, <2>2 DEF Outcomes
  <2>6. p.failed >= MaxAttempts
    <3>1. m.attempt >= MaxAttempts
      BY <1>1, <1>2, <1>9 DEF LastPostFails, GivesUp
    <3>2. o.failed >= m.attempt - 1
      BY <1>2, <1>5 DEF Known
    <3>3. m.attempt \in Int /\ o.failed \in Nat /\ MaxAttempts \in Nat
      BY <1>5, <1>6, DeliveryConstants DEF Messages, Outcomes
    <3> QED
      BY <2>2, <3>1, <3>2, <3>3
  <2> QED
    BY <1>7, <2>2, <2>4, <2>5, <2>6
<1> QED
  BY <1>8, <1>9

(* fails and is retried, or was the last one and is reported dead,         *)
LEMMA PostFailsKeeps == ASSUME DeliveryInv, NEW s \in Subs, PostFails(s) PROVE DeliveryInv'
<1>1. PICK t, u, h : t = topic[s] /\ u = unflushed[s] /\ h = handling[s]
  OBVIOUS
<1>2. PICK m, f, o : m = Head(t) /\ f = m.event /\ o = outcome[<<f, s>>]
  OBVIOUS
<1>3. PICK x, v, p : x = Retry(m) /\ v = Put(u, x) /\ p = [o EXCEPT !.failed = @ + 1]
  OBVIOUS
<1>4. t # <<>> /\ h = "posting"
  BY <1>1 DEF PostFails, DeliveryInv, AtWork
<1>5. t[1] = m /\ m \in Messages /\ f \in Events /\ Known(s, m)
  BY <1>1, <1>2, <1>4, AtSubscription DEF Messages
<1>6. /\ o \in Outcomes /\ (o.dead > 0 => o.failed >= MaxAttempts) /\ Times(f, s) \in Nat
      /\ crashes = 0 => Underway(t, u, h, o, f, Times(f, s))
  BY <1>1, <1>2, <1>5, AtSubscription
<1>7. /\ p \in Outcomes /\ p.posts = o.posts /\ p.failed = o.failed + 1
      /\ p.accepted = o.accepted /\ p.dead = o.dead
  BY <1>3, <1>6 DEF Outcomes
<1>8. x \in Messages /\ x.event = f /\ x.attempt = m.attempt + 1
  <2>1. m.attempt \in 1..MaxAttempts /\ m.attempt < MaxAttempts /\ MaxAttempts \in Nat
    BY <1>1, <1>2, <1>5, DeliveryConstants DEF PostFails, GivesUp, Messages
  <2>2. Delays[m.attempt] \in Nat
    BY <2>1, DeliveryConstants
  <2>3. x = [event |-> m.event, attempt |-> m.attempt + 1, wait |-> Delays[m.attempt]]
    BY <1>3 DEF Retry, Message
  <2> QED
    BY <1>2, <1>5, <2>1, <2>2, <2>3 DEF Messages
<1>9. crashes = 0 => Underway(t, v, "returned", p, f, Times(f, s))
  <2>1. x.attempt = t[1].attempt + (IF h = "posting" THEN 1 ELSE 0)
    BY <1>4, <1>5, <1>8
  <2> QED
    BY <1>2, <1>3, <1>4, <1>5, <1>6, <1>7, <1>8, <2>1, EmittedInHand
<1>10. /\ outcome' = [outcome EXCEPT ![<<f, s>>] = p]
       /\ unflushed' = [unflushed EXCEPT ![s] = v] /\ handling' = [handling EXCEPT ![s] = "returned"]
  <2>1. outcome' = [outcome EXCEPT ![<<f, s>>].failed = @ + 1]
    BY <1>1, <1>2 DEF PostFails, Failed
  <2>2. outcome' = [outcome EXCEPT ![<<f, s>>] = p]
    BY <1>2, <1>3, <2>1
  <2>3. unflushed' = [unflushed EXCEPT ![s] = v] /\ handling' = [handling EXCEPT ![s] = "returned"]
    BY <1>1, <1>2, <1>3 DEF PostFails, Emitted, Put
  <2> QED
    BY <2>2, <2>3
<1>11. Known(s, x)'
  <2>1. PICK d \in Events \X Subs : d = <<f, s>>
    BY <1>5
  <2>2. d \in queued /\ o.failed >= m.attempt - 1 /\ o = outcome[d]
    BY <1>2, <1>5, <2>1 DEF Known
  <2>3. outcome'[d] = p /\ d \in queued'
    BY <1>10, <2>1, <2>2 DEF PostFails, DeliveryInv, DeliveryTypes
  <2>4. p.failed >= x.attempt - 1
    BY <1>5, <1>6, <1>7, <1>8, <2>2 DEF Outcomes, Messages
  <2> QED
    BY <1>8, <2>1, <2>3, <2>4 DEF Known
<1>12. /\ topic' = topic /\ queued' = queued /\ crashes' = crashes
       /\ sub' \in [Subs -> [status : {"ACTIVE", "SUSPENDED", "gone"}, retryCount : Nat]]
  BY DEF PostFails, DeliveryInv, DeliveryTypes
<1>13. /\ p.failed >= outcome[<<f, s>>].failed /\ (p.dead > 0 => p.failed >= MaxAttempts)
       /\ "returned" \in Handlings
  BY <1>2, <1>6, <1>7, DeliveryConstants DEF Outcomes, Handlings
<1> QED
  BY <1>1, <1>2, <1>3, <1>4, <1>7, <1>8, <1>9, <1>10, <1>11, <1>12, <1>13, HandlerStep

(* the consumer commits,                                                   *)
LEMMA CommitKeeps == ASSUME DeliveryInv, NEW s \in Subs, Commit(s) PROVE DeliveryInv'
<1>1. PICK t, u, h : t = topic[s] /\ u = unflushed[s] /\ h = handling[s]
  OBVIOUS
<1>2. PICK m, f, o : m = Head(t) /\ f = m.event /\ o = outcome[<<f, s>>]
  OBVIOUS
<1>3. PICK q : q = Cut(t)
  OBVIOUS
<1>4. t # <<>> /\ h = "returned"
  BY <1>1 DEF Commit, DeliveryInv, AtWork
<1>5. t \in Queue /\ u \in Queue /\ Said(s, t) /\ Said(s, u) /\ m \in Messages /\ f \in Events
  BY <1>1, <1>2, <1>4, AtSubscription DEF Messages
<1>6. o \in Outcomes /\ (o.dead > 0 => o.failed >= MaxAttempts)
  BY <1>1, <1>2, <1>5, AtSubscription
<1>7. q \in Queue /\ Said(s, q)
  BY <1>3, <1>4, <1>5, HereTail, SaidMoves
<1>8. ASSUME crashes = 0, NEW e \in Events
      PROVE  InHand(q, u, "no", outcome[<<e, s>>], e, Times(e, s))
  <2>1. Times(e, s) \in Nat /\ Underway(t, u, h, outcome[<<e, s>>], e, Times(e, s))
    BY <1>1, <1>8, AtSubscription
  <2> QED
    BY <1>3, <1>4, <2>1, CommitInHand DEF Underway
<1>9. /\ topic' = [topic EXCEPT ![s] = q] /\ unflushed' = [unflushed EXCEPT ![s] = u]
      /\ handling' = [handling EXCEPT ![s] = "no"] /\ outcome' = [outcome EXCEPT ![<<f, s>>] = o]
      /\ queued' = queued /\ crashes' = crashes
      /\ sub' \in [Subs -> [status : {"ACTIVE", "SUSPENDED", "gone"}, retryCount : Nat]]
  <2>1. topic' = [topic EXCEPT ![s] = q] /\ handling' = [handling EXCEPT ![s] = "no"]
    BY <1>1, <1>3 DEF Commit, Cut
  <2>2. unflushed' = [unflushed EXCEPT ![s] = u] /\ outcome' = [outcome EXCEPT ![<<f, s>>] = o]
    BY <1>1, <1>2, <1>5 DEF Commit, DeliveryInv, DeliveryTypes
  <2>3. sub' \in [Subs -> [status : {"ACTIVE", "SUSPENDED", "gone"}, retryCount : Nat]]
    BY DEF Commit, DeliveryInv, DeliveryTypes
  <2> QED
    BY <2>1, <2>2, <2>3 DEF Commit
<1>10. "no" \in Handlings /\ o.failed >= outcome[<<f, s>>].failed
  BY <1>2, <1>6 DEF Handlings, Outcomes
<1> QED
  BY <1>2, <1>5, <1>6, <1>7, <1>8, <1>9, <1>10, LocalStep DEF Said

(* an event is queued for its subscriptions,                               *)
LEMMA QueueDeliveryKeeps == ASSUME DeliveryInv, NEW f \in Events, QueueDelivery(f) PROVE DeliveryInv'
<1>1. PICK targets : targets = {s \in Subs : sub[s].status = "ACTIVE"}
  OBVIOUS
<1>2. PICK m : m = Message(f, 1, 0)
  OBVIOUS
<1>3. m \in Messages /\ m.event = f /\ m.attempt = 1
  BY <1>2, DeliveryConstants DEF Message, Messages
<1>4. /\ queued' = queued \cup ({f} \X targets) /\ \A s \in Subs : <<f, s>> \notin queued
      /\ \A s \in Subs : unflushed'[s] = IF s \in targets THEN Put(unflushed[s], m) ELSE unflushed[s]
      /\ unflushed' = [s \in Subs |-> IF s \in targets THEN Put(unflushed[s], m) ELSE unflushed[s]]
      /\ UNCHANGED <<sub, topic, handling, outcome, crashes>>
  BY <1>1, <1>2 DEF QueueDelivery, Put
<1>5. DeliveryTypes'
  <2>1. \A s \in Subs : unflushed[s] \in Queue /\ Put(unflushed[s], m) \in Queue
    BY <1>3, HereAppend DEF DeliveryInv, DeliveryTypes
  <2>2. unflushed' \in [Subs -> Queue]
    BY <1>4, <2>1
  <2>3. queued' \subseteq Events \X Subs
    BY <1>1, <1>4 DEF DeliveryInv, DeliveryTypes
  <2> QED
    BY <1>4, <2>2, <2>3 DEF DeliveryInv, DeliveryTypes
<1>6. ASSUME NEW s \in Subs
      PROVE  \A x \in Messages : Known(s, x) => Known(s, x)'
  <2>1. \A d \in Events \X Subs : outcome'[d].failed >= outcome[d].failed
    BY <1>4 DEF DeliveryInv, DeliveryTypes, Outcomes
  <2> QED
    BY <1>4, <1>5, <2>1, KnownStays DEF DeliveryInv
<1>7. AllSaid'
  <2> SUFFICES ASSUME NEW s \in Subs PROVE Said(s, topic[s])' /\ Said(s, unflushed[s])'
    BY DEF AllSaid
  <2>1. PICK t, u, v : t = topic[s] /\ u = unflushed[s] /\ v = unflushed'[s]
    OBVIOUS
  <2>2. t \in Queue /\ u \in Queue /\ Said(s, t) /\ Said(s, u)
    BY <2>1, AtSubscription
  <2>3. /\ \A i \in DOMAIN t : t[i] \in Messages /\ Known(s, t[i])
        /\ \A i \in DOMAIN u : u[i] \in Messages /\ Known(s, u[i])
    BY <2>2, SeqBasics DEF Said, Queue
  <2>4. Said(s, t)'
    BY <1>6, <2>3 DEF Said
  <2>5. Said(s, v)'
    <3>1. CASE s \in targets
      <4>1. /\ DOMAIN v = 1..Len(u) + 1 /\ DOMAIN u = 1..Len(u) /\ Len(u) \in Nat
            /\ v[Len(u) + 1] = m /\ \A i \in DOMAIN u : v[i] = u[i]
        <5>1. v = Put(u, m)
          BY <1>4, <2>1, <3>1
        <5> QED
          BY <1>3, <2>2, <5>1, HereAppend
      <4>2. Known(s, m)'
        <5>1. PICK d \in Events \X Subs : d = <<f, s>>
          OBVIOUS
        <5>2. d \in queued' /\ outcome'[d].failed \in Nat
          BY <1>4, <3>1, <5>1 DEF DeliveryInv, DeliveryTypes, Outcomes
        <5> QED
          BY <1>3, <5>1, <5>2 DEF Known
      <4> QED
        BY <1>6, <2>3, <4>1, <4>2 DEF Said
    <3>2. CASE s \notin targets
      <4>1. v = u
        BY <1>4, <2>1, <3>2
      <4> QED
        BY <1>6, <2>3, <4>1 DEF Said
    <3> QED
      BY <3>1, <3>2
  <2> QED
    BY <1>4, <2>1, <2>4, <2>5 DEF Said, Known
<1>8. AllInHand'
  <2> SUFFICES ASSUME crashes = 0, NEW s \in Subs, NEW e \in Events
               PROVE  InHand(topic[s], unflushed'[s], handling[s], outcome[<<e, s>>], e, Times(e, s)')
    BY <1>4 DEF AllInHand
  <2>1. PICK t, u, v, h, o : /\ t = topic[s] /\ u = unflushed[s] /\ v = unflushed'[s] /\ h = handling[s]
                             /\ o = outcome[<<e, s>>]
    OBVIOUS
  <2>2. PICK n, x : n = Times(e, s) /\ x = Times(e, s)'
    OBVIOUS
  <2>3. n \in Nat /\ Underway(t, u, h, o, e, n)
    BY <2>1, <2>2, AtSubscription
  <2>4. Underway(t, v, h, o, e, x)
    <3>1. CASE s \in targets
      <4>1. x \in Nat /\ x = (IF f = e THEN 1 ELSE n) /\ (f = e => n = 0)
        BY <1>4, <2>2, <3>1 DEF Times
      <4>2. v = Put(u, Message(f, 1, 0))
        BY <1>2, <1>4, <2>1, <3>1
      <4> QED
        BY <2>3, <4>1, <4>2, QueueingInHand
    <3>2. CASE s \notin targets
      <4>1. x = n /\ v = u
        BY <1>4, <2>1, <2>2, <3>2 DEF Times
      <4> QED
        BY <2>3, <4>1
    <3> QED
      BY <3>1, <3>2
  <2> QED
    BY <2>1, <2>2, <2>4 DEF Underway
<1> QED
  BY <1>4, <1>5, <1>7, <1>8 DEF DeliveryInv, AtWork, DeadFailed

(* time passes,                                                            *)
LEMMA TickKeeps == ASSUME DeliveryInv, DeliveryTick PROVE DeliveryInv'
<1>1. /\ \A s \in Subs : topic'[s] = Sooner(topic[s]) /\ unflushed'[s] = Sooner(unflushed[s])
      /\ topic' = [s \in Subs |-> Sooner(topic[s])] /\ unflushed' = [s \in Subs |-> Sooner(unflushed[s])]
      /\ UNCHANGED <<sub, handling, outcome, queued, crashes>>
  BY DEF DeliveryTick
<1>2. \A s \in Subs : /\ Sooner(topic[s]) \in Queue /\ Sooner(unflushed[s]) \in Queue
                      /\ Sooner(topic[s]) = <<>> <=> topic[s] = <<>>
  BY HereSooner DEF DeliveryInv, DeliveryTypes
<1>3. DeliveryTypes'
  <2>1. topic' \in [Subs -> Queue] /\ unflushed' \in [Subs -> Queue]
    BY <1>1, <1>2
  <2> QED
    BY <1>1, <2>1 DEF DeliveryInv, DeliveryTypes
<1>4. AtWork'
  BY <1>1, <1>2 DEF DeliveryInv, AtWork
<1>5. AllSaid'
  <2> SUFFICES ASSUME NEW s \in Subs PROVE Said(s, topic[s])' /\ Said(s, unflushed[s])'
    BY DEF AllSaid
  <2>1. Said(s, Sooner(topic[s])) /\ Said(s, Sooner(unflushed[s]))
    BY SaidMoves DEF DeliveryInv, DeliveryTypes, AllSaid
  <2>2. PICK t, u : t = Sooner(topic[s]) /\ u = Sooner(unflushed[s])
    OBVIOUS
  <2> QED
    BY <1>1, <2>1, <2>2 DEF Said, Known
<1>6. AllInHand'
  <2> SUFFICES ASSUME crashes = 0, NEW s \in Subs, NEW e \in Events
               PROVE  InHand(topic'[s], unflushed'[s], handling[s], outcome[<<e, s>>], e, Times(e, s))
    BY <1>1 DEF AllInHand, Times
  <2>1. Times(e, s) \in Nat /\ Underway(topic[s], unflushed[s], handling[s], outcome[<<e, s>>], e, Times(e, s))
    BY AtSubscription
  <2>2. Underway(Sooner(topic[s]), Sooner(unflushed[s]), handling[s], outcome[<<e, s>>], e, Times(e, s))
    BY <2>1, TickInHand
  <2> QED
    BY <1>1, <2>2 DEF Underway
<1> QED
  BY <1>1, <1>3, <1>4, <1>5, <1>6 DEF DeliveryInv, DeadFailed

(* the process crashes and comes back with what was committed,             *)
LEMMA CrashKeeps == ASSUME DeliveryInv, Crash PROVE DeliveryInv'
<1>1. /\ crashes < MaxCrashes /\ crashes' = crashes + 1
      /\ sub' = [s \in Subs |-> [status |-> "gone", retryCount |-> 0]]
      /\ unflushed' = [s \in Subs |-> <<>>] /\ handling' = [s \in Subs |-> "no"]
      /\ UNCHANGED <<topic, outcome, queued>>
  BY DEF Crash
<1>2. crashes \in Nat /\ MaxCrashes \in Nat
  BY DeliveryConstants DEF DeliveryInv, DeliveryTypes
<1>3. crashes' \in 0..MaxCrashes /\ crashes' # 0
  BY <1>1, <1>2
<1>4. DeliveryTypes'
  <2>1. <<>> \in Queue /\ "no" \in Handlings
    BY DEF Queue, Handlings
  <2>2. unflushed' \in [Subs -> Queue] /\ handling' \in [Subs -> Handlings]
    BY <1>1, <2>1
  <2>3. sub' \in [Subs -> [status : {"ACTIVE", "SUSPENDED", "gone"}, retryCount : Nat]]
    BY <1>1
  <2> QED
    BY <1>1, <1>3, <2>2, <2>3 DEF DeliveryInv, DeliveryTypes
<1>5. AllSaid'
  <2> SUFFICES ASSUME NEW s \in Subs PROVE Said(s, topic[s])' /\ Said(s, unflushed[s])'
    BY DEF AllSaid
  <2>1. Said(s, topic[s])
    BY DEF DeliveryInv, AllSaid
  <2>2. unflushed'[s] = <<>>
    BY <1>1
  <2> QED
    BY <1>1, <2>1, <2>2 DEF Said, Known
<1>6. AtWork' /\ DeadFailed' /\ AllInHand'
  BY <1>1, <1>3 DEF DeliveryInv, AtWork, DeadFailed, AllInHand
<1> QED
  BY <1>4, <1>5, <1>6 DEF DeliveryInv

(* a subscription is suspended or deleted.                                 *)
LEMMA SubscriptionKeeps ==
  ASSUME DeliveryInv, NEW s \in Subs, Suspend(s) \/ Delete(s) PROVE DeliveryInv'
<1>1. UNCHANGED <<topic, unflushed, handling, outcome, queued, crashes>>
  BY DEF Suspend, Delete
<1>2. sub' \in [Subs -> [status : {"ACTIVE", "SUSPENDED", "gone"}, retryCount : Nat]]
  <2>1. CASE Suspend(s)
    BY <2>1 DEF Suspend, DeliveryInv, DeliveryTypes
  <2>2. CASE Delete(s)
    BY <2>2 DEF Delete, DeliveryInv, DeliveryTypes
  <2> QED
    BY <2>1, <2>2
<1>3. AllSaid' /\ AllInHand'
  BY <1>1 DEF DeliveryInv, AllSaid, Said, Known, AllInHand, Times
<1> QED
  BY <1>1, <1>2, <1>3 DEF DeliveryInv, DeliveryTypes, AtWork, DeadFailed

(* Nothing is queued at the start.                                         *)
LEMMA DeliveryStarts == DeliveryInit => DeliveryInv
<1> SUFFICES ASSUME DeliveryInit PROVE DeliveryInv
  OBVIOUS
<1>1. <<>> \in Queue /\ "no" \in Handlings /\ 0 \in 0..MaxCrashes
  BY DeliveryConstants DEF Queue, Handlings
<1>2. DeliveryTypes
  BY <1>1 DEF DeliveryInit, DeliveryTypes, Outcomes
<1>3. AtWork /\ AllSaid /\ DeadFailed
  BY DEF DeliveryInit, AtWork, AllSaid, Said, DeadFailed
<1>4. AllInHand
  <2> SUFFICES ASSUME NEW s \in Subs, NEW e \in Events
               PROVE  InHand(topic[s], unflushed[s], handling[s], outcome[<<e, s>>], e, Times(e, s))
    BY DEF AllInHand
  <2>1. PICK q : q = <<>>
    OBVIOUS
  <2>2. /\ topic[s] = q /\ unflushed[s] = q /\ handling[s] = "no" /\ Times(e, s) = 0
        /\ outcome[<<e, s>>] = [posts |-> 0, failed |-> 0, accepted |-> 0, dead |-> 0]
    BY <2>1 DEF DeliveryInit, Times
  <2>3. q \in Queue /\ DOMAIN q = {}
    BY <1>1, <2>1
  <2>4. Here(q, e) = 0
    BY <2>3, HereTyped
  <2>5. PostsCounted(q, q, "no", outcome[<<e, s>>], e)
    BY <2>3 DEF PostsCounted
  <2> QED
    BY <2>2, <2>4, <2>5, DeliveryConstants DEF InHand, OneLive, Leaving
<1> QED
  BY <1>2, <1>3, <1>4 DEF DeliveryInv

(* Every step of Delivery keeps its invariant.                             *)
LEMMA DeliveryStep == DeliveryInv /\ [DeliveryNext]_deliveryVars => DeliveryInv'
<1> SUFFICES ASSUME DeliveryInv, [DeliveryNext]_deliveryVars PROVE DeliveryInv'
  OBVIOUS
<1>1. ASSUME NEW e \in Events, QueueDelivery(e) PROVE DeliveryInv'
  BY <1>1, QueueDeliveryKeeps
<1>2. ASSUME NEW s \in Subs,
             \/ Flush(s) \/ Requeue(s) \/ Post(s) \/ Commit(s) \/ Suspend(s) \/ Delete(s)
             \/ PostSucceeds(s) \/ PostFails(s) \/ LastPostFails(s)
      PROVE  DeliveryInv'
  BY <1>2, FlushKeeps, RequeueKeeps, PostKeeps, CommitKeeps, SubscriptionKeeps, PostEndsKeeps,
     PostFailsKeeps
<1>3. CASE UNCHANGED deliveryVars
  BY <1>3 DEF deliveryVars, DeliveryInv, DeliveryTypes, AtWork, AllSaid, Said, Known, DeadFailed,
              AllInHand, Times
<1> QED
  BY <1>1, <1>2, <1>3, CrashKeeps, TickKeeps DEF DeliveryNext

(* What the invariant says of one delivery, in the terms of the            *)
(* properties.                                                             *)
LEMMA DeliveryImplied == DeliveryInv => DeliveryTypeOK /\ DeliveriesAccounted
<1> SUFFICES ASSUME DeliveryInv PROVE DeliveryTypeOK /\ DeliveriesAccounted
  OBVIOUS
<1>1. DeliveryTypeOK
  BY DEF DeliveryInv, DeliveryTypes, DeliveryTypeOK, Queue, Handlings
<1>2. ASSUME NEW e \in Events, NEW s \in Subs, <<e, s>> \in queued
      PROVE  /\ outcome[<<e, s>>] \in Outcomes /\ Times(e, s) = 1
             /\ outcome[<<e, s>>].dead > 0 => outcome[<<e, s>>].failed >= MaxAttempts
             /\ crashes = 0 => /\ outcome[<<e, s>>].accepted + outcome[<<e, s>>].dead <= 1
                               /\ outcome[<<e, s>>].posts <= MaxAttempts
                               /\ OneLive(topic[s], unflushed[s], handling[s], outcome[<<e, s>>], e, 1)
  BY <1>2 DEF DeliveryInv, DeliveryTypes, DeadFailed, AllInHand, InHand, Times
<1>3. \A d \in queued : \E e \in Events, s \in Subs : d = <<e, s>>
  BY DEF DeliveryInv, DeliveryTypes
<1>4. DeadAfterAllAttempts
  BY <1>2, <1>3 DEF DeadAfterAllAttempts
<1>5. ASSUME crashes = 0, NEW d \in queued, NEW e \in Events, NEW s \in Subs, d = <<e, s>>
      PROVE  Here(topic[s], e) + Here(unflushed[s], e) - Leaving(topic[s], handling[s], e) =
               IF Ended(d) THEN 0 ELSE 1
  <2>1. outcome[d].accepted \in Nat /\ outcome[d].dead \in Nat
    BY <1>2, <1>5 DEF Outcomes
  <2>2. OneLive(topic[s], unflushed[s], handling[s], outcome[d], e, 1)
    BY <1>2, <1>5
  <2> QED
    BY <2>1, <2>2 DEF OneLive, Ended
<1>6. OneLiveMessage
  <2> SUFFICES ASSUME crashes = 0, NEW d \in queued
               PROVE  Here(topic[d[2]], d[1]) + Here(unflushed[d[2]], d[1])
                        - Leaving(topic[d[2]], handling[d[2]], d[1]) = IF Ended(d) THEN 0 ELSE 1
    BY Zenon DEF OneLiveMessage, Here, Places, Leaving
  <2>1. PICK e \in Events, s \in Subs : d = <<e, s>>
    BY <1>3
  <2>2. d[1] = e /\ d[2] = s
    BY <2>1
  <2> QED
    BY <1>5, <2>1, <2>2, Zenon
<1> QED
  BY <1>1, <1>4, <1>6 DEF DeliveriesAccounted

(* WebhookDeliveryService, on its own: deliveries stay typed and accounted *)
(* for, whatever subscriptions, retries and crashes do.                    *)
THEOREM DeliveryHolds == DeliverySpec => [](DeliveryTypeOK /\ DeliveriesAccounted)
<1>1. DeliverySpec => []DeliveryInv
  BY DeliveryStarts, DeliveryStep, PTL DEF DeliverySpec
<1> QED
  BY <1>1, DeliveryImplied, PTL

-----------------------------------------------------------------------------
(* The circuit breaker.                                                    *)

Ages == 0..OldestAge
Circuits == [state : {"CLOSED", "OPEN", "HALF_OPEN"}, failures : Seq(Ages), opened : Ages]

(* Failures are remembered from the oldest to the newest.                  *)
InOrder(failures) == \A i, j \in DOMAIN failures : i < j => failures[i] >= failures[j]

(* The ticks since the current attempt of a caller, and those before it.   *)
Running(c) == (caller[c].attempt - 1) * AttemptTimeout + caller[c].age

(* While a call runs, whatever it found in the window has aged no longer   *)
(* than it has been running.                                               *)
CallsAreShort ==
  \A c \in Callers : caller[c].attempt > 0 =>
    \A i \in DOMAIN circuit.failures : circuit.failures[i] < Window + Running(c)

(* An opening that is younger than the recovery time still holds.          *)
HeldShut == shut < Recovery => circuit.state = "OPEN" /\ circuit.opened <= shut

BreakerInv ==
  /\ BreakerTypeOK /\ InOrder(circuit.failures) /\ CallsAreShort /\ HeldShut
  /\ ClosedBelowThreshold

(* Callers attempt at most MaxRetries times, each within its timeout.      *)
LEMMA Durations ==
  /\ LongestCall \in Nat /\ OldestAge \in Nat /\ OldestAge = Window + LongestCall + Recovery
  /\ \A n \in 1..MaxRetries : (n - 1) * AttemptTimeout \in Nat
                               /\ n * AttemptTimeout = (n - 1) * AttemptTimeout + AttemptTimeout
                               /\ n * AttemptTimeout <= LongestCall
<1> USE BreakerConstants DEF LongestCall, OldestAge
<1>1. \A m, n \in Nat : m * n \in Nat
  OBVIOUS
<1>2. \A n \in 1..MaxRetries : n * AttemptTimeout <= MaxRetries * AttemptTimeout
  <2>1. \A a, b, t \in Nat : a <= b => a * t <= b * t
    OBVIOUS
  <2> QED
    BY <2>1
<1>3. \A n, t \in Int : n * t = (n - 1) * t + t
  OBVIOUS
<1>4. \A n \in 1..MaxRetries : n - 1 \in Nat
  OBVIOUS
<1> QED
  BY <1>1, <1>2, <1>3, <1>4

(* Ages are numbers of ticks.                                              *)
LEMMA AgesCount == Ages \subseteq Int /\ 0 \in Ages
BY Durations DEF Ages

(* There are no more stale failures than failures, and the oldest are the  *)
(* stale ones.                                                             *)
LEMMA StaleFirst ==
  ASSUME NEW f \in Seq(Ages), InOrder(f)
  PROVE  /\ Stale(f) \in 0..Len(f)
         /\ \A i \in 1..Len(f) : f[i] >= Window => i <= Stale(f)
<1> DEFINE S == {i \in DOMAIN f : f[i] >= Window}
<1>0. Len(f) \in Nat /\ DOMAIN f = 1..Len(f) /\ \A i \in 1..Len(f) : f[i] \in Ages /\ f[i] \in Int
  BY AgesCount, SeqBasics
<1>1. \A i \in Nat : IsFiniteSet(1..i) /\ Cardinality(1..i) = i
  BY FS_Interval
<1>2. IsFiniteSet(S) /\ Stale(f) \in 0..Len(f) /\ Stale(f) = Cardinality(S)
  <2>1. S \in SUBSET (1..Len(f))
    BY <1>0
  <2>2. IsFiniteSet(S) /\ Cardinality(S) <= Len(f)
    BY <1>0, <1>1, <2>1, FS_Subset
  <2> QED
    BY <1>0, <2>2, FS_CardinalityType DEF Stale
<1>3. ASSUME NEW i \in 1..Len(f), f[i] >= Window PROVE i <= Stale(f)
  <2>1. \A j \in 1..i : j \in DOMAIN f /\ f[j] \in Int /\ f[i] \in Int /\ (j < i => f[j] >= f[i])
    BY <1>0 DEF InOrder
  <2>2. 1..i \in SUBSET S
    BY <2>1, <1>3, BreakerConstants
  <2>3. Cardinality(1..i) <= Cardinality(S)
    BY <2>2, <1>2, FS_Subset
  <2> QED
    BY <2>3, <1>0, <1>1, <1>2
<1> QED
  BY <1>2, <1>3

(* What is left of a sequence without its first n elements.                *)
LEMMA Rest ==
  ASSUME NEW S, NEW f \in Seq(S), NEW n \in 0..Len(f), NEW g, g = SubSeq(f, n + 1, Len(f))
  PROVE  /\ g \in Seq(S) /\ Len(g) = Len(f) - n
         /\ \A i \in 1..Len(f) - n : g[i] = f[i + n]
  OBVIOUS

(* What pruning leaves is younger than the window, and still in order.     *)
LEMMA Pruned ==
  ASSUME NEW f \in Seq(Ages), InOrder(f), NEW g \in Seq(Ages), Len(g) = Len(f) - Stale(f),
         \A i \in 1..Len(f) - Stale(f) : g[i] = f[i + Stale(f)]
  PROVE  /\ InOrder(g) /\ Len(g) <= Len(f)
         /\ \A i \in DOMAIN g : g[i] < Window /\ \E j \in DOMAIN f : g[i] = f[j]
<1> DEFINE n == Stale(f)
<1>0. Len(f) \in Nat /\ DOMAIN f = 1..Len(f) /\ \A i \in 1..Len(f) : f[i] \in Ages /\ f[i] \in Int
  BY AgesCount, SeqBasics
<1>1. n \in 0..Len(f) /\ DOMAIN g = 1..Len(f) - n
  BY StaleFirst
<1>2. ASSUME NEW i \in 1..Len(f) - n PROVE i + n \in 1..Len(f) /\ ~(i + n <= n) /\ g[i] = f[i + n]
  BY <1>0, <1>1
<1>3. ASSUME NEW i \in 1..Len(f) - n PROVE g[i] < Window
  <2>1. ~(f[i + n] >= Window)
    BY <1>2, StaleFirst
  <2> QED
    BY <1>0, <1>2, <2>1, BreakerConstants
<1>4. ASSUME NEW i \in 1..Len(f) - n, NEW j \in 1..Len(f) - n, i < j PROVE g[i] >= g[j]
  BY <1>0, <1>1, <1>2, <1>4 DEF InOrder
<1> QED
  BY <1>0, <1>1, <1>2, <1>3, <1>4 DEF InOrder

(* A circuit as execute leaves it before the call.                         *)
LEMMA Refreshes ==
  ASSUME BreakerInv, NEW k, k = Refreshed(circuit)
  PROVE  /\ k \in Circuits /\ InOrder(k.failures)
         /\ Len(k.failures) <= Len(circuit.failures)
         /\ \A i \in DOMAIN k.failures :
              k.failures[i] < Window
              /\ \E j \in DOMAIN circuit.failures : k.failures[i] = circuit.failures[j]
         /\ k.opened = circuit.opened
         /\ k.state = IF circuit.state = "OPEN" /\ circuit.opened >= Recovery THEN "HALF_OPEN"
                      ELSE circuit.state
<1>1. PICK f : f = circuit.failures
  OBVIOUS
<1>2. circuit \in Circuits /\ f \in Seq(Ages) /\ InOrder(f)
  BY <1>1 DEF BreakerInv, BreakerTypeOK, Circuits, Ages
<1>3. PICK n : n = Stale(f)
  OBVIOUS
<1>4. PICK g : g = SubSeq(f, n + 1, Len(f))
  OBVIOUS
<1>5. /\ k.failures = g /\ k.opened = circuit.opened
      /\ k.state = (IF circuit.state = "OPEN" /\ circuit.opened >= Recovery THEN "HALF_OPEN"
                    ELSE circuit.state)
  BY <1>1, <1>3, <1>4 DEF Refreshed
<1>6. n \in 0..Len(f)
  BY <1>2, <1>3, StaleFirst
<1>7. g \in Seq(Ages) /\ Len(g) = Len(f) - n /\ \A i \in 1..Len(f) - n : g[i] = f[i + n]
  BY <1>2, <1>4, <1>6, Rest
<1>8. k \in Circuits
  BY <1>1, <1>2, <1>3, <1>4, <1>7 DEF Refreshed, Circuits
<1>9. /\ InOrder(g) /\ Len(g) <= Len(f)
      /\ \A i \in DOMAIN g : g[i] < Window /\ \E j \in DOMAIN f : g[i] = f[j]
  BY <1>2, <1>3, <1>7, Pruned
<1> QED
  BY <1>1, <1>5, <1>8, <1>9

(* A failure that has just happened comes last.                            *)
LEMMA Appended ==
  ASSUME NEW f \in Seq(Ages), InOrder(f), NEW g, g = Append(f, 0)
  PROVE  /\ g \in Seq(Ages) /\ InOrder(g) /\ Len(g) = Len(f) + 1
         /\ DOMAIN g = 1..Len(f) + 1 /\ g[Len(f) + 1] = 0
         /\ \A i \in DOMAIN f : i \in DOMAIN g /\ g[i] = f[i]
         /\ \A i \in DOMAIN g : i \in DOMAIN f \/ i = Len(f) + 1
<1>1. /\ 0 \in Ages /\ Len(f) \in Nat /\ DOMAIN f = 1..Len(f)
      /\ \A i \in 1..Len(f) : f[i] \in Ages
  BY AgesCount, SeqBasics
<1>2. \A i \in 1..Len(f) : f[i] \in Int /\ f[i] >= 0
  BY <1>1, AgesCount DEF Ages
<1>3. /\ g \in Seq(Ages) /\ Len(g) = Len(f) + 1 /\ g[Len(f) + 1] = 0
      /\ DOMAIN g = 1..Len(f) + 1 /\ \A i \in 1..Len(f) : g[i] = f[i]
  BY <1>1
<1> QED
  BY <1>1, <1>2, <1>3 DEF InOrder

(* Every step keeps the invariant; what it adds to it is said with it: how *)
(* the circuit opens, and who begins a call.                               *)
Openings ==
  /\ circuit.state = "CLOSED" /\ circuit'.state = "OPEN"
       => \A i \in DOMAIN circuit'.failures : circuit'.failures[i] < Window + LongestCall
  /\ \A c \in Callers :
       shut < Recovery => ~(caller[c].attempt = 0 /\ caller'[c].attempt = 1)

CallerRows == [attempt : 0..MaxRetries, age : 0..AttemptTimeout]

(* The callers when one of them is written.                                *)
LEMMA CallerWritten ==
  ASSUME caller \in [Callers -> CallerRows], NEW c \in Callers, NEW r \in CallerRows,
         caller' = [caller EXCEPT ![c] = r]
  PROVE  /\ caller' \in [Callers -> CallerRows] /\ caller'[c] = r
         /\ \A d \in Callers : d # c => caller'[d] = caller[d]
OBVIOUS

(* A call that runs has run for a number of ticks.                         *)
LEMMA RunningTyped ==
  ASSUME caller \in [Callers -> CallerRows], NEW c \in Callers, caller[c].attempt > 0
  PROVE  Running(c) \in Nat
<1>1. caller[c].attempt \in 1..MaxRetries /\ caller[c].age \in Nat
  BY BreakerConstants DEF CallerRows
<1> QED
  BY <1>1, Durations DEF Running

(* A circuit that has seen no call is closed.                              *)
LEMMA BreakerStarts == BreakerInit => BreakerInv
<1> SUFFICES ASSUME BreakerInit PROVE BreakerInv
  OBVIOUS
<1>1. /\ circuit.failures = <<>> /\ circuit.opened = OldestAge /\ circuit.state = "CLOSED"
      /\ shut = OldestAge /\ OldestAge >= Recovery
  BY Durations, BreakerConstants DEF BreakerInit
<1>2. <<>> \in Seq(Ages) /\ DOMAIN <<>> = {} /\ Len(<<>>) = 0
  OBVIOUS
<1>3. BreakerTypeOK
  <2>1. OldestAge \in 0..OldestAge /\ 0 \in 0..MaxRetries /\ 0 \in 0..AttemptTimeout
    BY Durations, BreakerConstants
  <2> QED
    BY <1>2, <2>1 DEF BreakerInit, BreakerTypeOK, Idle, Ages
<1>4. DOMAIN circuit.failures = {} /\ Len(circuit.failures) = 0
  BY <1>1, <1>2
<1>5. InOrder(circuit.failures) /\ CallsAreShort
  BY <1>4 DEF InOrder, CallsAreShort
<1>6. HeldShut /\ ClosedBelowThreshold
  BY <1>1, <1>4, Durations, BreakerConstants DEF HeldShut, ClosedBelowThreshold
<1> QED
  BY <1>3, <1>5, <1>6 DEF BreakerInv

(* The type invariant by the names of the parts,                           *)
LEMMA BreakerTypes ==
  BreakerTypeOK <=> /\ circuit \in Circuits /\ caller \in [Callers -> CallerRows]
                    /\ healed \in BOOLEAN /\ shut \in Ages
BY DEF BreakerTypeOK, Circuits, CallerRows, Ages

(* and what it gives of each part.                                         *)
LEMMA BreakerParts ==
  ASSUME BreakerTypeOK
  PROVE  /\ circuit.failures \in Seq(Ages) /\ Len(circuit.failures) \in Nat
         /\ circuit.opened \in Ages /\ circuit.opened \in Int
         /\ circuit.state \in {"CLOSED", "OPEN", "HALF_OPEN"}
         /\ shut \in Ages /\ shut \in Int
         /\ \A c \in Callers : caller[c].attempt \in 0..MaxRetries /\ caller[c].age \in 0..AttemptTimeout
<1>1. circuit \in Circuits /\ shut \in Ages /\ caller \in [Callers -> CallerRows]
  BY BreakerTypes
<1>2. /\ circuit.failures \in Seq(Ages) /\ circuit.opened \in Ages
      /\ circuit.state \in {"CLOSED", "OPEN", "HALF_OPEN"}
  BY <1>1 DEF Circuits
<1>3. Len(circuit.failures) \in Nat
  BY <1>2, SeqBasics
<1> QED
  BY <1>1, <1>2, <1>3, AgesCount DEF CallerRows

(* Every step of the breaker keeps its invariant: a call is let through or *)
(* refused,                                                                *)
LEMMA ExecuteKeeps ==
  ASSUME BreakerInv, NEW c \in Callers, Execute(c)
  PROVE  BreakerInv' /\ Openings
<1>0. /\ BreakerTypeOK /\ caller \in [Callers -> CallerRows] /\ shut \in Int /\ circuit.opened \in Int
      /\ Len(circuit.failures) \in Int
  BY BreakerTypes, BreakerParts DEF BreakerInv
<1>1. PICK k : k = Refreshed(circuit)
  OBVIOUS
<1>2. /\ k \in Circuits /\ InOrder(k.failures) /\ Len(k.failures) <= Len(circuit.failures)
      /\ \A i \in DOMAIN k.failures :
           k.failures[i] < Window
           /\ \E j \in DOMAIN circuit.failures : k.failures[i] = circuit.failures[j]
      /\ k.opened = circuit.opened
      /\ k.state = (IF circuit.state = "OPEN" /\ circuit.opened >= Recovery THEN "HALF_OPEN"
                    ELSE circuit.state)
  BY <1>1, Refreshes
<1>3. /\ circuit' = k /\ shut' = shut /\ healed' = healed /\ caller[c].attempt = 0
      /\ (k.state = "OPEN" => caller' = caller)
      /\ (k.state # "OPEN" => caller' = [caller EXCEPT ![c] = [attempt |-> 1, age |-> 0]])
  BY <1>1 DEF Execute
<1>4. caller' \in [Callers -> CallerRows] /\ \A d \in Callers :
        caller'[d] = caller[d] \/ (d = c /\ k.state # "OPEN" /\ caller'[d] = [attempt |-> 1, age |-> 0])
  <2>1. [attempt |-> 1, age |-> 0] \in CallerRows
    BY BreakerConstants DEF CallerRows
  <2> QED
    BY <1>0, <1>3, <2>1, CallerWritten
<1>5. BreakerTypeOK'
  BY <1>0, <1>2, <1>3, <1>4, BreakerTypes DEF BreakerTypeOK, CallerRows, Circuits, Ages
<1>6. CallsAreShort'
  <2> SUFFICES ASSUME NEW d \in Callers, caller'[d].attempt > 0, NEW i \in DOMAIN k.failures
               PROVE  k.failures[i] < Window + ((caller'[d].attempt - 1) * AttemptTimeout + caller'[d].age)
    BY <1>3 DEF CallsAreShort, Running
  <2>1. CASE caller'[d] = caller[d]
    BY <1>2, <2>1 DEF BreakerInv, CallsAreShort, Running
  <2>2. CASE caller'[d] = [attempt |-> 1, age |-> 0]
    <3>1. (1 - 1) * AttemptTimeout + 0 = 0
      BY BreakerConstants
    <3> QED
      BY <1>2, <2>2, <3>1, BreakerConstants
  <2> QED
    BY <1>4, <2>1, <2>2
<1>7. HeldShut'
  BY <1>0, <1>2, <1>3, BreakerConstants DEF HeldShut, BreakerInv
<1>8. ClosedBelowThreshold'
  <2>1. Len(k.failures) \in Int
    BY <1>2, SeqBasics DEF Circuits
  <2> QED
    BY <1>0, <1>2, <1>3, <2>1, BreakerConstants DEF ClosedBelowThreshold, BreakerInv
<1>9. Openings
  <2>1. ~(circuit.state = "CLOSED" /\ circuit'.state = "OPEN")
    BY <1>2, <1>3
  <2>2. shut < Recovery => k.state = "OPEN"
    BY <1>0, <1>2, BreakerConstants DEF HeldShut, BreakerInv
  <2> QED
    BY <1>3, <2>1, <2>2 DEF Openings
<1> QED
  BY <1>2, <1>3, <1>5, <1>6, <1>7, <1>8, <1>9 DEF BreakerInv

(* an attempt succeeds and prunes or closes,                               *)
LEMMA SuccessKeeps ==
  ASSUME BreakerInv, NEW c \in Callers, AttemptSucceeds(c)
  PROVE  BreakerInv' /\ Openings
<1>0. BreakerTypeOK /\ caller \in [Callers -> CallerRows] /\ shut \in Int
  BY BreakerTypes, BreakerParts DEF BreakerInv
<1>1. /\ shut' = shut /\ healed' = healed /\ caller' = [caller EXCEPT ![c] = Idle]
      /\ caller[c].attempt > 0
  BY DEF AttemptSucceeds
<1>2. /\ caller' \in [Callers -> CallerRows] /\ caller'[c] = Idle
      /\ \A d \in Callers : d # c => caller'[d] = caller[d]
  <2>1. Idle \in CallerRows
    BY BreakerConstants DEF CallerRows, Idle
  <2> QED
    BY <1>0, <1>1, <2>1, CallerWritten
<1>3. CASE circuit.state # "HALF_OPEN"
  <2>1. circuit' = circuit
    BY <1>3 DEF AttemptSucceeds, AfterSuccess
  <2>2. BreakerTypeOK'
    BY <1>0, <1>1, <1>2, <2>1 DEF BreakerTypeOK, CallerRows
  <2>3. CallsAreShort'
    BY <1>2, <2>1 DEF BreakerInv, CallsAreShort, Running, Idle
  <2>4. HeldShut' /\ ClosedBelowThreshold' /\ InOrder(circuit'.failures)
    BY <1>1, <2>1 DEF BreakerInv, HeldShut, ClosedBelowThreshold
  <2>5. Openings
    BY <1>1, <1>2, <2>1 DEF Openings, Idle
  <2> QED
    BY <2>1, <2>2, <2>3, <2>4, <2>5 DEF BreakerInv
<1>4. CASE circuit.state = "HALF_OPEN"
  <2>1. circuit' = [state |-> "CLOSED", failures |-> <<>>, opened |-> OldestAge]
    BY <1>4 DEF AttemptSucceeds, AfterSuccess
  <2>2. <<>> \in Seq(Ages) /\ DOMAIN <<>> = {} /\ Len(<<>>) = 0 /\ OldestAge \in Ages
    BY Durations DEF Ages
  <2>3. /\ circuit' \in Circuits /\ DOMAIN circuit'.failures = {} /\ Len(circuit'.failures) = 0
        /\ circuit'.state = "CLOSED"
    BY <2>1, <2>2 DEF Circuits
  <2>4. BreakerTypeOK'
    BY <1>0, <1>1, <1>2, <2>3 DEF BreakerTypeOK, CallerRows, Circuits, Ages
  <2>5. ~(shut < Recovery)
    BY <1>4 DEF BreakerInv, HeldShut
  <2>6. CallsAreShort' /\ InOrder(circuit'.failures)
    BY <2>3 DEF CallsAreShort, InOrder
  <2>7. HeldShut' /\ ClosedBelowThreshold' /\ Openings
    BY <1>1, <2>3, <2>5, BreakerConstants DEF HeldShut, ClosedBelowThreshold, Openings
  <2> QED
    BY <2>1, <2>4, <2>6, <2>7 DEF BreakerInv
<1> QED
  BY <1>3, <1>4

(* an attempt fails with more to come,                                     *)
LEMMA FailureKeeps ==
  ASSUME BreakerInv, NEW c \in Callers, AttemptFails(c)
  PROVE  BreakerInv' /\ Openings
<1>0. BreakerTypeOK /\ caller \in [Callers -> CallerRows]
  BY BreakerTypes DEF BreakerInv
<1> DEFINE a == caller[c].attempt
<1>1. /\ circuit' = circuit /\ shut' = shut /\ healed' = healed /\ a \in 1..MaxRetries - 1
      /\ caller' = [caller EXCEPT ![c] = [attempt |-> a + 1, age |-> 0]]
  BY DEF AttemptFails
<1>2. /\ caller' \in [Callers -> CallerRows] /\ caller'[c] = [attempt |-> a + 1, age |-> 0]
      /\ \A d \in Callers : d # c => caller'[d] = caller[d]
  <2>1. [attempt |-> a + 1, age |-> 0] \in CallerRows
    BY <1>1, BreakerConstants DEF CallerRows
  <2> QED
    BY <1>0, <1>1, <2>1, CallerWritten
<1>3. Running(c)' >= Running(c) /\ Running(c) \in Int /\ Running(c)' \in Int
  <2>1. caller[c].age \in 0..AttemptTimeout /\ a \in 1..MaxRetries
    BY <1>0, <1>1, BreakerParts, BreakerConstants
  <2>2. /\ (a - 1) * AttemptTimeout \in Nat
        /\ a * AttemptTimeout = (a - 1) * AttemptTimeout + AttemptTimeout
    BY <2>1, Durations
  <2>3. Running(c)' = a * AttemptTimeout
    <3>1. a + 1 - 1 = a /\ a * AttemptTimeout \in Int
      BY <2>1, <2>2, BreakerConstants
    <3>2. caller'[c].attempt - 1 = a /\ caller'[c].age = 0
      <4>1. caller'[c].attempt = a + 1 /\ caller'[c].age = 0
        BY <1>2
      <4> QED
        BY <2>1, <3>1, <4>1
    <3>3. Running(c)' = (caller'[c].attempt - 1) * AttemptTimeout + caller'[c].age
      BY DEF Running
    <3> QED
      BY <3>1, <3>2, <3>3
  <2> QED
    BY <2>1, <2>2, <2>3, BreakerConstants DEF Running
<1>4. BreakerTypeOK'
  BY <1>0, <1>1, <1>2 DEF BreakerTypeOK, CallerRows
<1>5. CallsAreShort'
  <2> SUFFICES ASSUME NEW d \in Callers, caller'[d].attempt > 0, NEW i \in DOMAIN circuit.failures
               PROVE  circuit.failures[i] < Window + Running(d)'
    BY <1>1 DEF CallsAreShort
  <2>1. circuit.failures[i] \in Int
    BY <1>0, BreakerParts, SeqBasics, AgesCount
  <2>2. CASE d = c
    <3>1. circuit.failures[i] < Window + Running(c)
      BY <1>1, <2>2 DEF BreakerInv, CallsAreShort
    <3> QED
      BY <1>3, <2>1, <2>2, <3>1, BreakerConstants
  <2>3. CASE d # c
    BY <1>2, <2>3 DEF BreakerInv, CallsAreShort, Running
  <2> QED
    BY <2>2, <2>3
<1>6. HeldShut' /\ ClosedBelowThreshold' /\ InOrder(circuit'.failures)
  BY <1>1 DEF BreakerInv, HeldShut, ClosedBelowThreshold
<1>7. Openings
  BY <1>1, <1>2 DEF Openings
<1> QED
  BY <1>1, <1>4, <1>5, <1>6, <1>7 DEF BreakerInv

(* the last attempt fails, which is counted and may open the circuit,      *)
LEMMA LastFailureKeeps ==
  ASSUME BreakerInv, NEW c \in Callers, LastAttemptFails(c)
  PROVE  BreakerInv' /\ Openings
<1>0. /\ BreakerTypeOK /\ caller \in [Callers -> CallerRows] /\ shut \in Int /\ circuit.opened \in Int
      /\ circuit.failures \in Seq(Ages) /\ InOrder(circuit.failures) /\ circuit \in Circuits
  BY BreakerTypes, BreakerParts DEF BreakerInv
<1>1. /\ healed' = healed /\ caller[c].attempt = MaxRetries /\ caller' = [caller EXCEPT ![c] = Idle]
      /\ shut' = IF circuit.state # "OPEN" /\ circuit'.state = "OPEN" THEN 0 ELSE shut
  BY DEF LastAttemptFails
<1>2. /\ caller' \in [Callers -> CallerRows] /\ caller'[c] = Idle
      /\ \A d \in Callers : d # c => caller'[d] = caller[d]
  <2>1. Idle \in CallerRows
    BY BreakerConstants DEF CallerRows, Idle
  <2> QED
    BY <1>0, <1>1, <2>1, CallerWritten
<1>3. PICK f : f = Append(circuit.failures, 0)
  OBVIOUS
<1>4. /\ f \in Seq(Ages) /\ InOrder(f) /\ DOMAIN f = 1..Len(circuit.failures) + 1
      /\ f[Len(circuit.failures) + 1] = 0
      /\ \A i \in DOMAIN circuit.failures : i \in DOMAIN f /\ f[i] = circuit.failures[i]
      /\ \A i \in DOMAIN f : i \in DOMAIN circuit.failures \/ i = Len(circuit.failures) + 1
  <2>1. PICK e : e = circuit.failures
    OBVIOUS
  <2>2. f = Append(e, 0) /\ e \in Seq(Ages) /\ InOrder(e)
    BY <1>0, <1>3, <2>1
  <2>3. /\ f \in Seq(Ages) /\ InOrder(f) /\ DOMAIN f = 1..Len(e) + 1
        /\ f[Len(e) + 1] = 0
        /\ \A i \in DOMAIN e : i \in DOMAIN f /\ f[i] = e[i]
        /\ \A i \in DOMAIN f : i \in DOMAIN e \/ i = Len(e) + 1
    BY <2>2, Appended
  <2> QED
    BY <2>1, <2>3
<1>5. \/ /\ circuit' = [state |-> "OPEN", failures |-> f, opened |-> 0]
         /\ circuit.state = "HALF_OPEN" \/ Len(f) >= FailureThreshold
      \/ /\ circuit' = [circuit EXCEPT !.failures = f]
         /\ circuit.state # "HALF_OPEN" /\ ~(Len(f) >= FailureThreshold)
  BY <1>3 DEF LastAttemptFails, AfterFailure
<1>6. /\ circuit' \in Circuits /\ circuit'.failures = f
      /\ \/ circuit'.state = "OPEN" /\ circuit'.opened = 0
         \/ /\ circuit'.state = circuit.state /\ circuit'.opened = circuit.opened
            /\ circuit.state # "HALF_OPEN" /\ ~(Len(f) >= FailureThreshold)
  BY <1>0, <1>4, <1>5, AgesCount DEF Circuits
<1>7. BreakerTypeOK'
  <2>1. shut' \in Ages /\ healed' \in BOOLEAN
    BY <1>0, <1>1, AgesCount, BreakerTypes
  <2> QED
    BY <1>2, <1>6, <2>1 DEF BreakerTypeOK, CallerRows, Circuits, Ages
<1>8. ASSUME NEW d \in Callers, caller[d].attempt > 0, NEW i \in DOMAIN f
      PROVE  f[i] < Window + Running(d)
  <2>1. CASE i \in DOMAIN circuit.failures
    BY <1>4, <1>8, <2>1 DEF BreakerInv, CallsAreShort
  <2>2. CASE i = Len(circuit.failures) + 1
    BY <1>0, <1>4, <1>8, <2>2, RunningTyped, BreakerConstants
  <2> QED
    BY <1>4, <2>1, <2>2
<1>9. CallsAreShort'
  BY <1>2, <1>6, <1>8 DEF CallsAreShort, Running, Idle
<1>10. HeldShut'
  <2>1. shut >= 0 /\ Recovery \in Int
    BY BreakerConstants, BreakerParts DEF BreakerInv, Ages
  <2>2. shut < Recovery => circuit.state = "OPEN" /\ circuit.opened <= shut
    BY DEF BreakerInv, HeldShut
  <2> QED
    BY <1>0, <1>1, <1>6, <2>1, <2>2 DEF HeldShut
<1>11. ClosedBelowThreshold'
  <2>1. Len(f) \in Nat
    BY <1>4, SeqBasics
  <2> QED
    BY <1>6, <2>1, BreakerConstants DEF ClosedBelowThreshold
<1>12. Openings
  <2>1. ASSUME NEW i \in DOMAIN f PROVE f[i] < Window + LongestCall
    <3>1. caller[c].attempt > 0 /\ MaxRetries \in 1..MaxRetries
      BY <1>1, BreakerConstants
    <3>2. f[i] < Window + Running(c)
      BY <1>8, <2>1, <3>1
    <3>3. f[i] \in Int
      BY <1>4, AgesCount, SeqBasics
    <3>4. Running(c) <= LongestCall /\ Running(c) \in Int /\ LongestCall \in Int
      <4>1. caller[c].age \in 0..AttemptTimeout
        BY <1>0, BreakerParts
      <4>2. /\ (MaxRetries - 1) * AttemptTimeout \in Nat /\ LongestCall \in Nat
            /\ LongestCall = (MaxRetries - 1) * AttemptTimeout + AttemptTimeout
        BY <3>1, Durations DEF LongestCall
      <4> QED
        BY <1>1, <4>1, <4>2, BreakerConstants DEF Running
    <3> QED
      BY <3>2, <3>3, <3>4, BreakerConstants
  <2>2. \A d \in Callers : ~(caller[d].attempt = 0 /\ caller'[d].attempt = 1)
    BY <1>2 DEF Idle
  <2> QED
    BY <1>6, <2>1, <2>2 DEF Openings
<1> QED
  BY <1>4, <1>6, <1>7, <1>9, <1>10, <1>11, <1>12 DEF BreakerInv

(* An age grows by one tick until it is as old as can matter, and ages     *)
(* keep their order.                                                       *)
LEMMA Aging ==
  ASSUME NEW a \in Ages
  PROVE  /\ Older(a) \in Ages /\ Older(a) \in {a, a + 1}
         /\ (a < OldestAge => Older(a) = a + 1)
         /\ \A b \in Ages : a <= b => Older(a) <= Older(b)
BY Durations DEF Ages, Older

(* and time passes, which ends no running call late.                       *)
LEMMA BreakerTickKeeps ==
  ASSUME BreakerInv, BreakerTick
  PROVE  BreakerInv' /\ Openings
<1>0. /\ BreakerTypeOK /\ caller \in [Callers -> CallerRows] /\ shut \in Ages /\ circuit.opened \in Ages
      /\ circuit.failures \in Seq(Ages) /\ InOrder(circuit.failures) /\ circuit \in Circuits
  BY BreakerTypes, BreakerParts DEF BreakerInv
<1>1. PICK f : f = [i \in DOMAIN circuit.failures |-> Older(circuit.failures[i])]
  OBVIOUS
<1>2. PICK L \in Nat : L = Len(circuit.failures) /\ DOMAIN circuit.failures = 1..L
                      /\ \A i \in 1..L : circuit.failures[i] \in Ages
  BY <1>0, SeqBasics
<1>3. /\ f \in Seq(Ages) /\ DOMAIN f = 1..L /\ Len(f) = L
      /\ \A i \in 1..L : f[i] = Older(circuit.failures[i]) /\ f[i] \in Ages
  <2>1. f \in [1..L -> Ages]
    BY <1>1, <1>2, Aging
  <2>2. f \in Seq(Ages) /\ DOMAIN f = 1..L /\ Len(f) = L
    BY <1>2, <2>1
  <2>3. \A i \in 1..L : f[i] = Older(circuit.failures[i]) /\ f[i] \in Ages
    BY <1>1, <1>2, <2>1
  <2> QED
    BY <2>2, <2>3
<1>4. /\ circuit' = [circuit EXCEPT !.opened = Older(@), !.failures = f]
      /\ shut' = Older(shut) /\ healed' = healed
      /\ \A c \in Callers : caller[c].age < AttemptTimeout
      /\ caller' = [c \in Callers |->
            IF caller[c].attempt = 0 THEN Idle ELSE [caller[c] EXCEPT !.age = @ + 1]]
  BY <1>1 DEF BreakerTick
<1>5. /\ circuit'.failures = f /\ circuit'.state = circuit.state
      /\ circuit'.opened = Older(circuit.opened) /\ circuit' \in Circuits
  BY <1>0, <1>3, <1>4, Aging DEF Circuits
<1>6. ASSUME NEW c \in Callers
      PROVE  /\ caller'[c] \in CallerRows /\ caller'[c].attempt = caller[c].attempt
             /\ caller[c].attempt > 0 => caller'[c].age = caller[c].age + 1
  BY <1>0, <1>4, BreakerConstants DEF CallerRows, Idle
<1>7. BreakerTypeOK'
  <2>1. caller' \in [Callers -> CallerRows]
    <3> DEFINE next(c) == IF caller[c].attempt = 0 THEN Idle ELSE [caller[c] EXCEPT !.age = @ + 1]
    <3>1. caller' = [c \in Callers |-> next(c)]
      BY Zenon DEF BreakerTick
    <3> HIDE DEF next
    <3> QED
      BY <1>6, <3>1
  <2> QED
    BY <1>0, <1>4, <1>5, <2>1, Aging DEF BreakerTypeOK, CallerRows, Circuits, Ages
<1>8. InOrder(f)
  <2> SUFFICES ASSUME NEW i \in 1..L, NEW j \in 1..L, i < j PROVE f[i] >= f[j]
    BY <1>3 DEF InOrder
  <2>1. circuit.failures[j] <= circuit.failures[i]
    BY <1>0, <1>2, AgesCount DEF InOrder
  <2>2. Older(circuit.failures[j]) <= Older(circuit.failures[i])
    BY <1>2, <2>1, Aging
  <2>3. f[i] \in Int /\ f[j] \in Int
    BY <1>3, AgesCount
  <2> QED
    BY <1>3, <2>2, <2>3
<1>9. CallsAreShort'
  <2> SUFFICES ASSUME NEW c \in Callers, caller'[c].attempt > 0, NEW i \in 1..L
               PROVE  f[i] < Window + Running(c)'
    BY <1>3, <1>5 DEF CallsAreShort
  <2>1. caller[c].attempt > 0 /\ circuit.failures[i] < Window + Running(c)
    BY <1>2, <1>6 DEF BreakerInv, CallsAreShort
  <2>2. f[i] \in Int /\ circuit.failures[i] \in Int /\ f[i] \in {circuit.failures[i], circuit.failures[i] + 1}
    BY <1>2, <1>3, Aging, AgesCount
  <2>3. Running(c) \in Nat
    BY <1>0, <2>1, RunningTyped
  <2>4. Running(c)' = Running(c) + 1
    <3>1. caller'[c].attempt = caller[c].attempt /\ caller'[c].age = caller[c].age + 1
      BY <1>6, <2>1
    <3>2. PICK p : p = (caller[c].attempt - 1) * AttemptTimeout
      OBVIOUS
    <3>3. Running(c) = p + caller[c].age /\ Running(c)' = p + caller'[c].age
      BY <3>1, <3>2 DEF Running
    <3>4. p \in Nat /\ caller[c].age \in Nat
      BY <1>0, <2>1, <3>2, BreakerParts, Durations, BreakerConstants
    <3> QED
      BY <3>1, <3>3, <3>4
  <2> QED
    BY <2>1, <2>2, <2>3, <2>4, BreakerConstants
<1>10. HeldShut'
  <2>1. shut \in Int /\ circuit.opened \in Int
    BY <1>0, AgesCount
  <2>2. Recovery <= OldestAge /\ OldestAge \in Int
    BY Durations, BreakerConstants
  <2>3. Older(shut) \in {shut, shut + 1} /\ (shut < OldestAge => Older(shut) = shut + 1)
    BY <1>0, Aging
  <2>4. Older(shut) < Recovery => shut < Recovery /\ Older(shut) = shut + 1
    BY <2>1, <2>2, <2>3, BreakerConstants
  <2>5. Older(circuit.opened) \in {circuit.opened, circuit.opened + 1}
    BY <1>0, Aging
  <2> QED
    BY <1>4, <1>5, <2>1, <2>4, <2>5 DEF HeldShut, BreakerInv
<1>11. ClosedBelowThreshold'
  BY <1>2, <1>3, <1>5 DEF ClosedBelowThreshold, BreakerInv
<1>12. Openings
  BY <1>5, <1>6 DEF Openings
<1> QED
  BY <1>5, <1>7, <1>8, <1>9, <1>10, <1>11, <1>12 DEF BreakerInv

(* A step keeps the invariant, and opens the circuit or begins a call only *)
(* as the properties allow.                                                *)
LEMMA BreakerStep == BreakerInv /\ [BreakerNext]_breakerVars => BreakerInv' /\ (Openings \/ UNCHANGED breakerVars)
<1> SUFFICES ASSUME BreakerInv, [BreakerNext]_breakerVars
             PROVE  BreakerInv' /\ (Openings \/ UNCHANGED breakerVars)
  OBVIOUS
<1>1. ASSUME UNCHANGED <<circuit, caller, shut>>, healed' \in BOOLEAN
      PROVE  BreakerInv' /\ Openings
  BY <1>1 DEF BreakerInv, BreakerTypeOK, CallsAreShort, Running, HeldShut, ClosedBelowThreshold, Openings
<1>2. CASE UNCHANGED breakerVars
  BY <1>1, <1>2 DEF breakerVars, BreakerInv, BreakerTypeOK
<1>3. CASE ProviderHeals
  BY <1>1, <1>3 DEF ProviderHeals
<1>4. CASE BreakerTick
  BY <1>4, BreakerTickKeeps
<1>5. ASSUME NEW c \in Callers,
             Execute(c) \/ AttemptSucceeds(c) \/ AttemptFails(c) \/ LastAttemptFails(c)
      PROVE  BreakerInv' /\ Openings
  BY <1>5, ExecuteKeeps, SuccessKeeps, FailureKeeps, LastFailureKeeps
<1> QED
  BY <1>2, <1>3, <1>4, <1>5 DEF BreakerNext

(* What such a step never does to the circuit.                             *)
LEMMA OpeningsAllow ==
  Openings \/ UNCHANGED breakerVars
    => /\ [circuit.state = "CLOSED" /\ circuit'.state = "OPEN"
             => \A i \in DOMAIN circuit'.failures :
                  circuit'.failures[i] < Window + LongestCall]_breakerVars
       /\ [\A c \in Callers :
             shut < Recovery => ~(caller[c].attempt = 0 /\ caller'[c].attempt = 1)]_breakerVars
BY DEF Openings

(* CircuitBreaker.execute, on its own: the circuit opens on recent         *)
(* failures only, and an open one holds new calls off for its recovery     *)
(* time, for every number of callers and every order of their answers.     *)
THEOREM BreakerHolds == BreakerSpec => []BreakerTypeOK /\ CircuitSound
<1>1. BreakerInv => BreakerTypeOK /\ ClosedBelowThreshold
  BY DEF BreakerInv
<1> QED
  BY <1>1, BreakerStarts, BreakerStep, OpeningsAllow, PTL
     DEF BreakerSpec, CircuitSound, OpenedOnRecentFailures, OpeningHoldsCallsOff

-----------------------------------------------------------------------------
(* The webhook router and the idempotency interceptor.                     *)

(* Types of the router and of the interceptor, each touched by its own     *)
(* half of the steps.                                                      *)
EventTypes ==
  /\ marked \in BOOLEAN
  /\ eventCall \in [EventCalls -> [step : EventSteps, late : BOOLEAN, body : {"none"}]]
KeyTypes ==
  /\ stored \in KeyedCalls \cup {"none"}
  /\ keyedCall \in [KeyedCalls -> [step : RequestSteps, late : BOOLEAN,
                                   body : KeyedCalls \cup {"none"}]]

(* A delivery that began late finds the mark for as long as it lasts.      *)
LateSeesMark ==
  "event" \notin expired => \A d \in EventCalls : eventCall[d].late => marked

(* The response in the cache, or in a replay, is that of a request that    *)
(* has stored it, and a request that began late finds one for as long as   *)
(* the key lasts.                                                          *)
StoredByItsCall ==
  /\ stored # "none" => keyedCall[stored].step = "stored"
  /\ \A r \in KeyedCalls : keyedCall[r].step = "replayed" =>
       keyedCall[r].body # "none" /\ keyedCall[keyedCall[r].body].step = "stored"
LateSeesResponse ==
  "response" \notin expired => \A r \in KeyedCalls : keyedCall[r].late => stored # "none"

EventInv == EventTypes /\ LateSeesMark /\ MarkedIsNotHandled
KeyInv == KeyTypes /\ StoredByItsCall /\ LateSeesResponse /\ StoredIsReplayed

(* A step of one gate leaves the other alone.                              *)
LEMMA GatesApart ==
  ASSUME RedeliveryNext
  PROVE  \/ EventsNext /\ UNCHANGED <<stored, keyedCall>>
            /\ ("response" \in expired' <=> "response" \in expired)
         \/ KeysNext /\ UNCHANGED <<marked, eventCall>>
            /\ ("event" \in expired' <=> "event" \in expired)
<1>1. EventsNext => UNCHANGED <<stored, keyedCall>>
                    /\ ("response" \in expired' <=> "response" \in expired)
  BY DEF EventsNext, DeliverEvent, CheckEvent, MarkEvent, EventHandled, EventFails, EventStep,
         ExpireEvent
<1>2. KeysNext => UNCHANGED <<marked, eventCall>>
                  /\ ("event" \in expired' <=> "event" \in expired)
  BY DEF KeysNext, SendRequest, ReadCache, HandlerAnswers, HandlerThrows, StoreResponse,
         ExpireResponse
<1> QED
  BY <1>1, <1>2 DEF RedeliveryNext

(* Every step of the router keeps its invariant.                           *)
LEMMA EventStepKeeps == EventInv /\ EventsNext => EventInv'
<1> SUFFICES ASSUME EventInv, EventsNext PROVE EventInv'
  OBVIOUS
<1> USE DEF EventInv, EventTypes, LateSeesMark, MarkedIsNotHandled, EventSteps
<1>1. ASSUME NEW d \in EventCalls, DeliverEvent(d) PROVE EventInv'
  BY <1>1 DEF DeliverEvent
<1>2. ASSUME NEW d \in EventCalls, CheckEvent(d) PROVE EventInv'
  BY <1>2 DEF CheckEvent, EventStep
<1>3. ASSUME NEW d \in EventCalls, MarkEvent(d) PROVE EventInv'
  BY <1>3 DEF MarkEvent, EventStep
<1>4. ASSUME NEW d \in EventCalls, EventHandled(d) \/ EventFails(d) PROVE EventInv'
  BY <1>4 DEF EventHandled, EventFails, EventStep
<1>5. CASE ExpireEvent
  BY <1>5 DEF ExpireEvent
<1> QED
  BY <1>1, <1>2, <1>3, <1>4, <1>5 DEF EventsNext

(* Every step of the interceptor keeps its invariant.                      *)
LEMMA KeyStepKeeps == KeyInv /\ KeysNext => KeyInv'
<1> SUFFICES ASSUME KeyInv, KeysNext PROVE KeyInv'
  OBVIOUS
<1> USE DEF KeyInv, RequestSteps
<1> DEFINE ResponsesStand == StoredByItsCall /\ LateSeesResponse /\ StoredIsReplayed
<1>1. ASSUME NEW r \in KeyedCalls, SendRequest(r) PROVE KeyInv'
  <2>1. KeyTypes'
    BY <1>1 DEF KeyTypes, SendRequest
  <2>2. /\ keyedCall[r].step = "unsent" /\ keyedCall'[r].step = "sent"
        /\ keyedCall'[r].late = (stored # "none")
        /\ \A x \in KeyedCalls : x # r => keyedCall'[x] = keyedCall[x]
        /\ UNCHANGED <<stored, expired>>
    BY <1>1 DEF KeyTypes, SendRequest
  <2>3. ResponsesStand'
    BY <2>2, RedeliveryConstants
       DEF KeyTypes, StoredByItsCall, LateSeesResponse, StoredIsReplayed
  <2> QED
    BY <2>1, <2>3
<1>2. ASSUME NEW r \in KeyedCalls, ReadCache(r) PROVE KeyInv'
  <2>1. KeyTypes'
    <3>1. PICK next \in {"running", "replayed"} :
            /\ keyedCall' = [keyedCall EXCEPT ![r].step = next, ![r].body = stored]
            /\ UNCHANGED stored
      BY <1>2 DEF ReadCache
    <3> QED
      BY <3>1 DEF KeyTypes
  <2>2. /\ keyedCall[r].step = "sent"
        /\ keyedCall'[r].step = IF stored = "none" THEN "running" ELSE "replayed"
        /\ keyedCall'[r].late = keyedCall[r].late /\ keyedCall'[r].body = stored
        /\ \A x \in KeyedCalls : x # r => keyedCall'[x] = keyedCall[x]
        /\ UNCHANGED <<stored, expired>>
    BY <1>2 DEF KeyTypes, ReadCache
  <2>3. ResponsesStand'
    BY <2>2, RedeliveryConstants
       DEF KeyTypes, StoredByItsCall, LateSeesResponse, StoredIsReplayed
  <2> QED
    BY <2>1, <2>3
<1>3. ASSUME NEW r \in KeyedCalls, HandlerAnswers(r) PROVE KeyInv'
  <2>1. KeyTypes'
    BY <1>3 DEF KeyTypes, HandlerAnswers
  <2>2. /\ keyedCall[r].step = "running" /\ keyedCall'[r].step = "answered"
        /\ keyedCall'[r].late = keyedCall[r].late
        /\ \A x \in KeyedCalls : x # r => keyedCall'[x] = keyedCall[x]
        /\ UNCHANGED <<stored, expired>>
    BY <1>3 DEF KeyTypes, HandlerAnswers
  <2>3. ResponsesStand'
    BY <2>2, RedeliveryConstants
       DEF KeyTypes, StoredByItsCall, LateSeesResponse, StoredIsReplayed
  <2> QED
    BY <2>1, <2>3
<1> USE RedeliveryConstants DEF KeyTypes, StoredByItsCall, LateSeesResponse, StoredIsReplayed
<1>4. ASSUME NEW r \in KeyedCalls, HandlerThrows(r) PROVE KeyInv'
  BY <1>4 DEF HandlerThrows
<1>5. ASSUME NEW r \in KeyedCalls, StoreResponse(r) PROVE KeyInv'
  BY <1>5 DEF StoreResponse
<1>6. CASE ExpireResponse
  BY <1>6 DEF ExpireResponse
<1> QED
  BY <1>1, <1>2, <1>3, <1>4, <1>5, <1>6 DEF KeysNext

(* At the start no key is set and no call has been made.                   *)
LEMMA RedeliveryStarts == RedeliveryInit => EventInv /\ KeyInv
<1> SUFFICES ASSUME RedeliveryInit PROVE EventInv /\ KeyInv
  OBVIOUS
<1> USE DEF RedeliveryInit, Unsent, EventSteps, RequestSteps
<1>1. EventTypes /\ KeyTypes
  BY DEF EventTypes, KeyTypes
<1>2. /\ \A d \in EventCalls : ~eventCall[d].late
      /\ \A r \in KeyedCalls : ~keyedCall[r].late /\ keyedCall[r].step = "unsent"
      /\ stored = "none"
  OBVIOUS
<1> QED
  BY <1>1, <1>2 DEF EventInv, LateSeesMark, MarkedIsNotHandled, KeyInv, StoredByItsCall,
                    LateSeesResponse, StoredIsReplayed

(* Both invariants, whichever gate a step is of.                           *)
LEMMA RedeliveryStep ==
  EventInv /\ KeyInv /\ (EventsNext \/ KeysNext \/ UNCHANGED redeliveryVars) => (EventInv /\ KeyInv)'
<1> SUFFICES ASSUME EventInv, KeyInv, EventsNext \/ KeysNext \/ UNCHANGED redeliveryVars
             PROVE  EventInv' /\ KeyInv'
  OBVIOUS
<1>1. CASE EventsNext /\ UNCHANGED <<stored, keyedCall>>
           /\ ("response" \in expired' <=> "response" \in expired)
  <2>1. KeyInv'
    BY <1>1 DEF KeyInv, KeyTypes, StoredByItsCall, LateSeesResponse, StoredIsReplayed
  <2> QED
    BY <2>1, <1>1, EventStepKeeps
<1>2. CASE KeysNext /\ UNCHANGED <<marked, eventCall>>
           /\ ("event" \in expired' <=> "event" \in expired)
  <2>1. EventInv'
    BY <1>2 DEF EventInv, EventTypes, LateSeesMark, MarkedIsNotHandled
  <2> QED
    BY <2>1, <1>2, KeyStepKeeps
<1>3. CASE UNCHANGED redeliveryVars
  BY <1>3 DEF redeliveryVars, EventInv, EventTypes, LateSeesMark, MarkedIsNotHandled, KeyInv,
              KeyTypes, StoredByItsCall, LateSeesResponse, StoredIsReplayed
<1> QED
  BY <1>1, <1>2, <1>3, GatesApart DEF RedeliveryNext

(* Both invariants together are the type and the safety of the gates.      *)
LEMMA RedeliveryImplied == EventInv /\ KeyInv => RedeliveryTypeOK /\ RedeliverySound
BY DEF EventInv, EventTypes, KeyInv, KeyTypes, RedeliveryTypeOK, RedeliverySound

(* Within the 24 hours of its key, no late delivery of an event reaches    *)
(* the handler and no late request is carried out: route and intercept     *)
(* keep their word however many calls overlap.                             *)
THEOREM RemembersTheKey == RedeliverySpec => []RedeliverySound
<1>1. RedeliverySpec => [](EventInv /\ KeyInv)
  BY RedeliveryStarts, RedeliveryStep, PTL DEF RedeliverySpec, RedeliveryNext
<1> QED
  BY <1>1, RedeliveryImplied, PTL

-----------------------------------------------------------------------------
(* The payment rails.                                                      *)

AtHold == {"holding", "placing", "placed"}
Funds == Opening.balance + Opening.overdraft

(* The account row is never settled, its columns agree, and its hold is    *)
(* covered.                                                                *)
RowKept ==
  /\ row.balance = Opening.balance /\ row.overdraft = Opening.overdraft
  /\ row.avail = row.balance - row.hold + row.overdraft
  /\ row.hold >= 0 /\ row.hold <= Funds

(* What a request will write is covered, and the rail of its payment is    *)
(* one that holds money.                                                   *)
Covered(w) ==
  LET c == clerk[w] IN
  /\ c.op # "free" => c.p \in Payments
  /\ c.op \in AtHold => rail[c.p] \in {"wire", "card"}
  /\ c.op = "releasing" => rail[c.p] = "card" /\ calls[c.p].clear > 0
  /\ c.op = "placing" => c.hold >= 0 /\ c.hold + Amount[c.p] <= Funds
  /\ c.op = "releasing" => c.hold >= 0 /\ c.hold <= Funds
AllCovered == \A w \in Clerks : Covered(w)

(* Which statuses the payments of each rail have.                          *)
StatusFits(p) ==
  /\ rail[p] = "none" => payment[p] = "none" /\ calls[p].auth = 0 /\ calls[p].clear = 0
  /\ rail[p] = "card" => calls[p].auth >= 1 /\ payment[p] \in {"none", "AUTHORIZED", "DECLINED"}
  /\ payment[p] \in {"APPROVED", "COMPLETED", "CLEARED"} => rail[p] = "wire"
  /\ payment[p] \in {"AUTHORIZED", "DECLINED"} => rail[p] = "card"
  /\ calls[p].clear > 0 => payment[p] # "none"
AllFit == \A p \in Payments : StatusFits(p)

(* While requests do not overlap, the one at work has read the hold as it  *)
(* is, and its payment is not yet recorded.                                *)
OneAtWork ==
  ~overlap => \A w \in Clerks :
    /\ \A x \in Clerks : clerk[w].op # "free" /\ clerk[x].op # "free" => w = x
    /\ clerk[w].op \in {"placing", "releasing"} => clerk[w].hold = row.hold
    /\ clerk[w].op \in AtHold /\ rail[clerk[w].p] = "wire" =>
         payment[clerk[w].p] \in {"PENDING_APPROVAL", "COMPLETED"}
    /\ clerk[w].op \in AtHold /\ rail[clerk[w].p] = "card" /\ calls[clerk[w].p].auth < 2 =>
         payment[clerk[w].p] = "none"

(* The payments whose amount is in the hold, and the histories in which    *)
(* the hold is the sum of them.                                            *)
At(p, ops) == \E w \in Clerks : clerk[w].op \in ops /\ clerk[w].p = p
Held(p) ==
  \/ payment[p] = "APPROVED"
  \/ payment[p] = "AUTHORIZED" /\ (calls[p].clear = 0 \/ At(p, {"releasing"}))
  \/ At(p, {"placed"})
Regular(p) ==
  /\ calls[p].auth < 2 /\ calls[p].clear < 2
  /\ payment[p] = "COMPLETED" => At(p, AtHold)
  /\ payment[p] = "DECLINED" => calls[p].clear = 0
HeldAmounts == [p \in Payments |-> IF Held(p) THEN Amount[p] ELSE 0]
Orderly == outages = 0 /\ ~overlap /\ \A p \in Payments : Regular(p)
Counted == Orderly => row.hold = IntegerSum(HeldAmounts)

RailInv == RailTypeOK /\ RowKept /\ AllCovered /\ AllFit /\ OneAtWork /\ Counted

-----------------------------------------------------------------------------
(* validateBalance refuses the one leg that every rail posts.              *)
LEMMA OneLegUnbalanced == ASSUME NEW p \in Payments PROVE ~Balanced(Legs(p))
<1>1. PICK leg : leg = [account |-> "customer", type |-> IF rail[p] = "achIn" THEN "CREDIT" ELSE "DEBIT",
                        amount |-> Amount[p], currency |-> "USD"]
  OBVIOUS
<1>2. leg.type \in {"DEBIT", "CREDIT"} /\ leg.amount \in Nat \ {0} /\ leg.currency = "USD"
  BY <1>1, RailConstants
<1>3. PICK legs : legs = <<leg>>
  OBVIOUS
<1>4. Legs(p) = legs
  BY <1>1, <1>3 DEF Legs
<1>5. DOMAIN legs = {1} /\ legs[1] = leg
  BY <1>3
<1>6. ASSUME NEW f, DOMAIN f = {1}, f[1] \in Int PROVE SumOf(f) = f[1]
  <2>1. PICK g : g = [i \in {} |-> 0]
    OBVIOUS
  <2>2. DOMAIN g = {} /\ IntegerSum(g) = 0
    BY <2>1, SumEmpty
  <2>3. IsFiniteSet(DOMAIN f) /\ DOMAIN g = DOMAIN f \ {1}
    BY <1>6, <2>2, FS_Singleton
  <2>4. (\A x \in DOMAIN f : f[x] \in Int) /\ (\A y \in DOMAIN g : g[y] = f[y]) /\ 1 \in DOMAIN f
    BY <1>6, <2>2
  <2>5. IntegerSum(f) = f[1] + IntegerSum(g)
    BY <2>3, <2>4, SumWithout
  <2>6. SumOf(f) = IntegerSum(f)
    BY DEF SumOf, IntegerSum, FoldFunction
  <2> QED
    BY <1>6, <2>2, <2>5, <2>6
<1>7. Debits(legs, "USD") = IF leg.type = "DEBIT" THEN leg.amount ELSE 0
  <2>1. PICK f : f = [i \in DOMAIN legs |-> IF legs[i].type = "DEBIT" /\ legs[i].currency = "USD"
                                            THEN legs[i].amount ELSE 0]
    OBVIOUS
  <2>2. DOMAIN f = {1} /\ f[1] = (IF leg.type = "DEBIT" THEN leg.amount ELSE 0) /\ f[1] \in Int
    BY <1>2, <1>5, <2>1
  <2> QED
    BY <1>6, <2>1, <2>2 DEF Debits
<1>8. Credits(legs, "USD") = IF leg.type = "CREDIT" THEN leg.amount ELSE 0
  <2>1. PICK f : f = [i \in DOMAIN legs |-> IF legs[i].type = "CREDIT" /\ legs[i].currency = "USD"
                                            THEN legs[i].amount ELSE 0]
    OBVIOUS
  <2>2. DOMAIN f = {1} /\ f[1] = (IF leg.type = "CREDIT" THEN leg.amount ELSE 0) /\ f[1] \in Int
    BY <1>2, <1>5, <2>1
  <2> QED
    BY <1>6, <2>1, <2>2 DEF Credits
<1>9. Debits(legs, "USD") # Credits(legs, "USD") /\ "USD" \in Currencies(legs)
  BY <1>2, <1>5, <1>7, <1>8 DEF Currencies
<1> QED
  BY <1>4, <1>9 DEF Balanced

(* A move of a payment that touches neither the row nor a request.         *)
Moved(p, to) ==
  /\ rail[p] \in {"wire", "ach", "achIn", "rtp", "sepa"}
  /\ \/ rail[p] = "wire" /\ payment[p] # "none" /\ to = "COMPLETED"
     \/ rail[p] # "wire" /\ to \in {"SUBMITTED", "FAILED", "PROCESSING", "ACCEPTED", "REJECTED"}
  /\ payment' = [payment EXCEPT ![p] = to]
  /\ UNCHANGED <<rail, row, clerk, calls, outages, overlap>>

(* The steps of the rails by what they write.                              *)
LEMMA RailCases ==
  ASSUME RailNext
  PROVE  \/ \E p \in Payments, by \in {"wire", "ach", "achIn", "rtp", "sepa"},
               status \in {"PENDING_APPROVAL", "PENDING"} : Enters(p, by, status)
         \/ \E p \in Payments, to \in PaymentStatuses : Moved(p, to)
         \/ UNCHANGED railVars
         \/ \E p \in Payments : DeclineAuthorization(p)
         \/ \E p \in Payments, w \in Clerks : StartHold(w, p) \/ StartClearing(w, p)
         \/ \E w \in Clerks : ReadForHold(w) \/ WriteHold(w) \/ RecordHold(w) \/ ReleaseAndClear(w)
         \/ Outage
<1>1. ASSUME NEW p \in Payments, InitiateWire(p) \/ InitiateAch(p) \/ SendRtp(p) \/ SendSepa(p)
      PROVE  \E by \in {"wire", "ach", "achIn", "rtp", "sepa"},
                status \in {"PENDING_APPROVAL", "PENDING"} : Enters(p, by, status)
  BY <1>1 DEF InitiateWire, InitiateAch, SendRtp, SendSepa
<1>2. ASSUME NEW p \in Payments,
             \/ SubmitAch(p) \/ SubmitToNetwork(p) \/ AcceptSepa(p) \/ SubmitSepa(p)
             \/ Reject(p) \/ CompleteWire(p)
      PROVE  \E to \in PaymentStatuses : Moved(p, to)
  BY <1>2 DEF SubmitAch, SubmitToNetwork, AcceptSepa, SubmitSepa, Reject, CompleteWire,
              Moves, Moved, Becomes, PaymentStatuses
<1>3. ASSUME NEW p \in Payments,
             CompleteAch(p) \/ SettleRtp(p) \/ SettleSepa(p) \/ SubmitWire(p)
      PROVE  UNCHANGED railVars
  BY <1>3, OneLegUnbalanced DEF CompleteAch, SettleRtp, SettleSepa, SubmitWire, Settles, railVars
<1> QED
  BY <1>1, <1>2, <1>3, Zenon DEF RailNext

-----------------------------------------------------------------------------
(* The amounts held, and what a change of them does to their sum.          *)
LEMMA HeldAmountsTyped ==
  /\ IsFiniteSet(DOMAIN HeldAmounts) /\ DOMAIN HeldAmounts = Payments
  /\ \A p \in Payments : HeldAmounts[p] \in Nat /\ HeldAmounts[p] = IF Held(p) THEN Amount[p] ELSE 0
BY RailConstants DEF HeldAmounts

(* The hold still comes to what is held when neither changes,              *)
LEMMA HoldSame ==
  ASSUME Counted, Orderly' => Orderly, row'.hold = row.hold,
         Orderly' => \A p \in Payments : Held(p)' = Held(p)
  PROVE  Counted'
<1> SUFFICES ASSUME Orderly' PROVE row'.hold = IntegerSum(HeldAmounts')
  BY DEF Counted
<1>1. PICK f, g : f = HeldAmounts /\ g = HeldAmounts'
  OBVIOUS
<1>2. IsFiniteSet(DOMAIN f) /\ DOMAIN g = DOMAIN f /\ \A p \in DOMAIN f : g[p] = f[p]
  BY <1>1, RailConstants DEF HeldAmounts
<1>3. IntegerSum(g) = IntegerSum(f)
  BY <1>2, SumSame
<1>4. row.hold = IntegerSum(f)
  BY <1>1 DEF Counted
<1> QED
  BY <1>1, <1>3, <1>4

(* and when both change by the amount of one payment.                      *)
LEMMA HoldChange ==
  ASSUME Counted, Orderly, NEW p \in Payments,
         \A q \in Payments : q # p => Held(q)' = Held(q),
         NEW x \in Nat, x = (IF Held(p) THEN Amount[p] ELSE 0),
         NEW y \in Nat, y = (IF Held(p)' THEN Amount[p] ELSE 0),
         row'.hold = row.hold - x + y
  PROVE  Counted'
<1>1. PICK f, g : f = HeldAmounts /\ g = HeldAmounts'
  OBVIOUS
<1>2. /\ IsFiniteSet(DOMAIN f) /\ DOMAIN g = DOMAIN f /\ p \in DOMAIN f /\ f[p] = x /\ g[p] = y
      /\ \A q \in DOMAIN f : q # p => g[q] = f[q]
      /\ \A q \in DOMAIN f : f[q] \in Int
  BY <1>1, RailConstants DEF HeldAmounts
<1>3. IntegerSum(g) = IntegerSum(f) - f[p] + g[p]
  <2>1. g[p] \in Int
    BY <1>2
  <2> QED
    BY ONLY <1>2, <2>1, SumChange
<1>4. row.hold = IntegerSum(f)
  BY <1>1 DEF Counted
<1> QED
  BY <1>1, <1>2, <1>3, <1>4 DEF Counted

(* Every step of the rails keeps the invariant: a payment is taken in,     *)
LEMMA EntersKeeps ==
  ASSUME RailInv, NEW p \in Payments, NEW by \in {"wire", "ach", "achIn", "rtp", "sepa"},
         NEW status \in {"PENDING_APPROVAL", "PENDING"}, Enters(p, by, status)
  PROVE  RailInv'
<1>1. /\ rail[p] = "none" /\ rail' = [rail EXCEPT ![p] = by] /\ payment' = [payment EXCEPT ![p] = status]
      /\ UNCHANGED <<row, clerk, calls, outages, overlap>>
  BY DEF Enters, Becomes
<1>2. payment[p] = "none" /\ calls[p].auth = 0 /\ calls[p].clear = 0
  BY <1>1 DEF RailInv, AllFit, StatusFits
<1>3. \A w \in Clerks : clerk[w].op \in AtHold \/ clerk[w].op = "releasing" => clerk[w].p # p
  BY <1>1 DEF RailInv, AllCovered, Covered
<1>4. RailTypeOK' /\ RowKept'
  BY <1>1 DEF RailInv, RailTypeOK, RowKept, PaymentStatuses
<1>5. AllCovered'
  BY <1>1, <1>3 DEF RailInv, RailTypeOK, AllCovered, Covered, AtHold
<1>6. AllFit'
  BY <1>1, <1>2 DEF RailInv, RailTypeOK, AllFit, StatusFits
<1>7. OneAtWork'
  BY <1>1, <1>3 DEF RailInv, RailTypeOK, AllCovered, Covered, OneAtWork, AtHold
<1>8. Counted'
  <2>1. \A q \in Payments : Held(q)' = Held(q)
    BY <1>1, <1>2 DEF RailInv, RailTypeOK, Held, At
  <2>2. Orderly' => Orderly
    BY <1>1, <1>2 DEF RailInv, RailTypeOK, Orderly, Regular, At
  <2> QED
    BY <1>1, <2>1, <2>2, HoldSame DEF RailInv
<1> QED
  BY <1>4, <1>5, <1>6, <1>7, <1>8 DEF RailInv

(* moves on without money being held for it,                               *)
LEMMA MovedKeeps ==
  ASSUME RailInv, NEW p \in Payments, NEW to \in PaymentStatuses, Moved(p, to)
  PROVE  RailInv'
<1>1. /\ rail[p] \in {"wire", "ach", "achIn", "rtp", "sepa"}
      /\ rail[p] = "wire" => payment[p] # "none" /\ to = "COMPLETED"
      /\ rail[p] # "wire" => to \in {"SUBMITTED", "FAILED", "PROCESSING", "ACCEPTED", "REJECTED"}
      /\ payment' = [payment EXCEPT ![p] = to]
      /\ UNCHANGED <<rail, row, clerk, calls, outages, overlap>>
  BY DEF Moved
<1>2. RailTypeOK' /\ RowKept'
  BY <1>1 DEF RailInv, RailTypeOK, RowKept
<1>3. AllCovered'
  BY <1>1 DEF RailInv, AllCovered, Covered
<1>4. AllFit'
  BY <1>1 DEF RailInv, RailTypeOK, AllFit, StatusFits
<1>5. OneAtWork'
  BY <1>1 DEF RailInv, RailTypeOK, OneAtWork, AllCovered, Covered, AtHold
<1>6. Counted'
  <2>1. \A q \in Payments \ {p} : Held(q)' = Held(q) /\ Regular(q)' = Regular(q)
    BY <1>1 DEF RailInv, RailTypeOK, Held, At, Regular
  <2>2. At(p, {"placed"})' = At(p, {"placed"}) /\ At(p, AtHold)' = At(p, AtHold)
    BY <1>1 DEF At
  <2>3. CASE rail[p] = "wire"
    <3>1. payment[p] \notin {"AUTHORIZED", "DECLINED"} /\ payment'[p] = "COMPLETED"
      BY <1>1, <2>3 DEF RailInv, RailTypeOK, AllFit, StatusFits
    <3>2. ASSUME Orderly' PROVE Regular(p) /\ Held(p)' = Held(p)
      <4>1. ~overlap /\ At(p, AtHold) /\ Regular(p)'
        BY <1>1, <2>2, <3>1, <3>2 DEF Orderly, Regular
      <4>2. PICK w \in Clerks : clerk[w].op \in AtHold /\ clerk[w].p = p
        BY <4>1 DEF At
      <4>3. payment[p] \in {"PENDING_APPROVAL", "COMPLETED"}
        BY <2>3, <4>1, <4>2 DEF RailInv, OneAtWork
      <4>4. Held(p)' = Held(p)
        BY <2>2, <3>1, <4>3 DEF Held
      <4> QED
        BY <1>1, <3>1, <4>1, <4>4 DEF Regular
    <3>3. Orderly' => Orderly
      BY <1>1, <2>1, <3>2 DEF Orderly
    <3> QED
      BY <1>1, <2>1, <3>2, <3>3, HoldSame DEF RailInv
  <2>4. CASE rail[p] # "wire"
    <3>1. /\ payment[p] \notin {"AUTHORIZED", "DECLINED", "APPROVED", "COMPLETED"}
          /\ payment'[p] \notin {"AUTHORIZED", "DECLINED", "APPROVED", "COMPLETED"}
      BY <1>1, <2>4 DEF RailInv, RailTypeOK, AllFit, StatusFits
    <3>2. Held(p)' = Held(p) /\ Regular(p)' = Regular(p)
      BY <1>1, <2>2, <3>1 DEF Held, Regular
    <3> QED
      BY <1>1, <2>1, <3>2, HoldSame DEF RailInv, Orderly
  <2> QED
    BY <2>3, <2>4
<1> QED
  BY <1>2, <1>3, <1>4, <1>5, <1>6 DEF RailInv

(* or is declined;                                                         *)
LEMMA DeclineKeeps ==
  ASSUME RailInv, NEW p \in Payments, DeclineAuthorization(p)
  PROVE  RailInv'
<1>1. /\ rail[p] \in {"none", "card"} /\ calls[p].auth < MaxCalls
      /\ calls' = [calls EXCEPT ![p].auth = @ + 1]
      /\ payment' = [payment EXCEPT ![p] = "DECLINED"] /\ rail' = [rail EXCEPT ![p] = "card"]
      /\ UNCHANGED <<row, clerk, outages, overlap>>
  BY DEF DeclineAuthorization, Becomes
<1>2. calls[p].auth \in 0..MaxCalls /\ MaxCalls \in Nat /\ calls[p].clear \in 0..MaxCalls
  BY RailConstants DEF RailInv, RailTypeOK
<1>3. /\ calls'[p].auth = calls[p].auth + 1 /\ calls'[p].clear = calls[p].clear
      /\ \A q \in Payments : q # p => calls'[q] = calls[q]
  BY <1>1 DEF RailInv, RailTypeOK
<1>4. RailTypeOK' /\ RowKept'
  BY <1>1, <1>2 DEF RailInv, RailTypeOK, RowKept, PaymentStatuses
<1>5. AllCovered'
  BY <1>1, <1>3 DEF RailInv, RailTypeOK, AllCovered, Covered, AtHold
<1>6. AllFit'
  BY <1>1, <1>2, <1>3 DEF RailInv, RailTypeOK, AllFit, StatusFits
<1>7. \A w \in Clerks : clerk[w].op \in AtHold /\ clerk[w].p = p => calls'[p].auth >= 2
  <2>1. \A w \in Clerks : clerk[w].op \in AtHold /\ clerk[w].p = p => calls[p].auth >= 1
    BY <1>1 DEF RailInv, AllCovered, Covered, AllFit, StatusFits
  <2> QED
    BY <1>2, <1>3, <2>1
<1>8. OneAtWork'
  <2>1. \A q \in Payments : q # p => payment'[q] = payment[q] /\ rail'[q] = rail[q] /\ calls'[q] = calls[q]
    BY <1>1, <1>3 DEF RailInv, RailTypeOK
  <2>2. rail'[p] = "card"
    BY <1>1 DEF RailInv, RailTypeOK
  <2>3. \A w \in Clerks : clerk[w].op \in AtHold => clerk[w].p \in Payments
    BY DEF RailInv, AllCovered, Covered, AtHold
  <2>4. ~(calls'[p].auth < 2) \/ \A w \in Clerks : ~(clerk[w].op \in AtHold /\ clerk[w].p = p)
    BY <1>2, <1>3, <1>7
  <2> QED
    BY <1>1, <2>1, <2>2, <2>3, <2>4 DEF RailInv, OneAtWork
<1>9. Counted'
  <2>1. \A q \in Payments \ {p} : Held(q)' = Held(q) /\ Regular(q)' = Regular(q)
    BY <1>1, <1>3 DEF RailInv, RailTypeOK, Held, At, Regular
  <2>2. ASSUME Orderly' PROVE Regular(p) /\ Held(p)' = Held(p)
    <3>1. calls'[p].auth < 2
      BY <2>2 DEF Orderly, Regular
    <3>2. calls[p].auth = 0 /\ rail[p] = "none"
      BY <1>1, <1>2, <1>3, <3>1 DEF RailInv, AllFit, StatusFits
    <3>3. payment[p] = "none" /\ calls[p].clear = 0 /\ payment'[p] = "DECLINED"
      BY <1>1, <3>2 DEF RailInv, RailTypeOK, AllFit, StatusFits
    <3>4. At(p, {"placed"})' = At(p, {"placed"})
      BY <1>1 DEF At
    <3> QED
      BY <3>2, <3>3, <3>4 DEF Held, Regular
  <2>3. Orderly' => Orderly
    BY <1>1, <2>1, <2>2 DEF Orderly
  <2> QED
    BY <1>1, <2>1, <2>2, <2>3, HoldSame DEF RailInv
<1> QED
  BY <1>4, <1>5, <1>6, <1>8, <1>9 DEF RailInv

(* a request for a hold begins,                                            *)
LEMMA StartHoldKeeps ==
  ASSUME RailInv, NEW w \in Clerks, NEW p \in Payments, StartHold(w, p)
  PROVE  RailInv'
<1>1. /\ clerk[w].op = "free" /\ overlap' = (overlap \/ Busy)
      /\ clerk' = [clerk EXCEPT ![w] = [op |-> "holding", p |-> p, hold |-> 0]]
      /\ UNCHANGED <<row, payment, outages>>
  BY DEF StartHold, Works
<1>2. \/ rail[p] = "wire" /\ payment[p] = "PENDING_APPROVAL" /\ UNCHANGED <<rail, calls>>
      \/ /\ rail[p] \in {"none", "card"} /\ calls[p].auth < MaxCalls
         /\ rail' = [rail EXCEPT ![p] = "card"] /\ calls' = [calls EXCEPT ![p].auth = @ + 1]
  BY DEF StartHold
<1>3. /\ clerk'[w].op = "holding" /\ clerk'[w].p = p /\ clerk'[w].hold = 0
      /\ \A x \in Clerks : x # w => clerk'[x] = clerk[x]
  BY <1>1 DEF RailInv, RailTypeOK
<1>4. /\ \A q \in Payments : calls[q].auth \in Nat /\ calls'[q].clear = calls[q].clear
      /\ \A q \in Payments : q # p => calls'[q] = calls[q] /\ rail'[q] = rail[q]
      /\ \/ rail[p] = "wire" /\ payment[p] = "PENDING_APPROVAL" /\ rail'[p] = "wire" /\ calls'[p].auth = calls[p].auth
         \/ rail[p] \in {"none", "card"} /\ rail'[p] = "card" /\ calls'[p].auth = calls[p].auth + 1
  BY <1>2 DEF RailInv, RailTypeOK
<1>5. RailTypeOK' /\ RowKept'
  <2>1. calls' \in [Payments -> [auth : 0..MaxCalls, clear : 0..MaxCalls]]
    BY <1>2, RailConstants DEF RailInv, RailTypeOK
  <2>2. overlap' \in BOOLEAN
    BY <1>1 DEF RailInv, RailTypeOK
  <2>3. rail' \in [Payments -> {"none", "wire", "ach", "achIn", "rtp", "sepa", "card"}]
    BY <1>2 DEF RailInv, RailTypeOK
  <2>4. clerk' \in [Clerks -> [op : {"free", "holding", "placing", "placed", "releasing"},
                               p : Payments \cup {"none"}, hold : Int]]
    BY <1>1 DEF RailInv, RailTypeOK
  <2> QED
    BY <1>1, <2>1, <2>2, <2>3, <2>4 DEF RailInv, RailTypeOK, RowKept
<1>6. AllCovered'
  <2>1. Covered(w)'
    BY <1>3, <1>4 DEF Covered, AtHold
  <2>2. ASSUME NEW x \in Clerks, x # w PROVE Covered(x)'
    <3>1. Covered(x) /\ clerk'[x] = clerk[x]
      BY <1>3, <2>2 DEF RailInv, AllCovered
    <3> QED
      BY <1>4, <3>1 DEF Covered, AtHold, RailInv, RailTypeOK
  <2> QED
    BY <2>1, <2>2 DEF AllCovered
<1>7. AllFit'
  BY <1>1, <1>4 DEF RailInv, AllFit, StatusFits
<1>8. ~overlap' => ~overlap /\ \A x \in Clerks : clerk[x].op = "free"
  BY <1>1 DEF Busy, RailInv, RailTypeOK
<1>9. rail'[p] = "card" /\ calls'[p].auth < 2 => payment[p] = "none"
  BY <1>4 DEF RailInv, AllFit, StatusFits
<1>10. OneAtWork'
  BY <1>1, <1>3, <1>4, <1>8, <1>9 DEF OneAtWork, AtHold
<1>11. Counted'
  <2>1. ASSUME Orderly', NEW q \in Payments PROVE Held(q)' = Held(q) /\ Regular(q)
    <3>1. ~overlap'
      BY <2>1 DEF Orderly
    <3>2. \A x \in Clerks : clerk[x].op = "free" /\ (x = w \/ clerk'[x].op = "free")
      BY <1>3, <1>8, <3>1
    <3>3. At(q, {"releasing"})' = At(q, {"releasing"}) /\ At(q, {"placed"})' = At(q, {"placed"})
      BY <1>3, <3>2 DEF At
    <3>4. Held(q)' = Held(q)
      BY <1>1, <1>4, <3>3 DEF Held
    <3>5. Regular(q)' /\ (At(q, AtHold)' => q = p)
      BY <1>3, <2>1, <3>2 DEF Orderly, At, AtHold
    <3>6. payment[p] # "COMPLETED"
      BY <1>4 DEF RailInv, AllFit, StatusFits
    <3> QED
      BY <1>1, <1>4, <3>4, <3>5, <3>6 DEF Regular
  <2>2. Orderly' => Orderly
    BY <1>1, <1>8, <2>1 DEF Orderly
  <2> QED
    BY <1>1, <2>1, <2>2, HoldSame DEF RailInv
<1> QED
  BY <1>5, <1>6, <1>7, <1>10, <1>11 DEF RailInv

(* The steps of one request that change neither rails nor deliveries: the  *)
(* others' promises stay.                                                  *)
LEMMA OneClerkMoves ==
  ASSUME RailInv, NEW w \in Clerks, UNCHANGED <<rail, calls, overlap>>,
         NEW c, clerk' = [clerk EXCEPT ![w] = c],
         c \in [op : {"free", "holding", "placing", "placed", "releasing"},
                p : Payments \cup {"none"}, hold : Int],
         clerk[w].op # "free"
  PROVE  /\ clerk'[w] = c /\ \A x \in Clerks : x # w => clerk'[x] = clerk[x]
         /\ clerk' \in [Clerks -> [op : {"free", "holding", "placing", "placed", "releasing"},
                                    p : Payments \cup {"none"}, hold : Int]]
         /\ Covered(w)' => AllCovered'
         /\ clerk[w].p \in Payments
         /\ ~overlap => \A x \in Clerks : x # w => clerk[x].op = "free" /\ clerk'[x].op = "free"
<1>1. clerk'[w] = c /\ \A x \in Clerks : x # w => clerk'[x] = clerk[x]
  BY DEF RailInv, RailTypeOK
<1>2. \A x \in Clerks : x # w => Covered(x)'
  BY <1>1 DEF RailInv, AllCovered, Covered
<1>3. clerk[w].p \in Payments
  BY DEF RailInv, AllCovered, Covered
<1>4. ~overlap => \A x \in Clerks : x # w => clerk[x].op = "free"
  BY DEF RailInv, OneAtWork
<1>5. clerk' \in [Clerks -> [op : {"free", "holding", "placing", "placed", "releasing"},
                             p : Payments \cup {"none"}, hold : Int]]
  BY DEF RailInv, RailTypeOK
<1> QED
  BY <1>1, <1>2, <1>3, <1>4, <1>5 DEF AllCovered

(* reads the account row,                                                  *)
LEMMA ReadKeeps == ASSUME RailInv, NEW w \in Clerks, ReadForHold(w) PROVE RailInv'
<1>1. PICK p : p = clerk[w].p
  OBVIOUS
<1>2. PICK c : c = IF Amount[p] <= row.avail THEN [op |-> "placing", p |-> p, hold |-> row.hold] ELSE Free
  OBVIOUS
<1>3. /\ clerk[w].op = "holding" /\ clerk' = [clerk EXCEPT ![w] = c]
      /\ UNCHANGED <<rail, row, payment, calls, outages, overlap>>
  BY <1>1, <1>2 DEF ReadForHold, Works, Rests
<1>4. p \in Payments
  BY <1>1, <1>3 DEF RailInv, AllCovered, Covered
<1>5. /\ c.op \in {"placing", "free"}
      /\ c.op = "placing" => c.p = p /\ c.hold = row.hold /\ Amount[p] <= row.avail
      /\ c \in [op : {"free", "holding", "placing", "placed", "releasing"},
                p : Payments \cup {"none"}, hold : Int]
  BY <1>2, <1>4 DEF Free, RailInv, RailTypeOK
<1>6. /\ clerk'[w] = c /\ \A x \in Clerks : x # w => clerk'[x] = clerk[x]
      /\ clerk' \in [Clerks -> [op : {"free", "holding", "placing", "placed", "releasing"},
                                 p : Payments \cup {"none"}, hold : Int]]
      /\ Covered(w)' => AllCovered'
      /\ ~overlap => \A x \in Clerks : x # w => clerk[x].op = "free" /\ clerk'[x].op = "free"
  BY <1>3, <1>5, OneClerkMoves
<1>7. RailTypeOK' /\ RowKept'
  BY <1>3, <1>6 DEF RailInv, RailTypeOK, RowKept
<1>8. AllCovered'
  <2>1. row.hold \in Nat /\ row.avail = Funds - row.hold /\ Funds \in Int /\ Amount[p] \in Nat
    BY <1>4, RailConstants DEF RailInv, RailTypeOK, RowKept, Funds
  <2>2. c.op = "placing" => c.hold >= 0 /\ c.hold + Amount[p] <= Funds
    BY <1>5, <2>1
  <2>3. rail[p] \in {"wire", "card"}
    BY <1>1, <1>3 DEF RailInv, AllCovered, Covered, AtHold
  <2>4. Covered(w)'
    BY <1>3, <1>4, <1>5, <1>6, <2>2, <2>3 DEF Covered, AtHold
  <2> QED
    BY <1>6, <2>4
<1>9. AllFit'
  BY <1>3 DEF RailInv, AllFit, StatusFits
<1>10. OneAtWork'
  <2> SUFFICES ASSUME ~overlap
               PROVE  \A v \in Clerks :
                        /\ \A x \in Clerks : clerk'[v].op # "free" /\ clerk'[x].op # "free" => v = x
                        /\ clerk'[v].op \in {"placing", "releasing"} => clerk'[v].hold = row.hold
                        /\ clerk'[v].op \in AtHold /\ rail[clerk'[v].p] = "wire" =>
                             payment[clerk'[v].p] \in {"PENDING_APPROVAL", "COMPLETED"}
                        /\ clerk'[v].op \in AtHold /\ rail[clerk'[v].p] = "card" /\ calls[clerk'[v].p].auth < 2 =>
                             payment[clerk'[v].p] = "none"
    BY <1>3 DEF OneAtWork
  <2>1. /\ rail[p] = "wire" => payment[p] \in {"PENDING_APPROVAL", "COMPLETED"}
        /\ rail[p] = "card" /\ calls[p].auth < 2 => payment[p] = "none"
    BY <1>1, <1>3 DEF RailInv, OneAtWork, AtHold
  <2> QED
    BY <1>5, <1>6, <2>1 DEF AtHold
<1>11. Counted'
  <2>1. \A q \in Payments : /\ At(q, {"placed"})' = At(q, {"placed"}) /\ At(q, {"releasing"})' = At(q, {"releasing"})
                            /\ At(q, AtHold)' => At(q, AtHold)
    BY <1>1, <1>3, <1>5, <1>6 DEF At, AtHold
  <2>2. \A q \in Payments : Held(q)' = Held(q) /\ (Regular(q)' => Regular(q))
    BY <1>3, <2>1 DEF Held, Regular
  <2> QED
    BY <1>3, <2>2, HoldSame DEF RailInv, Orderly
<1> QED
  BY <1>7, <1>8, <1>9, <1>10, <1>11 DEF RailInv

(* writes it,                                                              *)
LEMMA WriteKeeps == ASSUME RailInv, NEW w \in Clerks, WriteHold(w) PROVE RailInv'
<1>1. PICK p, h : p = clerk[w].p /\ h = clerk[w].hold
  OBVIOUS
<1>2. PICK c : c = [op |-> "placed", p |-> p, hold |-> 0]
  OBVIOUS
<1>3. /\ clerk[w].op = "placing" /\ clerk' = [clerk EXCEPT ![w] = c]
      /\ row' = AfterHoldUpdate(row, h + Amount[p])
      /\ UNCHANGED <<rail, payment, calls, outages, overlap>>
  BY <1>1, <1>2 DEF WriteHold, Works
<1>4. /\ p \in Payments /\ h \in Int /\ h >= 0 /\ h + Amount[p] <= Funds /\ rail[p] \in {"wire", "card"}
      /\ Amount[p] \in Nat
  BY <1>1, <1>3, RailConstants DEF RailInv, RailTypeOK, AllCovered, Covered, AtHold
<1>5. c \in [op : {"free", "holding", "placing", "placed", "releasing"},
             p : Payments \cup {"none"}, hold : Int]
  BY <1>2, <1>4
<1>6. /\ clerk'[w] = c /\ \A x \in Clerks : x # w => clerk'[x] = clerk[x]
      /\ clerk' \in [Clerks -> [op : {"free", "holding", "placing", "placed", "releasing"},
                                 p : Payments \cup {"none"}, hold : Int]]
      /\ Covered(w)' => AllCovered'
      /\ ~overlap => \A x \in Clerks : x # w => clerk[x].op = "free" /\ clerk'[x].op = "free"
  BY <1>3, <1>5, OneClerkMoves
<1>7. /\ row' \in [balance : Int, avail : Int, hold : Int, overdraft : Nat] /\ row'.hold = h + Amount[p]
      /\ RowKept'
  <2>1. row \in [balance : Int, avail : Int, hold : Int, overdraft : Nat] /\ RowKept
    BY DEF RailInv, RailTypeOK
  <2>2. CASE h + Amount[p] = row.hold
    BY <1>3, <2>1, <2>2 DEF AfterHoldUpdate, RowKept
  <2>3. CASE h + Amount[p] # row.hold
    BY <1>3, <1>4, <2>1, <2>3 DEF AfterHoldUpdate, RowKept
  <2> QED
    BY <2>2, <2>3
<1>8. RailTypeOK'
  BY <1>3, <1>6, <1>7 DEF RailInv, RailTypeOK
<1>9. AllCovered'
  BY <1>2, <1>3, <1>4, <1>6 DEF Covered, AtHold
<1>10. AllFit'
  BY <1>3 DEF RailInv, AllFit, StatusFits
<1>11. ~overlap => /\ rail[p] = "wire" => payment[p] \in {"PENDING_APPROVAL", "COMPLETED"}
                   /\ rail[p] = "card" /\ calls[p].auth < 2 => payment[p] = "none"
                   /\ h = row.hold
  BY <1>1, <1>3 DEF RailInv, OneAtWork, AtHold
<1>12. OneAtWork'
  BY <1>2, <1>3, <1>6, <1>11 DEF OneAtWork, AtHold
<1>13. Counted'
  <2> SUFFICES ASSUME Orderly' PROVE Counted'
    BY DEF Counted
  <2>1. ~overlap /\ calls[p].auth < 2
    BY <1>3, <1>4 DEF Orderly, Regular
  <2>2. /\ \A q \in Payments : /\ At(q, {"releasing"})' = At(q, {"releasing"}) /\ At(q, AtHold)' = At(q, AtHold)
                               /\ q # p => At(q, {"placed"})' = At(q, {"placed"})
        /\ At(p, {"placed"})' /\ ~At(p, {"placed"})
    BY <1>1, <1>2, <1>3, <1>6, <2>1 DEF At, AtHold
  <2>3. Orderly
    BY <1>3, <2>2 DEF Orderly, Regular
  <2>4. \A q \in Payments : q # p => Held(q)' = Held(q)
    BY <1>3, <2>2 DEF Held
  <2>5. payment[p] \notin {"APPROVED", "AUTHORIZED"}
    BY <1>4, <1>11, <2>1
  <2>6. ~Held(p) /\ Held(p)'
    BY <2>2, <2>5 DEF Held
  <2>7. row'.hold = row.hold - 0 + Amount[p]
    BY <1>4, <1>7, <1>11, <2>1 DEF RailInv, RailTypeOK
  <2> QED
    BY <1>4, <2>3, <2>4, <2>6, <2>7, HoldChange DEF RailInv
<1> QED
  BY <1>7, <1>8, <1>9, <1>10, <1>12, <1>13 DEF RailInv

(* and records the payment;                                                *)
LEMMA RecordKeeps == ASSUME RailInv, NEW w \in Clerks, RecordHold(w) PROVE RailInv'
<1>1. PICK p : p = clerk[w].p
  OBVIOUS
<1>2. PICK to : to = IF rail[p] = "wire" THEN "APPROVED" ELSE "AUTHORIZED"
  OBVIOUS
<1>3. /\ clerk[w].op = "placed" /\ clerk' = [clerk EXCEPT ![w] = Free]
      /\ payment' = [payment EXCEPT ![p] = to]
      /\ UNCHANGED <<rail, row, calls, outages, overlap>>
  BY <1>1, <1>2 DEF RecordHold, Rests, Becomes
<1>4. p \in Payments /\ rail[p] \in {"wire", "card"}
  BY <1>1, <1>3 DEF RailInv, AllCovered, Covered, AtHold
<1>5. /\ Free \in [op : {"free", "holding", "placing", "placed", "releasing"},
                    p : Payments \cup {"none"}, hold : Int]
      /\ Free.op = "free"
  BY DEF Free
<1>6. /\ clerk'[w] = Free /\ \A x \in Clerks : x # w => clerk'[x] = clerk[x]
      /\ clerk' \in [Clerks -> [op : {"free", "holding", "placing", "placed", "releasing"},
                                 p : Payments \cup {"none"}, hold : Int]]
      /\ Covered(w)' => AllCovered'
      /\ ~overlap => \A x \in Clerks : x # w => clerk[x].op = "free" /\ clerk'[x].op = "free"
  BY <1>3, <1>5, OneClerkMoves
<1>7. RailTypeOK' /\ RowKept'
  BY <1>2, <1>3, <1>6 DEF RailInv, RailTypeOK, RowKept, PaymentStatuses
<1>8. AllCovered'
  BY <1>5, <1>6 DEF Covered, AtHold
<1>9. AllFit'
  BY <1>2, <1>3, <1>4 DEF RailInv, RailTypeOK, AllFit, StatusFits
<1>10. OneAtWork'
  BY <1>3, <1>5, <1>6 DEF OneAtWork, AtHold
<1>11. Counted'
  <2>0. \A q \in Payments : q # p => payment'[q] = payment[q]
    BY <1>3 DEF RailInv, RailTypeOK
  <2>1. ASSUME Orderly'
        PROVE  Orderly /\ \A q \in Payments : Held(q)' = Held(q)
    <3>1. ~overlap /\ calls[p].auth < 2
      BY <1>3, <1>4, <2>1 DEF Orderly, Regular
    <3>2. /\ \A q \in Payments : /\ At(q, {"releasing"})' = At(q, {"releasing"})
                                 /\ q # p => /\ At(q, {"placed"})' = At(q, {"placed"})
                                             /\ At(q, AtHold)' = At(q, AtHold)
          /\ At(p, {"placed"}) /\ At(p, AtHold)
      BY <1>1, <1>3, <1>5, <1>6 DEF At, AtHold
    <3>3. rail[p] = "card" => payment[p] = "none" /\ calls[p].clear = 0
      <4>1. rail[p] = "card" => payment[p] = "none"
        BY <1>1, <1>3, <3>1 DEF RailInv, OneAtWork, AtHold
      <4>2. calls[p].clear \in Nat /\ (calls[p].clear > 0 => payment[p] # "none")
        BY <1>4, RailConstants DEF RailInv, RailTypeOK, AllFit, StatusFits
      <4> QED
        BY <4>1, <4>2
    <3>4. Held(p)' /\ Held(p)
      <4>1. payment'[p] = to
        BY <1>3, <1>4 DEF RailInv, RailTypeOK
      <4> QED
        BY <1>2, <1>3, <1>4, <3>2, <3>3, <4>1 DEF Held
    <3>5. \A q \in Payments : Held(q)' = Held(q)
      <4>1. \A q \in Payments : q # p => Held(q)' = Held(q)
        BY <1>3, <2>0, <3>2 DEF Held
      <4>2. Held(p)' = Held(p)
        BY <3>4 DEF Held
      <4> QED
        BY <4>1, <4>2
    <3>6. Regular(p)
      <4>1. rail[p] = "wire" => payment[p] # "DECLINED"
        BY <1>4 DEF RailInv, AllFit, StatusFits
      <4> QED
        BY <1>3, <1>4, <2>1, <3>2, <3>3, <4>1 DEF Orderly, Regular
    <3>7. \A q \in Payments : q # p => Regular(q)
      BY <1>3, <2>0, <2>1, <3>2 DEF Orderly, Regular
    <3> QED
      BY <1>3, <2>1, <3>5, <3>6, <3>7 DEF Orderly
  <2> QED
    BY <1>3, <2>1, HoldSame DEF RailInv
<1> QED
  BY <1>7, <1>8, <1>9, <1>10, <1>11 DEF RailInv

(* a clearing begins,                                                      *)
LEMMA StartClearingKeeps ==
  ASSUME RailInv, NEW w \in Clerks, NEW p \in Payments, StartClearing(w, p)
  PROVE  RailInv'
<1>1. PICK c : c = [op |-> "releasing", p |-> p, hold |-> row.hold]
  OBVIOUS
<1>2. /\ clerk[w].op = "free" /\ rail[p] = "card" /\ payment[p] # "none" /\ calls[p].clear < MaxCalls
      /\ clerk' = [clerk EXCEPT ![w] = c] /\ overlap' = (overlap \/ Busy)
      /\ calls' = [calls EXCEPT ![p].clear = @ + 1]
      /\ UNCHANGED <<rail, row, payment, outages>>
  BY <1>1 DEF StartClearing, Works
<1>3. clerk'[w] = c /\ \A x \in Clerks : x # w => clerk'[x] = clerk[x]
  BY <1>2 DEF RailInv, RailTypeOK
<1>4. /\ \A q \in Payments : calls[q].clear \in Nat /\ calls'[q].auth = calls[q].auth
      /\ \A q \in Payments : q # p => calls'[q] = calls[q]
      /\ calls'[p].clear = calls[p].clear + 1
  BY <1>2 DEF RailInv, RailTypeOK
<1>5. RailTypeOK' /\ RowKept'
  <2>1. calls' \in [Payments -> [auth : 0..MaxCalls, clear : 0..MaxCalls]]
    BY <1>2, RailConstants DEF RailInv, RailTypeOK
  <2>2. c \in [op : {"free", "holding", "placing", "placed", "releasing"},
               p : Payments \cup {"none"}, hold : Int]
    BY <1>1 DEF RailInv, RailTypeOK
  <2>3. clerk' \in [Clerks -> [op : {"free", "holding", "placing", "placed", "releasing"},
                               p : Payments \cup {"none"}, hold : Int]]
    BY <1>2, <2>2 DEF RailInv, RailTypeOK
  <2> QED
    BY <1>2, <2>1, <2>3 DEF RailInv, RailTypeOK, RowKept
<1>6. AllCovered'
  <2>1. Covered(w)'
    BY <1>1, <1>2, <1>3, <1>4 DEF RailInv, RowKept, Covered, AtHold
  <2>2. ASSUME NEW x \in Clerks, x # w PROVE Covered(x)'
    <3>1. Covered(x) /\ clerk'[x] = clerk[x]
      BY <1>3, <2>2 DEF RailInv, AllCovered
    <3>2. \A q \in Payments : calls[q].clear > 0 => calls'[q].clear > 0
      BY <1>4
    <3> QED
      BY <1>2, <3>1, <3>2 DEF Covered, AtHold
  <2> QED
    BY <2>1, <2>2 DEF AllCovered
<1>7. AllFit'
  BY <1>2, <1>4 DEF RailInv, AllFit, StatusFits
<1>8. ~overlap' => ~overlap /\ \A x \in Clerks : clerk[x].op = "free"
  BY <1>2 DEF Busy, RailInv, RailTypeOK
<1>9. OneAtWork'
  BY <1>1, <1>2, <1>3, <1>8 DEF OneAtWork, AtHold
<1>10. Counted'
  <2>1. ASSUME Orderly', NEW q \in Payments PROVE Held(q)' = Held(q) /\ Regular(q)
    <3>1. ~overlap' /\ Regular(q)'
      BY <2>1 DEF Orderly
    <3>2. \A x \in Clerks : clerk[x].op = "free" /\ (x = w \/ clerk'[x].op = "free")
      BY <1>3, <1>8, <3>1
    <3>3. /\ At(q, {"releasing"})' <=> q = p
          /\ ~At(q, {"releasing"}) /\ ~At(q, {"placed"}) /\ ~At(q, {"placed"})'
          /\ ~At(q, AtHold)'
      BY <1>1, <1>3, <3>2 DEF At, AtHold
    <3>4. Held(q)' = Held(q)
      <4>1. CASE q = p
        <5>1. calls[p].clear = 0 /\ payment[p] # "DECLINED"
          BY <1>2, <1>4, <3>1, <4>1 DEF Regular
        <5>2. payment[p] = "AUTHORIZED"
          BY <1>2, <5>1 DEF RailInv, AllFit, StatusFits
        <5> QED
          BY <1>2, <3>3, <4>1, <5>1, <5>2 DEF Held
      <4>2. CASE q # p
        BY <1>2, <1>4, <3>3, <4>2 DEF Held
      <4> QED
        BY <4>1, <4>2
    <3>5. Regular(q)
      BY <1>2, <1>4, <3>1, <3>3 DEF Regular
    <3> QED
      BY <3>4, <3>5
  <2>2. Orderly' => Orderly
    BY <1>2, <1>8, <2>1 DEF Orderly
  <2> QED
    BY <1>2, <2>1, <2>2, HoldSame DEF RailInv
<1> QED
  BY <1>5, <1>6, <1>7, <1>9, <1>10 DEF RailInv

(* and releases what was held;                                             *)
LEMMA ReleaseKeeps == ASSUME RailInv, NEW w \in Clerks, ReleaseAndClear(w) PROVE RailInv'
<1>1. PICK p, h : p = clerk[w].p /\ h = clerk[w].hold
  OBVIOUS
<1>2. /\ clerk[w].op = "releasing" /\ p \in Payments /\ rail[p] = "card" /\ calls[p].clear > 0
      /\ h \in Int /\ h >= 0 /\ h <= Funds /\ Amount[p] \in Nat
  <2>1. clerk[w].op = "releasing"
    BY DEF ReleaseAndClear
  <2> QED
    BY <1>1, <2>1, RailConstants DEF RailInv, RailTypeOK, AllCovered, Covered
<1>3. /\ clerk' = [clerk EXCEPT ![w] = Free]
      /\ row' = IF h - Amount[p] < 0 THEN row ELSE AfterHoldUpdate(row, h - Amount[p])
      /\ UNCHANGED <<rail, payment, calls, outages, overlap>>
  BY <1>1, <1>2, OneLegUnbalanced DEF ReleaseAndClear, Rests
<1>4. /\ Free \in [op : {"free", "holding", "placing", "placed", "releasing"},
                    p : Payments \cup {"none"}, hold : Int]
      /\ Free.op = "free"
  BY DEF Free
<1>5. /\ clerk'[w] = Free /\ \A x \in Clerks : x # w => clerk'[x] = clerk[x]
      /\ clerk' \in [Clerks -> [op : {"free", "holding", "placing", "placed", "releasing"},
                                 p : Payments \cup {"none"}, hold : Int]]
      /\ Covered(w)' => AllCovered'
      /\ ~overlap => \A x \in Clerks : x # w => clerk[x].op = "free" /\ clerk'[x].op = "free"
  BY <1>2, <1>3, <1>4, OneClerkMoves
<1>6. /\ row' \in [balance : Int, avail : Int, hold : Int, overdraft : Nat]
      /\ h >= Amount[p] => row'.hold = h - Amount[p]
      /\ RowKept'
  <2>1. row \in [balance : Int, avail : Int, hold : Int, overdraft : Nat] /\ RowKept
    BY DEF RailInv, RailTypeOK
  <2>2. CASE h - Amount[p] < 0
    BY <1>2, <1>3, <2>1, <2>2 DEF RowKept
  <2>3. CASE ~(h - Amount[p] < 0) /\ h - Amount[p] = row.hold
    BY <1>2, <1>3, <2>1, <2>3 DEF AfterHoldUpdate, RowKept
  <2>4. CASE ~(h - Amount[p] < 0) /\ h - Amount[p] # row.hold
    <3>1. row' = [balance |-> row.balance, avail |-> row.balance - (h - Amount[p]) + row.overdraft,
                  hold |-> h - Amount[p], overdraft |-> row.overdraft]
      BY <1>3, <2>4 DEF AfterHoldUpdate
    <3>2. h - Amount[p] >= 0 /\ h - Amount[p] <= Funds /\ Funds \in Int /\ h - Amount[p] \in Int
      BY <1>2, <2>4, RailConstants DEF Funds
    <3> QED
      BY <2>1, <3>1, <3>2 DEF RowKept
  <2> QED
    BY <2>2, <2>3, <2>4
<1>7. RailTypeOK'
  BY <1>3, <1>5, <1>6 DEF RailInv, RailTypeOK
<1>8. AllCovered'
  BY <1>4, <1>5 DEF Covered, AtHold
<1>9. AllFit'
  BY <1>3 DEF RailInv, AllFit, StatusFits
<1>10. OneAtWork'
  BY <1>3, <1>4, <1>5 DEF OneAtWork, AtHold
<1>11. Counted'
  <2> SUFFICES ASSUME Orderly' PROVE Counted'
    BY DEF Counted
  <2>1. ~overlap
    BY <1>3 DEF Orderly
  <2>2. /\ \A q \in Payments : /\ At(q, {"placed"})' = At(q, {"placed"}) /\ At(q, AtHold)' = At(q, AtHold)
                               /\ q # p => At(q, {"releasing"})' = At(q, {"releasing"})
        /\ At(p, {"releasing"}) /\ ~At(p, {"releasing"})' /\ ~At(p, {"placed"}) /\ ~At(p, {"placed"})'
    BY <1>1, <1>2, <1>4, <1>5, <2>1 DEF At, AtHold
  <2>3. Orderly
    BY <1>3, <2>2 DEF Orderly, Regular
  <2>4. \A q \in Payments : q # p => Held(q)' = Held(q)
    BY <1>3, <2>2 DEF Held
  <2>5. payment[p] = "AUTHORIZED"
    <3>1. calls[p].clear # 0 /\ Regular(p)
      BY <1>2, <2>3 DEF Orderly, RailInv, RailTypeOK
    <3> QED
      BY <1>2, <3>1 DEF Regular, RailInv, AllFit, StatusFits
  <2>6. Held(p) /\ ~Held(p)'
    <3>1. calls'[p].clear # 0 /\ payment'[p] = "AUTHORIZED"
      BY <1>2, <1>3, <2>5 DEF RailInv, RailTypeOK
    <3> QED
      BY <2>2, <2>5, <3>1 DEF Held
  <2>7. row.hold = h
    BY <1>1, <1>2, <2>1 DEF RailInv, OneAtWork
  <2>8. Amount[p] <= row.hold
    <3>1. PICK f : f = HeldAmounts
      OBVIOUS
    <3>2. IsFiniteSet(DOMAIN f) /\ DOMAIN f = Payments /\ \A q \in DOMAIN f : f[q] \in Nat
      BY <3>1, HeldAmountsTyped
    <3>3. f[p] = Amount[p]
      BY <1>2, <2>6, <3>1, HeldAmountsTyped
    <3>4. f[p] <= IntegerSum(f)
      BY <1>2, <3>2, SumOfNaturals
    <3> QED
      BY <2>3, <3>1, <3>3, <3>4 DEF RailInv, Counted
  <2>9. row'.hold = row.hold - Amount[p] + 0
    BY <1>2, <1>6, <2>7, <2>8
  <2> QED
    BY <1>2, <2>3, <2>4, <2>6, <2>9, HoldChange DEF RailInv
<1> QED
  BY <1>6, <1>7, <1>8, <1>9, <1>10, <1>11 DEF RailInv

(* the process stops with the requests it was serving.                     *)
LEMMA OutageKeeps == ASSUME RailInv, Outage PROVE RailInv'
<1>1. /\ outages < MaxOutages /\ outages' = outages + 1 /\ clerk' = [w \in Clerks |-> Free]
      /\ UNCHANGED <<rail, row, payment, calls, overlap>>
  BY DEF Outage
<1>2. /\ Free \in [op : {"free", "holding", "placing", "placed", "releasing"},
                    p : Payments \cup {"none"}, hold : Int]
      /\ Free.op = "free"
  BY DEF Free
<1>3. outages' \in 0..MaxOutages /\ outages' # 0
  BY <1>1, RailConstants DEF RailInv, RailTypeOK
<1>4. RailTypeOK' /\ RowKept'
  <2>1. clerk' \in [Clerks -> [op : {"free", "holding", "placing", "placed", "releasing"},
                               p : Payments \cup {"none"}, hold : Int]]
    BY <1>1, <1>2
  <2> QED
    BY <1>1, <1>3, <2>1 DEF RailInv, RailTypeOK, RowKept
<1>5. AllCovered' /\ AllFit'
  BY <1>1, <1>2 DEF RailInv, AllCovered, Covered, AllFit, StatusFits, AtHold
<1>6. OneAtWork' /\ Counted'
  BY <1>1, <1>2, <1>3 DEF OneAtWork, AtHold, Counted, Orderly
<1> QED
  BY <1>4, <1>5, <1>6 DEF RailInv

(* Nothing is held at the start.                                           *)
LEMMA RailStarts == RailInit => RailInv
<1> SUFFICES ASSUME RailInit PROVE RailInv
  OBVIOUS
<1>1. /\ rail = [p \in Payments |-> "none"] /\ row = Opening /\ payment = [p \in Payments |-> "none"]
      /\ clerk = [w \in Clerks |-> Free] /\ outages = 0 /\ overlap = FALSE
      /\ calls = [p \in Payments |-> [auth |-> 0, clear |-> 0]]
  BY DEF RailInit
<1>2. /\ Free \in [op : {"free", "holding", "placing", "placed", "releasing"},
                    p : Payments \cup {"none"}, hold : Int]
      /\ Free.op = "free"
  BY DEF Free
<1>3. row \in [balance : Int, avail : Int, hold : Int, overdraft : Nat] /\ RowKept /\ row.hold = 0
  BY <1>1, RailConstants DEF RowKept, Funds, AvailableAgrees
<1>4. RailTypeOK
  <2>1. clerk \in [Clerks -> [op : {"free", "holding", "placing", "placed", "releasing"},
                              p : Payments \cup {"none"}, hold : Int]]
    BY <1>1, <1>2
  <2>2. calls \in [Payments -> [auth : 0..MaxCalls, clear : 0..MaxCalls]] /\ outages \in 0..MaxOutages
    BY <1>1, RailConstants
  <2> QED
    BY <1>1, <1>3, <2>1, <2>2 DEF RailTypeOK, PaymentStatuses
<1>5. AllCovered /\ AllFit /\ OneAtWork
  BY <1>1, <1>2 DEF AllCovered, Covered, AllFit, StatusFits, OneAtWork, AtHold
<1>6. Counted
  <2>1. PICK f : f = HeldAmounts
    OBVIOUS
  <2>2. \A p \in Payments : ~Held(p)
    BY <1>1, <1>2 DEF Held, At
  <2>3. IsFiniteSet(DOMAIN f) /\ \A p \in DOMAIN f : f[p] \in Nat /\ f[p] = 0
    BY <2>1, <2>2, HeldAmountsTyped
  <2>4. IntegerSum(f) = 0
    BY <2>3, SumOfNaturals
  <2> QED
    BY <1>3, <2>1, <2>4 DEF Counted
<1> QED
  BY <1>3, <1>4, <1>5, <1>6 DEF RailInv

(* Every step of Rails keeps its invariant.                                *)
LEMMA RailStep == RailInv /\ [RailNext]_railVars => RailInv'
<1> SUFFICES ASSUME RailInv, [RailNext]_railVars PROVE RailInv'
  OBVIOUS
<1>1. CASE UNCHANGED railVars
  <2>1. RailTypeOK' /\ RowKept' /\ AllCovered' /\ AllFit' /\ OneAtWork'
    BY <1>1 DEF railVars, RailInv, RailTypeOK, RowKept, AllCovered, Covered, AllFit, StatusFits, OneAtWork
  <2>2. (Orderly' => Orderly) /\ \A p \in Payments : Held(p)' = Held(p)
    BY <1>1 DEF railVars, Orderly, Regular, Held, At
  <2>3. Counted'
    BY <1>1, <2>2, HoldSame DEF railVars, RailInv
  <2> QED
    BY <2>1, <2>3 DEF RailInv
<1>2. ASSUME NEW w \in Clerks, ReadForHold(w) \/ WriteHold(w) \/ RecordHold(w) \/ ReleaseAndClear(w)
      PROVE  RailInv'
  BY <1>2, ReadKeeps, WriteKeeps, RecordKeeps, ReleaseKeeps
<1>3. ASSUME NEW w \in Clerks, NEW p \in Payments, StartHold(w, p) \/ StartClearing(w, p)
      PROVE  RailInv'
  BY <1>3, StartHoldKeeps, StartClearingKeeps
<1>4. CASE RailNext
  <2>1. ASSUME NEW p \in Payments, NEW by \in {"wire", "ach", "achIn", "rtp", "sepa"},
               NEW status \in {"PENDING_APPROVAL", "PENDING"}, Enters(p, by, status)
        PROVE  RailInv'
    BY <2>1, EntersKeeps
  <2>2. ASSUME NEW p \in Payments, NEW to \in PaymentStatuses, Moved(p, to) PROVE RailInv'
    BY <2>2, MovedKeeps
  <2> QED
    BY <1>1, <1>2, <1>3, <1>4, <2>1, <2>2, RailCases, DeclineKeeps, OutageKeeps
<1> QED
  BY <1>1, <1>4

(* The invariant gives the type and both parts of RailsSound.         *)
LEMMA RailImplied == RailInv => RailTypeOK /\ RailsSound
<1> SUFFICES ASSUME RailInv PROVE RailTypeOK /\ RailsSound
  OBVIOUS
<1>1. HoldWithinFunds
  BY DEF RailInv, RowKept, HoldWithinFunds, Funds
<1>2. ASSUME outages = 0, ~overlap, ~Busy,
             \A p \in Payments : /\ calls[p].auth < 2 /\ calls[p].clear < 2
                                 /\ rail[p] = "wire" => payment[p] # "COMPLETED"
                                 /\ payment[p] = "DECLINED" => calls[p].clear = 0,
             NEW g, g = [p \in Payments |->
                           IF payment[p] = "APPROVED" \/ (payment[p] = "AUTHORIZED" /\ calls[p].clear = 0)
                           THEN Amount[p] ELSE 0]
      PROVE  row.hold = SumOf(g)
  <2>1. \A p \in Payments : payment[p] = "COMPLETED" => rail[p] = "wire"
    BY DEF RailInv, AllFit, StatusFits
  <2>2. Orderly
    BY <1>2, <2>1 DEF Orderly, Regular
  <2>3. \A p \in Payments : ~At(p, {"releasing"}) /\ ~At(p, {"placed"})
    BY <1>2 DEF Busy, At
  <2>4. PICK f : f = HeldAmounts
    OBVIOUS
  <2>5. IsFiniteSet(DOMAIN f) /\ DOMAIN g = DOMAIN f /\ \A p \in DOMAIN f : g[p] = f[p]
    BY <1>2, <2>3, <2>4, RailConstants DEF HeldAmounts, Held
  <2>6. IntegerSum(g) = IntegerSum(f)
    BY <2>5, SumSame
  <2>7. SumOf(g) = IntegerSum(g)
    BY DEF SumOf, IntegerSum, FoldFunction
  <2> QED
    BY <2>2, <2>4, <2>6, <2>7 DEF RailInv, Counted
<1>3. HoldsAccounted
  BY <1>2, Zenon DEF HoldsAccounted
<1> QED
  BY <1>1, <1>3 DEF RailInv, RailsSound

-----------------------------------------------------------------------------
(* Cards and disputes.                                                     *)

CardOps == {"issue", "freeze", "unfreeze", "cancel"}
CardRows == {"none", "ACTIVE", "FROZEN"} \cup Closed
StripeStatuses == {"none", "active", "inactive", "canceled"}
Statuses == {"UNDER_REVIEW"} \cup DisputeMoves
DisputeRows == [status : {"none"} \cup Statuses, resolved : 0..MaxEvents]

(* What a window holds: a call of the card, an event, or evidence.         *)
CardCall(c) ==
  /\ DOMAIN c = {"op", "at", "move"} /\ c.move \in CardMoves /\ c.op = c.move.op
  /\ c.at \in {"stripe", "row"}
EventCall(c) ==
  /\ DOMAIN c = {"op", "n", "found"} /\ c.op = "event"
  /\ c.n \in DOMAIN events /\ c.found \in DisputeRows
EvidenceCall(c) == DOMAIN c = {"op", "at"} /\ c.op = "evidence" /\ c.at \in {"stripe", "row"}

CardTypes ==
  /\ card \in [row : CardRows, stripe : StripeStatuses] /\ dispute \in DisputeRows
  /\ events \in Seq(Statuses) /\ Len(events) <= MaxEvents /\ handled \subseteq DOMAIN events
  /\ window = [w \in Windows |-> window[w]]
  /\ \A w \in Windows : \/ window[w] = Unoccupied \/ CardCall(window[w])
                        \/ EventCall(window[w]) \/ EvidenceCall(window[w])
  /\ stopped \in BOOLEAN /\ mishaps \in 0..MaxMishaps /\ mixed \in BOOLEAN

Alike(held, told) ==
  \/ held = "ACTIVE" /\ told = "active"
  \/ held = "FROZEN" /\ told = "inactive"
  \/ held = "none" /\ told = "none"
  \/ held \in Closed /\ told = "canceled"

(* Calls that follow each other: one window is in use, its call stands on  *)
(* the row it has read, and Stripe has what the call has told it.          *)
OneWindow ==
  ~mixed => \A v, w \in Windows : window[v] # Unoccupied /\ window[w] # Unoccupied => v = w
CardFollows ==
  ~mixed =>
    /\ stopped => card.row \in Closed /\ card.stripe = "canceled"
    /\ \A w \in Windows : window[w] # Unoccupied /\ window[w].op \in CardOps =>
         /\ card.row \in window[w].move.from
         /\ window[w].at = "row" => card.stripe = window[w].move.stripe
    /\ mishaps = 0 /\ (\A w \in Windows : window[w] # Unoccupied /\ window[w].op \in CardOps => window[w].at = "stripe")
         => Alike(card.row, card.stripe)

(* Stripe says nothing else of a dispute that has ended.                   *)
EndedStays == \A i, j \in DOMAIN events : i < j /\ events[i] \in Concluded => events[j] = events[i]

HandledEnds == {n \in handled : events[n] \in Resolved}

(* Events handled in order and one at a time: the row has the status of    *)
(* the latest event once that is handled, and the date of the first one    *)
(* handled that ended the dispute.                                         *)
RowFollows ==
  ~mixed =>
    /\ Len(events) \in handled => dispute.status = events[Len(events)]
    /\ dispute.resolved = IF HandledEnds = {} THEN 0 ELSE Min(HandledEnds)
    /\ \A w \in Windows : window[w] # Unoccupied =>
         /\ window[w].op = "event" => window[w].found = dispute
         /\ window[w].op = "evidence" /\ window[w].at = "row" => Len(events) \notin handled

CardInv == CardTypes /\ OneWindow /\ CardFollows /\ EndedStays /\ RowFollows

-----------------------------------------------------------------------------
Occupied(c) == c # Unoccupied

(* Min, which FiniteSetsExt chooses, is the least element of a set of      *)
(* naturals that has one,                                                  *)
LEMMA SmallestOf ==
  ASSUME NEW S, S \subseteq Nat, NEW n \in S
  PROVE  Min(S) \in S /\ \A x \in S : Min(S) <= x
<1>1. \E x \in S : \A y \in S : x <= y
  <2>1. PICK R : R = OpToRel(<, Nat)
    OBVIOUS
  <2>2. PICK x \in S : \A y \in S : <<y, x>> \notin R
    BY <2>1, NatLessThanWellFounded, WFMin
  <2>3. \A y \in S : <<y, x>> \in R <=> y < x
    BY <2>1 DEF OpToRel
  <2>4. ASSUME NEW y \in S PROVE x <= y
    <3>1. ~(y < x)
      BY <2>2, <2>3
    <3>2. x \in Nat /\ y \in Nat
      OBVIOUS
    <3> QED
      BY <3>1, <3>2
  <2> QED
    BY <2>4
<1> QED
  BY <1>1 DEF Min

(* and an element below all the others is Min.                             *)
LEMMA MinIs ==
  ASSUME NEW S, S \subseteq Nat, NEW n \in S, \A x \in S : n <= x
  PROVE  Min(S) = n
<1>1. Min(S) \in S /\ Min(S) <= n
  BY SmallestOf
<1>2. n <= Min(S) /\ n \in Nat /\ Min(S) \in Nat
  BY <1>1
<1> QED
  BY <1>1, <1>2

(* What the four calls of a card tell Stripe and write belongs together.   *)
LEMMA MovesKnown ==
  ASSUME NEW m \in CardMoves
  PROVE  /\ m.op \in CardOps /\ m.row \in CardRows /\ m.stripe \in StripeStatuses
         /\ Alike(m.row, m.stripe)
         /\ m.op = "cancel" => m.row \in Closed /\ m.stripe = "canceled"
         /\ \A s \in Closed : s \in m.from => m.op = "cancel"
         /\ m.op = "issue" => m.from = {"none"}
BY DEF CardMoves, Move, CardOps, CardRows, Closed, StripeStatuses, Alike

(* The name of an operation tells what a window holds.                     *)
LEMMA Kinds ==
  ASSUME CardTypes, NEW w \in Windows
  PROVE  /\ window[w].op \in CardOps => CardCall(window[w])
         /\ window[w].op = "event" => EventCall(window[w])
         /\ window[w].op = "evidence" => EvidenceCall(window[w])
         /\ Occupied(window[w]) <=> window[w].op \in CardOps \cup {"event", "evidence"}
<1>1. Unoccupied.op = "free"
  BY DEF Unoccupied
<1>2. CardCall(window[w]) => window[w].op \in CardOps
  BY MovesKnown DEF CardCall
<1> QED
  BY <1>1, <1>2 DEF CardTypes, EventCall, EvidenceCall, CardOps, Occupied

(* One window changes, or none.                                            *)
LEMMA WindowsTyped ==
  ASSUME CardTypes, NEW w \in Windows, NEW c, window' = [window EXCEPT ![w] = c],
         DOMAIN events \subseteq DOMAIN events',
         c = Unoccupied \/ CardCall(c) \/ EventCall(c)' \/ EvidenceCall(c)
  PROVE  /\ window' = [x \in Windows |-> window'[x]]
         /\ \A x \in Windows : \/ window'[x] = Unoccupied \/ CardCall(window'[x])
                               \/ EventCall(window[x])' \/ EvidenceCall(window'[x])
         /\ window'[w] = c /\ \A x \in Windows : x # w => window'[x] = window[x]
<1>1. w \in DOMAIN window /\ DOMAIN window = Windows
  BY DEF CardTypes
<1>2. /\ window' = [x \in Windows |-> window'[x]]
      /\ window'[w] = c /\ \A x \in Windows : x # w => window'[x] = window[x]
  BY <1>1
<1>3. ASSUME NEW x \in Windows
      PROVE  \/ window'[x] = Unoccupied \/ CardCall(window'[x])
             \/ EventCall(window[x])' \/ EvidenceCall(window'[x])
  <2>1. CASE x = w
    <3>1. window'[x] = c
      BY <1>2, <2>1
    <3>2. EventCall(c)' => EventCall(window[x])'
      BY <3>1 DEF EventCall
    <3> QED
      BY <3>1, <3>2
  <2>2. CASE x # w
    <3>1. window'[x] = window[x]
      BY <1>2, <2>2
    <3>2. EventCall(window[x]) => EventCall(window[x])'
      BY <3>1 DEF EventCall
    <3> QED
      BY <3>1, <3>2 DEF CardTypes
  <2> QED
    BY <2>1, <2>2
<1> QED
  BY <1>2, <1>3

(* A call that enters is the only one unless calls have been mixed,        *)
LEMMA EnterOne ==
  ASSUME CardInv, NEW w \in Windows, NEW c, Enter(w, c), c # Unoccupied
  PROVE  /\ window' = [window EXCEPT ![w] = c] /\ window'[w] = c
         /\ \A x \in Windows : x # w => window'[x] = window[x]
         /\ mixed' \in BOOLEAN /\ OneWindow'
         /\ ~mixed' => ~mixed /\ \A x \in Windows : window[x] = Unoccupied
<1>1. /\ window' = [window EXCEPT ![w] = c] /\ mixed' = (mixed \/ ~Quiet)
  BY DEF Enter
<1>2. window'[w] = c /\ \A x \in Windows : x # w => window'[x] = window[x]
  BY <1>1 DEF CardInv, CardTypes
<1>3. mixed' \in BOOLEAN /\ (~mixed' => ~mixed /\ \A x \in Windows : window[x] = Unoccupied)
  BY <1>1 DEF Quiet, CardInv, CardTypes
<1>4. OneWindow'
  BY <1>2, <1>3 DEF OneWindow
<1> QED
  BY <1>1, <1>2, <1>3, <1>4

(* and none is left when it leaves.                                        *)
LEMMA LeaveOne ==
  ASSUME CardInv, NEW w \in Windows, Leave(w), mixed => mixed'
  PROVE  /\ window' = [window EXCEPT ![w] = Unoccupied] /\ window'[w] = Unoccupied
         /\ \A x \in Windows : x # w => window'[x] = window[x]
         /\ OneWindow'
         /\ ~mixed /\ window[w] # Unoccupied => \A x \in Windows : window'[x] = Unoccupied
<1>1. window' = [window EXCEPT ![w] = Unoccupied]
  BY DEF Leave
<1>2. window'[w] = Unoccupied /\ \A x \in Windows : x # w => window'[x] = window[x]
  BY <1>1 DEF CardInv, CardTypes
<1>3. OneWindow'
  BY <1>2 DEF CardInv, OneWindow
<1>4. ~mixed /\ window[w] # Unoccupied => \A x \in Windows : window'[x] = Unoccupied
  BY <1>2 DEF CardInv, OneWindow
<1> QED
  BY <1>1, <1>2, <1>3, <1>4

(* A step of a dispute leaves the card alone, and the other way round.     *)
LEMMA CardFrame ==
  ASSUME CardInv, UNCHANGED <<card, stopped>>, mixed => mixed',
         \A x \in Windows :
           (window[x] # Unoccupied /\ window[x].op \in CardOps) \/ (window'[x] # Unoccupied /\ window'[x].op \in CardOps)
             => window'[x] = window[x],
         mishaps' = 0 => mishaps = 0
  PROVE  CardFollows'
BY DEF CardInv, CardFollows

(* A call of the card leaves what is said of the dispute alone.            *)
LEMMA RowFrame ==
  ASSUME CardInv, UNCHANGED <<dispute, events, handled>>, mixed => mixed',
         \A x \in Windows : window'[x] # Unoccupied /\ window'[x].op \notin CardOps => window'[x] = window[x]
  PROVE  EndedStays' /\ RowFollows'
<1>1. EndedStays'
  BY DEF CardInv, EndedStays
<1>2. HandledEnds' = HandledEnds
  BY DEF HandledEnds
<1>3. "event" \notin CardOps /\ "evidence" \notin CardOps
  BY DEF CardOps
<1> QED
  BY <1>1, <1>2, <1>3 DEF CardInv, RowFollows

-----------------------------------------------------------------------------
(* A call of the card.                                                     *)
LEMMA ReadCardKeeps == ASSUME CardInv, NEW w \in Windows, ReadCard(w) PROVE CardInv'
<1>0. PICK move \in CardMoves :
        /\ card.row \in move.from /\ (move.op = "issue" => card.stripe = "none" /\ Quiet)
        /\ Enter(w, [op |-> move.op, at |-> "stripe", move |-> move])
        /\ UNCHANGED <<card, dispute, events, handled, stopped, mishaps>>
  BY DEF ReadCard
<1>1. PICK c :
        /\ c = [op |-> move.op, at |-> "stripe", move |-> move] /\ card.row \in move.from
        /\ Enter(w, c) /\ UNCHANGED <<card, dispute, events, handled, stopped, mishaps>>
        /\ move.op = "issue" => card.stripe = "none" /\ Quiet
  BY <1>0
<1>2. CardCall(c) /\ c.op \in CardOps /\ c # Unoccupied /\ c.at = "stripe" /\ c.move = move
  BY <1>1, MovesKnown DEF CardCall, CardOps, Unoccupied
<1>3. /\ window' = [window EXCEPT ![w] = c] /\ window'[w] = c
      /\ \A x \in Windows : x # w => window'[x] = window[x]
      /\ mixed' \in BOOLEAN /\ OneWindow'
      /\ ~mixed' => ~mixed /\ \A x \in Windows : window[x] = Unoccupied
  BY <1>1, <1>2, EnterOne
<1>4. CardTypes'
  BY <1>1, <1>2, <1>3, WindowsTyped DEF CardInv, CardTypes, EventCall
<1>5. CardFollows'
  <2> SUFFICES ASSUME ~mixed' PROVE CardFollows'
    BY DEF CardFollows
  <2>1. ~mixed /\ \A x \in Windows : window[x] = Unoccupied /\ (x # w => window'[x] = Unoccupied)
    BY <1>3
  <2>2. mishaps = 0 => Alike(card.row, card.stripe)
    BY <2>1 DEF CardInv, CardFollows
  <2> QED
    BY <1>1, <1>2, <1>3, <2>1, <2>2 DEF CardInv, CardFollows
<1>6. EndedStays' /\ RowFollows'
  BY <1>1, <1>2, <1>3, RowFrame
<1> QED
  BY <1>3, <1>4, <1>5, <1>6 DEF CardInv

(* A call tells Stripe,                                                    *)
LEMMA CallStripeKeeps == ASSUME CardInv, NEW w \in Windows, CallStripe(w) PROVE CardInv'
<1>1. PICK c, m : c = [window[w] EXCEPT !.at = "row"] /\ m = window[w].move
  OBVIOUS
<1>2. /\ window[w].op \in CardOps /\ window[w].at = "stripe"
      /\ card' = [card EXCEPT !.stripe = m.stripe] /\ window' = [window EXCEPT ![w] = c]
      /\ UNCHANGED <<dispute, events, handled, stopped, mishaps, mixed>>
  BY <1>1 DEF CallStripe, CardOps
<1>3. CardCall(window[w]) /\ window[w] # Unoccupied
  BY <1>2, Kinds DEF CardInv, Occupied
<1>4. CardCall(c) /\ c.op \in CardOps /\ c.op = m.op /\ c.at = "row" /\ c.move = m /\ m \in CardMoves
  BY <1>1, <1>2, <1>3 DEF CardCall
<1>5. c # Unoccupied
  BY <1>4 DEF Unoccupied, CardOps
<1>6. /\ window' = [x \in Windows |-> window'[x]]
      /\ \A x \in Windows : \/ window'[x] = Unoccupied \/ CardCall(window'[x])
                            \/ EventCall(window[x])' \/ EvidenceCall(window'[x])
      /\ window'[w] = c /\ \A x \in Windows : x # w => window'[x] = window[x]
  BY <1>2, <1>4, WindowsTyped DEF CardInv
<1>7. card' \in [row : CardRows, stripe : StripeStatuses] /\ card'.row = card.row /\ card'.stripe = m.stripe
  BY <1>2, <1>4, MovesKnown DEF CardInv, CardTypes
<1>8. CardTypes'
  BY <1>2, <1>6, <1>7 DEF CardInv, CardTypes, EventCall
<1>9. OneWindow'
  BY <1>2, <1>3, <1>6 DEF CardInv, OneWindow
<1>10. CardFollows'
  <2> SUFFICES ASSUME ~mixed PROVE CardFollows'
    BY <1>2 DEF CardFollows
  <2>1. \A x \in Windows : x # w => window'[x] = Unoccupied
    BY <1>3, <1>6 DEF CardInv, OneWindow
  <2>2. card.row \in m.from
    BY <1>1, <1>2, <1>3 DEF CardInv, CardFollows
  <2>3. stopped' => card'.row \in Closed /\ card'.stripe = "canceled"
    BY <1>2, <1>4, <1>7, <2>2, MovesKnown DEF CardInv, CardFollows
  <2> QED
    BY <1>4, <1>5, <1>6, <1>7, <2>1, <2>2, <2>3 DEF CardFollows
<1>11. EndedStays' /\ RowFollows'
  BY <1>2, <1>4, <1>6, RowFrame
<1> QED
  BY <1>8, <1>9, <1>10, <1>11 DEF CardInv

(* writes the row,                                                         *)
LEMMA WriteCardKeeps == ASSUME CardInv, NEW w \in Windows, WriteCard(w) PROVE CardInv'
<1>1. PICK m : m = window[w].move
  OBVIOUS
<1>2. /\ window[w].op \in CardOps /\ window[w].at = "row" /\ Leave(w)
      /\ card' = [card EXCEPT !.row = m.row] /\ stopped' = (stopped \/ window[w].op = "cancel")
      /\ UNCHANGED <<dispute, events, handled, mishaps, mixed>>
  BY <1>1 DEF WriteCard, CardOps
<1>3. CardCall(window[w]) /\ window[w] # Unoccupied /\ m \in CardMoves /\ window[w].op = m.op
  BY <1>1, <1>2, Kinds DEF CardInv, Occupied, CardCall
<1>4. /\ window' = [window EXCEPT ![w] = Unoccupied] /\ window'[w] = Unoccupied
      /\ \A x \in Windows : x # w => window'[x] = window[x]
      /\ OneWindow'
      /\ ~mixed => \A x \in Windows : window'[x] = Unoccupied
  BY <1>2, <1>3, LeaveOne
<1>5. card' \in [row : CardRows, stripe : StripeStatuses] /\ card'.row = m.row /\ card'.stripe = card.stripe
  BY <1>2, <1>3, MovesKnown DEF CardInv, CardTypes
<1>6. CardTypes'
  BY <1>2, <1>4, <1>5, WindowsTyped DEF CardInv, CardTypes, EventCall
<1>7. CardFollows'
  <2> SUFFICES ASSUME ~mixed PROVE CardFollows'
    BY <1>2 DEF CardFollows
  <2>1. card.row \in m.from /\ card.stripe = m.stripe
    BY <1>1, <1>2, <1>3 DEF CardInv, CardFollows
  <2>2. stopped' => m.op = "cancel"
    BY <1>2, <1>3, <2>1, MovesKnown DEF CardInv, CardFollows
  <2>3. Alike(card'.row, card'.stripe) /\ (stopped' => card'.row \in Closed /\ card'.stripe = "canceled")
    BY <1>3, <1>5, <2>1, <2>2, MovesKnown
  <2> QED
    BY <1>4, <2>3 DEF CardFollows
<1>8. EndedStays' /\ RowFollows'
  BY <1>2, <1>4, RowFrame
<1> QED
  BY <1>4, <1>6, <1>7, <1>8 DEF CardInv

(* or fails where it stands, as the handling of an event may.              *)
LEMMA FailKeeps == ASSUME CardInv, NEW w \in Windows, Fail(w) PROVE CardInv'
<1>1. /\ window[w] # Unoccupied /\ mishaps < MaxMishaps /\ mishaps' = mishaps + 1 /\ Leave(w)
      /\ UNCHANGED <<card, dispute, events, handled, stopped, mixed>>
  BY DEF Fail
<1>2. /\ window' = [window EXCEPT ![w] = Unoccupied] /\ window'[w] = Unoccupied
      /\ \A x \in Windows : x # w => window'[x] = window[x]
      /\ OneWindow'
      /\ ~mixed => \A x \in Windows : window'[x] = Unoccupied
  BY <1>1, LeaveOne
<1>3. mishaps' \in 0..MaxMishaps /\ mishaps' # 0
  BY <1>1, CardConstants DEF CardInv, CardTypes
<1>4. CardTypes'
  BY <1>1, <1>2, <1>3, WindowsTyped DEF CardInv, CardTypes, EventCall
<1>5. CardFollows'
  BY <1>1, <1>2, <1>3 DEF CardInv, CardFollows
<1>6. EndedStays' /\ RowFollows'
  BY <1>1, <1>2, RowFrame
<1> QED
  BY <1>2, <1>4, <1>5, <1>6 DEF CardInv

-----------------------------------------------------------------------------
(* Stripe sends one event more.                                            *)
LEMMA SentEvent ==
  ASSUME CardInv, NEW status \in Statuses, Send(status),
         events # <<>> /\ events[Len(events)] \in Concluded => status = events[Len(events)]
  PROVE  /\ events' \in Seq(Statuses) /\ Len(events') <= MaxEvents
         /\ DOMAIN events \subseteq DOMAIN events' /\ Len(events') \notin handled
         /\ \A n \in handled : n \in DOMAIN events /\ events'[n] = events[n]
         /\ EndedStays'
<1>1. /\ events \in Seq(Statuses) /\ handled \subseteq DOMAIN events /\ EndedStays
      /\ Len(events) < MaxEvents /\ events' = Append(events, status)
  BY DEF CardInv, CardTypes, Send
<1>2. PICK n : n = Len(events)
  OBVIOUS
<1>3. /\ n \in Nat /\ DOMAIN events = 1..n /\ (events # <<>> <=> n # 0)
      /\ events' \in Seq(Statuses) /\ Len(events') = n + 1 /\ DOMAIN events' = 1..n + 1
      /\ events'[n + 1] = status /\ \A i \in 1..n : events'[i] = events[i]
  BY <1>1, <1>2
<1>4. Len(events') <= MaxEvents
  BY <1>1, <1>2, <1>3, CardConstants
<1>5. EndedStays'
  <2> SUFFICES ASSUME NEW i \in 1..n + 1, NEW j \in 1..n + 1, i < j, events'[i] \in Concluded
               PROVE  events'[j] = events'[i]
    BY <1>3 DEF EndedStays
  <2>1. i \in 1..n /\ events'[i] = events[i] /\ events[i] \in Concluded
    BY <1>3
  <2>2. CASE j \in 1..n
    BY <1>1, <1>3, <2>1, <2>2 DEF EndedStays
  <2>3. CASE j = n + 1
    <3>1. events[n] = events[i]
      BY <1>1, <1>3, <2>1 DEF EndedStays
    <3>2. n # 0
      BY <1>3, <2>1
    <3> QED
      BY <1>2, <1>3, <2>1, <2>3, <3>1, <3>2
  <2> QED
    BY <1>3, <2>2, <2>3
<1> QED
  BY <1>1, <1>3, <1>4, <1>5

(* Stripe moves the dispute, which nobody has handled yet.                 *)
LEMMA StripeMovesKeeps ==
  ASSUME CardInv, NEW status \in DisputeMoves, StripeMoves(status) PROVE CardInv'
<1>1. /\ Send(status) /\ status \in Statuses
      /\ events # <<>> /\ events[Len(events)] \in Concluded => status = events[Len(events)]
      /\ UNCHANGED <<card, dispute, window, handled, stopped, mishaps, mixed>>
  BY DEF StripeMoves, Statuses
<1>2. /\ events' \in Seq(Statuses) /\ Len(events') <= MaxEvents
      /\ DOMAIN events \subseteq DOMAIN events' /\ Len(events') \notin handled
      /\ \A n \in handled : n \in DOMAIN events /\ events'[n] = events[n]
      /\ EndedStays'
  BY <1>1, SentEvent
<1>3. CardTypes'
  BY <1>1, <1>2 DEF CardInv, CardTypes, EventCall
<1>4. OneWindow' /\ CardFollows'
  BY <1>1 DEF CardInv, OneWindow, CardFollows
<1>5. RowFollows'
  <2>1. HandledEnds' = HandledEnds
    BY <1>1, <1>2 DEF HandledEnds
  <2> QED
    BY <1>1, <1>2, <2>1 DEF CardInv, RowFollows
<1> QED
  BY <1>2, <1>3, <1>4, <1>5 DEF CardInv

(* An event finds the row,                                                 *)
LEMMA FindDisputeKeeps ==
  ASSUME CardInv, NEW w \in Windows, NEW n \in DOMAIN events, FindDispute(w, n) PROVE CardInv'
<1>1. PICK c : c = [op |-> "event", n |-> n, found |-> dispute]
  OBVIOUS
<1>2. Enter(w, c) /\ UNCHANGED <<card, dispute, events, handled, stopped, mishaps>>
  BY <1>1 DEF FindDispute
<1>3. EventCall(c)' /\ c.op = "event" /\ c.op \notin CardOps /\ c.found = dispute /\ c # Unoccupied
  BY <1>1, <1>2 DEF EventCall, CardOps, Unoccupied, CardInv, CardTypes
<1>4. /\ window' = [window EXCEPT ![w] = c] /\ window'[w] = c
      /\ \A x \in Windows : x # w => window'[x] = window[x]
      /\ mixed' \in BOOLEAN /\ OneWindow'
      /\ ~mixed' => ~mixed /\ \A x \in Windows : window[x] = Unoccupied
  BY <1>2, <1>3, EnterOne
<1>5. CardTypes'
  BY <1>2, <1>3, <1>4, WindowsTyped DEF CardInv, CardTypes, EventCall
<1>6. CardFollows'
  <2>1. window[w] = Unoccupied
    BY <1>2 DEF Enter
  <2> QED
    BY <1>2, <1>3, <1>4, <2>1, CardFrame
<1>7. EndedStays'
  BY <1>2 DEF CardInv, EndedStays
<1>8. RowFollows'
  <2> SUFFICES ASSUME ~mixed' PROVE RowFollows'
    BY DEF RowFollows
  <2>1. HandledEnds' = HandledEnds
    BY <1>2 DEF HandledEnds
  <2>2. c.op # "evidence"
    BY <1>3
  <2> QED
    BY <1>2, <1>3, <1>4, <2>1, <2>2 DEF CardInv, RowFollows
<1> QED
  BY <1>4, <1>5, <1>6, <1>7, <1>8 DEF CardInv

(* Evidence is read for, sent and written.                                 *)
LEMMA EvidenceKeeps ==
  ASSUME CardInv, NEW w \in Windows, ReadForEvidence(w) \/ SendEvidence(w) \/ WriteEvidence(w)
  PROVE  CardInv'
<1>1. CASE ReadForEvidence(w)
  <2>1. PICK c : c = [op |-> "evidence", at |-> "stripe"]
    OBVIOUS
  <2>2. Enter(w, c) /\ UNCHANGED <<card, dispute, events, handled, stopped, mishaps>>
    BY <1>1, <2>1 DEF ReadForEvidence
  <2>3. EvidenceCall(c) /\ c.op = "evidence" /\ c.op \notin CardOps /\ c.at = "stripe" /\ c # Unoccupied
    BY <2>1 DEF EvidenceCall, CardOps, Unoccupied
  <2>4. /\ window' = [window EXCEPT ![w] = c] /\ window'[w] = c
        /\ \A x \in Windows : x # w => window'[x] = window[x]
        /\ mixed' \in BOOLEAN /\ OneWindow'
        /\ ~mixed' => ~mixed /\ \A x \in Windows : window[x] = Unoccupied
    BY <2>2, <2>3, EnterOne
  <2>5. CardTypes'
    BY <2>2, <2>3, <2>4, WindowsTyped DEF CardInv, CardTypes, EventCall
  <2>6. CardFollows'
    <3>1. window[w] = Unoccupied
      BY <2>2 DEF Enter
    <3> QED
      BY <2>2, <2>3, <2>4, <3>1, CardFrame
  <2>7. EndedStays'
    BY <2>2 DEF CardInv, EndedStays
  <2>8. RowFollows'
    <3> SUFFICES ASSUME ~mixed' PROVE RowFollows'
      BY DEF RowFollows
    <3>1. HandledEnds' = HandledEnds
      BY <2>2 DEF HandledEnds
    <3> QED
      BY <2>2, <2>3, <2>4, <3>1 DEF CardInv, RowFollows
  <2> QED
    BY <2>4, <2>5, <2>6, <2>7, <2>8 DEF CardInv
<1>2. CASE SendEvidence(w)
  <2>1. PICK c : c = [window[w] EXCEPT !.at = "row"]
    OBVIOUS
  <2>2. /\ window[w].op = "evidence" /\ window[w].at = "stripe" /\ events[Len(events)] \notin Concluded
        /\ Send("UNDER_REVIEW") /\ window' = [window EXCEPT ![w] = c]
        /\ UNCHANGED <<card, dispute, handled, stopped, mishaps, mixed>>
    BY <1>2, <2>1 DEF SendEvidence
  <2>3. EvidenceCall(window[w]) /\ window[w] # Unoccupied
    BY <2>2, Kinds DEF CardInv, Occupied
  <2>4. EvidenceCall(c) /\ c.op = "evidence" /\ c.at = "row" /\ c.op \notin CardOps /\ c # Unoccupied
    BY <2>1, <2>3 DEF EvidenceCall, CardOps, Unoccupied
  <2>5. /\ events' \in Seq(Statuses) /\ Len(events') <= MaxEvents
        /\ DOMAIN events \subseteq DOMAIN events' /\ Len(events') \notin handled
        /\ \A n \in handled : n \in DOMAIN events /\ events'[n] = events[n]
        /\ EndedStays'
    BY <2>2, SentEvent DEF Statuses
  <2>6. /\ window' = [x \in Windows |-> window'[x]]
        /\ \A x \in Windows : \/ window'[x] = Unoccupied \/ CardCall(window'[x])
                              \/ EventCall(window[x])' \/ EvidenceCall(window'[x])
        /\ window'[w] = c /\ \A x \in Windows : x # w => window'[x] = window[x]
    BY <2>2, <2>4, <2>5, WindowsTyped DEF CardInv
  <2>7. CardTypes'
    BY <2>2, <2>5, <2>6 DEF CardInv, CardTypes, EventCall
  <2>8. OneWindow'
    BY <2>2, <2>3, <2>6 DEF CardInv, OneWindow
  <2>9. CardFollows'
    <3>1. window[w].op \notin CardOps
      BY <2>2 DEF CardOps
    <3> QED
      BY <2>2, <2>4, <2>6, <3>1, CardFrame
  <2>10. RowFollows'
    <3> SUFFICES ASSUME ~mixed PROVE RowFollows'
      BY <2>2 DEF RowFollows
    <3>1. HandledEnds' = HandledEnds
      BY <2>2, <2>5 DEF HandledEnds
    <3>2. \A x \in Windows : x # w => window'[x] = Unoccupied
      BY <2>3, <2>6 DEF CardInv, OneWindow
    <3> QED
      BY <2>2, <2>4, <2>5, <2>6, <3>1, <3>2 DEF CardInv, RowFollows
  <2> QED
    BY <2>5, <2>7, <2>8, <2>9, <2>10 DEF CardInv
<1>3. CASE WriteEvidence(w)
  <2>1. /\ window[w].op = "evidence" /\ window[w].at = "row" /\ Leave(w)
        /\ dispute' = [dispute EXCEPT !.status = "UNDER_REVIEW"]
        /\ UNCHANGED <<card, events, handled, stopped, mishaps, mixed>>
    BY <1>3 DEF WriteEvidence
  <2>2. window[w] # Unoccupied /\ window[w].op \notin CardOps
    BY <2>1, Kinds DEF CardInv, Occupied, CardOps
  <2>3. /\ window' = [window EXCEPT ![w] = Unoccupied] /\ window'[w] = Unoccupied
        /\ \A x \in Windows : x # w => window'[x] = window[x]
        /\ OneWindow'
        /\ ~mixed => \A x \in Windows : window'[x] = Unoccupied
    BY <2>1, <2>2, LeaveOne
  <2>4. dispute' \in DisputeRows /\ dispute'.resolved = dispute.resolved
    BY <2>1 DEF CardInv, CardTypes, DisputeRows, Statuses
  <2>5. CardTypes'
    BY <2>1, <2>3, <2>4, WindowsTyped DEF CardInv, CardTypes, EventCall
  <2>6. CardFollows'
    BY <2>1, <2>2, <2>3, CardFrame
  <2>7. EndedStays'
    BY <2>1 DEF CardInv, EndedStays
  <2>8. RowFollows'
    <3> SUFFICES ASSUME ~mixed PROVE RowFollows'
      BY <2>1 DEF RowFollows
    <3>1. HandledEnds' = HandledEnds
      BY <2>1 DEF HandledEnds
    <3>2. Len(events) \notin handled
      BY <2>1, <2>2 DEF CardInv, RowFollows
    <3> QED
      BY <2>1, <2>3, <2>4, <3>1, <3>2 DEF CardInv, RowFollows
  <2> QED
    BY <2>3, <2>5, <2>6, <2>7, <2>8 DEF CardInv
<1> QED
  BY <1>1, <1>2, <1>3

(* The handler of an event writes the row.                                 *)
LEMMA UpsertKeeps == ASSUME CardInv, NEW w \in Windows, UpsertDispute(w) PROVE CardInv'
<1>1. PICK n, found : n = window[w].n /\ found = window[w].found
  OBVIOUS
<1>2. PICK refused \in BOOLEAN : refused = (found.status = "none" /\ dispute.status # "none")
  OBVIOUS
<1>3. /\ window[w].op = "event" /\ Leave(w)
      /\ dispute' = IF refused THEN dispute ELSE Upserted(n, found)
      /\ handled' = IF refused THEN handled ELSE handled \cup {n}
      /\ mixed' = (mixed \/ \E later \in handled : later > n)
      /\ UNCHANGED <<card, events, stopped, mishaps>>
  BY <1>1, <1>2 DEF UpsertDispute
<1>4. /\ window[w] # Unoccupied /\ window[w].op \notin CardOps /\ n \in DOMAIN events
      /\ found \in DisputeRows
  BY <1>1, <1>3, Kinds DEF CardInv, Occupied, CardOps, EventCall
<1>5. /\ window' = [window EXCEPT ![w] = Unoccupied] /\ window'[w] = Unoccupied
      /\ \A x \in Windows : x # w => window'[x] = window[x]
      /\ OneWindow'
      /\ ~mixed => \A x \in Windows : window'[x] = Unoccupied
  BY <1>3, <1>4, LeaveOne
<1>6. /\ n \in Nat \ {0} /\ n <= MaxEvents /\ events[n] \in Statuses
      /\ DOMAIN events = 1..Len(events) /\ Len(events) \in Nat
  BY <1>4, CardConstants DEF CardInv, CardTypes
<1>7. CardTypes'
  <2>1. Upserted(n, found) \in DisputeRows
    <3>1. found.resolved \in 0..MaxEvents /\ MaxEvents \in Nat
      BY <1>4, CardConstants DEF DisputeRows
    <3>2. n \in 0..MaxEvents /\ 0 \in 0..MaxEvents
      BY <1>6, <3>1
    <3> QED
      BY <1>6, <3>1, <3>2 DEF Upserted, DisputeRows
  <2>2. dispute' \in DisputeRows /\ handled' \subseteq DOMAIN events' /\ mixed' \in BOOLEAN
    BY <1>3, <1>4, <2>1 DEF CardInv, CardTypes
  <2> QED
    BY <1>3, <1>5, <2>2, WindowsTyped DEF CardInv, CardTypes, EventCall
<1>8. CardFollows'
  BY <1>3, <1>4, <1>5, CardFrame
<1>9. EndedStays'
  BY <1>3 DEF CardInv, EndedStays
<1>10. RowFollows'
  <2> SUFFICES ASSUME ~mixed' PROVE RowFollows'
    BY DEF RowFollows
  <2>1. ~mixed /\ \A k \in handled : k \in Nat \ {0} /\ k <= n
    <3>1. ~mixed /\ \A k \in handled : ~(k > n)
      BY <1>3
    <3>2. \A k \in handled : k \in Nat \ {0}
      BY <1>6 DEF CardInv, CardTypes
    <3> QED
      BY <1>6, <3>1, <3>2
  <2>2. found = dispute /\ ~refused
    BY <1>1, <1>2, <1>3, <1>4, <2>1 DEF CardInv, RowFollows
  <2>3. /\ dispute'.status = events[n] /\ handled' = handled \cup {n}
        /\ dispute'.resolved = IF events[n] \notin Resolved THEN 0
                               ELSE IF dispute.resolved # 0 THEN dispute.resolved ELSE n
    BY <1>3, <2>2 DEF Upserted
  <2>4. Len(events) \in handled' => dispute'.status = events[Len(events)]
    <3>1. Len(events) \in handled' => Len(events) = n
      BY <1>4, <1>6, <2>1, <2>3
    <3> QED
      BY <2>3, <3>1
  <2>5. PICK R, Q : R = HandledEnds /\ Q = HandledEnds'
    OBVIOUS
  <2>6. /\ Q = IF events[n] \in Resolved THEN R \cup {n} ELSE R
        /\ R \subseteq Nat \ {0} /\ \A k \in R : k <= n
    BY <1>3, <2>1, <2>3, <2>5 DEF HandledEnds
  <2>7. dispute.resolved = IF R = {} THEN 0 ELSE Min(R)
    BY <2>1, <2>5 DEF CardInv, RowFollows
  <2>8. R # {} => events[n] \in Resolved
    <3>1. ASSUME NEW k \in R PROVE events[n] \in Resolved
      <4>1. k \in DOMAIN events /\ events[k] \in Resolved /\ events[k] \in Concluded
        BY <2>5, <3>1 DEF HandledEnds, CardInv, CardTypes, Concluded
      <4>2. k < n \/ k = n
        BY <1>6, <2>6, <3>1
      <4> QED
        BY <1>4, <4>1, <4>2 DEF CardInv, EndedStays
    <3> QED
      BY <3>1
  <2>9. dispute'.resolved = IF Q = {} THEN 0 ELSE Min(Q)
    <3>1. CASE events[n] \notin Resolved
      BY <2>3, <2>6, <2>8, <3>1
    <3>2. CASE events[n] \in Resolved /\ R = {}
      <4>1. Q = {n} /\ Min({n}) = n
        BY <1>6, <2>6, <3>2, MinIs
      <4> QED
        BY <2>3, <2>7, <3>2, <4>1
    <3>3. CASE events[n] \in Resolved /\ R # {}
      <4>1. PICK m : m = Min(R)
        OBVIOUS
      <4>2. m \in R /\ \A k \in R : m <= k
        BY <2>6, <3>3, <4>1, SmallestOf
      <4>3. Q = R \cup {n} /\ m <= n /\ m \in Nat \ {0}
        BY <2>6, <3>3, <4>2
      <4>4. m \in Q /\ Q \subseteq Nat /\ \A k \in Q : m <= k
        BY <1>6, <2>6, <4>2, <4>3
      <4>5. Min(Q) = m
        BY <4>4, MinIs
      <4> QED
        BY <2>3, <2>7, <3>3, <4>1, <4>3, <4>4, <4>5
    <3> QED
      BY <3>1, <3>2, <3>3
  <2> QED
    BY <1>3, <1>5, <2>1, <2>4, <2>5, <2>9 DEF RowFollows
<1> QED
  BY <1>5, <1>7, <1>8, <1>9, <1>10 DEF CardInv

(* There is no card and no dispute at the start.                           *)
LEMMA CardStarts == CardInit => CardInv
<1> SUFFICES ASSUME CardInit PROVE CardInv
  OBVIOUS
<1>1. PICK q : q = <<>>
  OBVIOUS
<1>2. /\ card = [row |-> "none", stripe |-> "none"] /\ dispute = [status |-> "none", resolved |-> 0]
      /\ events = q /\ window = [w \in Windows |-> Unoccupied] /\ handled = {} /\ stopped = FALSE
      /\ mishaps = 0 /\ mixed = FALSE
  BY <1>1 DEF CardInit
<1>3. q \in Seq(Statuses) /\ Len(q) = 0 /\ DOMAIN q = {}
  BY <1>1
<1>4. CardTypes
  <2>1. card \in [row : CardRows, stripe : StripeStatuses]
    BY <1>2 DEF CardRows, StripeStatuses
  <2>2. dispute \in DisputeRows
    <3>1. 0 \in 0..MaxEvents
      BY CardConstants
    <3> QED
      BY <1>2, <3>1 DEF DisputeRows
  <2>3. events \in Seq(Statuses) /\ Len(events) <= MaxEvents /\ handled \subseteq DOMAIN events
    BY <1>2, <1>3, CardConstants
  <2>4. /\ window = [w \in Windows |-> window[w]]
        /\ \A w \in Windows : window[w] = Unoccupied
    BY <1>2
  <2>5. stopped \in BOOLEAN /\ mishaps \in 0..MaxMishaps /\ mixed \in BOOLEAN
    <3>1. stopped \in BOOLEAN /\ mixed \in BOOLEAN
      BY <1>2
    <3>2. mishaps \in 0..MaxMishaps
      <4>1. mishaps = 0
        BY <1>2
      <4> QED
        BY ONLY <4>1, CardConstants
    <3> QED
      BY <3>1, <3>2
  <2> QED
    BY <2>1, <2>2, <2>3, <2>4, <2>5 DEF CardTypes
<1>5. OneWindow /\ EndedStays
  BY <1>2, <1>3 DEF OneWindow, EndedStays
<1>6. CardFollows /\ RowFollows
  BY <1>2, <1>3 DEF CardFollows, RowFollows, HandledEnds, Alike
<1> QED
  BY <1>4, <1>5, <1>6 DEF CardInv

(* Every step of a card or of a dispute keeps the invariant of both.       *)
LEMMA CardStep == CardInv /\ (CardCalls \/ DisputeCalls \/ UNCHANGED cardVars) => CardInv'
<1> SUFFICES ASSUME CardInv, CardCalls \/ DisputeCalls \/ UNCHANGED cardVars PROVE CardInv'
  OBVIOUS
<1>1. CASE CardCalls
  BY <1>1, ReadCardKeeps, CallStripeKeeps, WriteCardKeeps, FailKeeps DEF CardCalls
<1>2. CASE DisputeCalls
  BY <1>2, StripeMovesKeeps, FindDisputeKeeps, UpsertKeeps, EvidenceKeeps, FailKeeps DEF DisputeCalls
<1>3. CASE UNCHANGED cardVars
  BY <1>3 DEF cardVars, CardInv, CardTypes, EventCall, OneWindow, CardFollows, EndedStays, RowFollows,
              HandledEnds
<1> QED
  BY <1>1, <1>2, <1>3

(* The invariant gives the type and the three properties.                  *)
LEMMA CardImplied == CardInv => CardTypeOK /\ CardAgrees /\ StaysCancelled /\ DisputeFollows
<1> SUFFICES ASSUME CardInv PROVE CardTypeOK /\ CardAgrees /\ StaysCancelled /\ DisputeFollows
  OBVIOUS
<1>1. CardTypeOK
  <2>1. \A w \in Windows :
          window[w].op \in {"free", "issue", "freeze", "unfreeze", "cancel", "event", "evidence"}
    BY Kinds DEF CardInv, Occupied, CardOps, Unoccupied
  <2> QED
    BY <2>1 DEF CardInv, CardTypes, CardTypeOK, CardRows, StripeStatuses, DisputeRows, Statuses
<1>2. CardAgrees
  BY DEF CardInv, CardFollows, CardAgrees, Quiet, Alike, Closed
<1>3. StaysCancelled
  BY DEF CardInv, CardFollows, StaysCancelled
<1>4. DisputeFollows
  <2> SUFFICES ASSUME ~mixed, Len(events) \in handled
               PROVE  /\ dispute.status = events[Len(events)]
                      /\ dispute.resolved =
                           IF dispute.status \in Resolved THEN Min(HandledEnds) ELSE 0
    BY Zenon DEF DisputeFollows, HandledEnds
  <2>1. dispute.status = events[Len(events)]
    BY DEF CardInv, RowFollows
  <2>2. dispute.resolved = IF HandledEnds = {} THEN 0 ELSE Min(HandledEnds)
    BY DEF CardInv, RowFollows
  <2>3. dispute.status \in Resolved => HandledEnds # {}
    BY <2>1 DEF HandledEnds
  <2>4. HandledEnds # {} => dispute.status \in Resolved
    <3>1. ASSUME NEW k \in HandledEnds PROVE events[Len(events)] \in Resolved
      <4>1. /\ k \in DOMAIN events /\ events[k] \in Resolved /\ events[k] \in Concluded
            /\ Len(events) \in DOMAIN events
        BY <3>1 DEF HandledEnds, CardInv, CardTypes, Concluded
      <4>2. k < Len(events) \/ k = Len(events)
        BY <4>1 DEF CardInv, CardTypes
      <4> QED
        BY <4>1, <4>2 DEF CardInv, EndedStays
    <3> QED
      BY <2>1, <3>1
  <2> QED
    BY <2>1, <2>2, <2>3, <2>4
<1> QED
  BY <1>1, <1>2, <1>3, <1>4

-----------------------------------------------------------------------------
(* The whole: a step is a step of one part, and the others stand still.    *)
LEMMA StepParts ==
  ASSUME [Next]_gatewayVars
  PROVE  /\ UNCHANGED part
         /\ [RailNext]_railVars /\ [ConsentNext]_consentVars /\ [DeliveryNext]_deliveryVars
         /\ [BreakerNext]_breakerVars
         /\ EventsNext \/ KeysNext \/ UNCHANGED redeliveryVars
         /\ CardCalls \/ DisputeCalls \/ UNCHANGED cardVars
<1>1. CASE UNCHANGED gatewayVars
  BY <1>1 DEF gatewayVars
<1>2. CASE RailNext /\ Others("rails")
  BY <1>2 DEF Others
<1>3. CASE ConsentNext /\ Others("consents")
  BY <1>3 DEF Others
<1>4. CASE DeliveryNext /\ Others("delivery")
  BY <1>4 DEF Others
<1>5. CASE BreakerNext /\ Others("breaker")
  BY <1>5 DEF Others
<1>6. CASE EventsNext /\ Others("events")
  BY <1>6 DEF Others
<1>7. CASE KeysNext /\ Others("keys")
  BY <1>7 DEF Others
<1>8. CASE CardCalls /\ Others("cards")
  BY <1>8 DEF Others
<1>9. CASE DisputeCalls /\ Others("disputes")
  BY <1>9 DEF Others
<1> QED
  BY <1>1, <1>2, <1>3, <1>4, <1>5, <1>6, <1>7, <1>8, <1>9 DEF Next

(* The invariant of the whole is that of every part.                       *)
GatewayInv ==
  /\ part \in Parts
  /\ RailInv /\ GrantInv /\ DeliveryInv /\ BreakerInv /\ (EventInv /\ KeyInv) /\ CardInv

(* Every part starts in its own invariant,                                 *)
LEMMA GatewayStarts == Init => GatewayInv
BY RailStarts, GrantInit, DeliveryStarts, BreakerStarts, RedeliveryStarts, CardStarts
   DEF Init, GatewayInv

(* every step keeps it,                                                    *)
LEMMA GatewayStep == GatewayInv /\ [Next]_gatewayVars => GatewayInv'
<1> SUFFICES ASSUME GatewayInv, [Next]_gatewayVars PROVE GatewayInv'
  OBVIOUS
<1>1. part' \in Parts
  BY StepParts DEF GatewayInv
<1>2. RailInv'
  BY StepParts, RailStep DEF GatewayInv
<1>3. GrantInv'
  BY StepParts, GrantStep DEF GatewayInv
<1>4. DeliveryInv'
  BY StepParts, DeliveryStep DEF GatewayInv
<1>5. BreakerInv'
  BY StepParts, BreakerStep DEF GatewayInv
<1>6. EventInv' /\ KeyInv'
  BY StepParts, RedeliveryStep DEF GatewayInv
<1>7. CardInv'
  BY StepParts, CardStep DEF GatewayInv
<1> QED
  BY <1>1, <1>2, <1>3, <1>4, <1>5, <1>6, <1>7 DEF GatewayInv

(* so it holds always, whatever part a behaviour is about.                 *)
LEMMA GatewayHolds == Spec => []GatewayInv
BY GatewayStarts, GatewayStep, PTL DEF Spec

(* The stores, queues and rows of every part stay typed.                   *)
THEOREM GatewayTyped == Spec => []GatewayTypeOK
<1>1. GatewayInv => GatewayTypeOK
  BY RailImplied, DeliveryImplied, RedeliveryImplied, CardImplied
     DEF GatewayInv, GatewayTypeOK, GrantInv, BreakerInv
<1> QED
  BY <1>1, GatewayHolds, PTL

(* AccountsService.placeHold and releaseHold never hold more than an       *)
(* account covers, and with every server call answered the hold is what    *)
(* its payments in flight come to; the row of a card says what Stripe      *)
(* says, a cancelled card stays cancelled and a dispute follows its events *)
(* when calls do not overlap.                                              *)
THEOREM PaymentsHold == Spec => []PaymentsSound
<1>1. GatewayInv => PaymentsSound
  BY RailImplied, CardImplied DEF GatewayInv, PaymentsSound
<1> QED
  BY <1>1, GatewayHolds, PTL

(* WebhookDeliveryService accounts for every delivery it has queued: while *)
(* no process has crashed exactly one message of it is about until it has  *)
(* ended, and one that is given up has used up its attempts.               *)
THEOREM DeliveriesReported == Spec => []DeliveriesAccounted
<1>1. GatewayInv => DeliveriesAccounted
  BY DeliveryImplied DEF GatewayInv
<1> QED
  BY <1>1, GatewayHolds, PTL

(* CircuitBreaker.execute opens on failures that are recent, and once open *)
(* keeps new calls from the provider until the recovery time has passed.   *)
THEOREM CircuitHolds == Spec => CircuitSound
<1>1. GatewayInv /\ [Next]_gatewayVars => Openings \/ UNCHANGED breakerVars
  BY StepParts, BreakerStep DEF GatewayInv
<1>2. GatewayInv => ClosedBelowThreshold
  BY DEF GatewayInv, BreakerInv
<1> QED
  BY <1>1, <1>2, GatewayHolds, OpeningsAllow, PTL
     DEF Spec, CircuitSound, OpenedOnRecentFailures, OpeningHoldsCallsOff

(* The gates and the grants of open banking keep their word in the whole   *)
(* as they do alone.                                                       *)
THEOREM GatesHold == Spec => []RedeliverySound /\ GrantsSound
<1>1. GatewayInv => RedeliverySound
  BY RedeliveryImplied DEF GatewayInv
<1>2. GatewayInv /\ [Next]_gatewayVars => GrantInv /\ [ConsentNext]_consentVars
  BY StepParts DEF GatewayInv
<1> QED
  BY <1>1, <1>2, GatewayHolds, GrantStepSound, PTL
     DEF Spec, GrantsSound, RevocationStands, GrantSpentOnce
=============================================================================
