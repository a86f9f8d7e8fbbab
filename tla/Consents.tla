------------------------------ MODULE Consents ------------------------------
(***************************************************************************)
(* OAuth2Service, ConsentService and the resource servers of open banking: *)
(* consents in the database, tokens in Redis, and requests whose every     *)
(* await lets others run.  A consent made by buildAuthorizationUrl belongs *)
(* to the client; one made by a resource server carries clientId 'pending' *)
(* for good, so its code can never be exchanged.  Clients stay active, and *)
(* PKCE, redirect and scope checks refuse a request before it reads state. *)
(***************************************************************************)
EXTENDS Integers, FiniteSets

CONSTANTS
  ConsentIds,
  Requests,      \* concurrent requests
  MaxPairs       \* bound: token pairs issued

ASSUME ConsentConstants == MaxPairs \in Nat /\ "none" \notin ConsentIds

VARIABLES
  consent,    \* rows: [status, client, code, past]; code: the live one, or 0
  codes,      \* authorization codes made so far
  pair,       \* token pairs in Redis: [consent, access, refresh, parent]
  request,    \* per request: [op, on, from]
  revokedBy   \* history, per consent: the requests in flight when it was revoked

consentVars == <<consent, codes, pair, request, revokedBy>>

NoConsent == [status |-> "none", client |-> FALSE, code |-> 0, past |-> FALSE]
NoPair == [consent |-> "none", access |-> FALSE, refresh |-> FALSE, parent |-> <<"none", 0>>]
Done == [op |-> "done", on |-> "none", from |-> <<"none", 0>>]

ConsentInit ==
  /\ consent = [c \in ConsentIds |-> NoConsent]
  /\ codes = 0
  /\ pair = [k \in 1..MaxPairs |-> NoPair]
  /\ request = [r \in Requests |-> Done]
  /\ revokedBy = [c \in ConsentIds |-> {}]

Issued == Cardinality({k \in 1..MaxPairs : pair[k].consent # "none"})

-----------------------------------------------------------------------------
Goes(r, op, c, from) == request' = [request EXCEPT ![r] = [op |-> op, on |-> c, from |-> from]]
Ends(r) == request' = [request EXCEPT ![r] = Done]

(* buildAuthorizationUrl, or createAccountConsent and its like.            *)
CreateConsent(c, byClient) ==
  /\ consent[c].status = "none"
  /\ consent' = [consent EXCEPT ![c] = [NoConsent EXCEPT !.status = "AWAITING", !.client = byClient]]
  /\ UNCHANGED <<codes, pair, request, revokedBy>>

(* Mutant: a consent can be authorised whatever its status.                *)
ReadAnyStatus(r, c) ==
  /\ request[r].op = "done" /\ consent[c].status # "none"
  /\ Goes(r, "authorise", c, <<"none", 0>>)
  /\ UNCHANGED <<consent, codes, pair, revokedBy>>

ReadToAuthorise(r, c) ==
  /\ request[r].op = "done" /\ consent[c].status = "AWAITING"
  /\ Goes(r, "authorise", c, <<"none", 0>>)
  /\ UNCHANGED <<consent, codes, pair, revokedBy>>

(* The update names the row only: whatever was written since is lost.      *)
WriteAuthorised(r) ==
  LET c == request[r].on IN
  /\ request[r].op = "authorise" /\ codes < MaxPairs
  /\ consent' = [consent EXCEPT ![c].status = "AUTHORISED", ![c].code = codes + 1, ![c].past = FALSE]
  /\ codes' = codes + 1
  /\ Ends(r)
  /\ UNCHANGED <<pair, revokedBy>>

(* revoke reads first too; a consent of any other status can be revoked.   *)
ReadToRevoke(r, c) ==
  /\ request[r].op = "done" /\ consent[c].status \notin {"none", "REVOKED"}
  /\ Goes(r, "revoke", c, <<"none", 0>>)
  /\ UNCHANGED <<consent, codes, pair, revokedBy>>

WriteRevoked(r) ==
  LET c == request[r].on IN
  /\ request[r].op = "revoke"
  /\ consent' = [consent EXCEPT ![c].status = "REVOKED"]
  /\ revokedBy' = [revokedBy EXCEPT ![c] =
       {q \in Requests \ {r} : request[q].on = c /\ request[q].op \in {"authorise", "expire"}}]
  /\ Ends(r)
  /\ UNCHANGED <<codes, pair>>

-----------------------------------------------------------------------------
(* exchangeCodeForTokens looks up the code, not the status of the consent. *)
FindCode(r, c) ==
  LET from == <<"code", consent[c].code>> IN
  /\ request[r].op = "done" /\ consent[c].code # 0 /\ consent[c].client
  /\ Goes(r, "exchange", c, from)
  /\ UNCHANGED <<consent, codes, pair, revokedBy>>

(* The update clears whatever code the row has by now.                     *)
ClearCode(r) ==
  /\ request[r].op = "exchange"
  /\ consent' = [consent EXCEPT ![request[r].on].code = 0]
  /\ Goes(r, "issue", request[r].on, request[r].from)
  /\ UNCHANGED <<codes, pair, revokedBy>>

FindRefreshToken(r, k) ==
  LET from == <<"refresh", k>> IN
  /\ request[r].op = "done" /\ pair[k].refresh
  /\ Goes(r, "refresh", pair[k].consent, from)
  /\ UNCHANGED <<consent, codes, pair, revokedBy>>

CheckRefresh(r) ==
  /\ request[r].op = "refresh"
  /\ IF consent[request[r].on].status = "AUTHORISED"
     THEN Goes(r, "rotate", request[r].on, request[r].from) ELSE Ends(r)
  /\ UNCHANGED <<consent, codes, pair, revokedBy>>

(* A del of a token that is gone already succeeds as well.                 *)
DeleteRefreshToken(r) ==
  /\ request[r].op = "rotate"
  /\ pair' = [pair EXCEPT ![request[r].from[2]].refresh = FALSE]
  /\ Goes(r, "issue", request[r].on, request[r].from)
  /\ UNCHANGED <<consent, codes, revokedBy>>

(* issueTokenPair stores the access token, then the refresh token.         *)
IssueTokenPair(r) ==
  /\ request[r].op = "issue" /\ Issued < MaxPairs
  /\ pair' = [pair EXCEPT ![Issued + 1] =
       [consent |-> request[r].on, access |-> TRUE, refresh |-> TRUE, parent |-> request[r].from]]
  /\ Ends(r)
  /\ UNCHANGED <<consent, codes, revokedBy>>

(* Redis fails: the code or refresh token is spent and nothing is issued.  *)
IssueFails(r) ==
  /\ request[r].op = "issue"
  /\ Ends(r)
  /\ UNCHANGED <<consent, codes, pair, revokedBy>>

(* One of the two tokens, revoked or at the end of its lifetime; the other *)
(* of the pair stays good.                                                 *)
RevokeToken(k, which) ==
  /\ pair[k].consent # "none"
  /\ pair' = [pair EXCEPT ![k].access = @ /\ which # "access", ![k].refresh = @ /\ which # "refresh"]
  /\ UNCHANGED <<consent, codes, request, revokedBy>>

(* The lifetimes of a code and of the consent itself end.                  *)
CodeExpires(c) ==
  /\ consent[c].code # 0
  /\ consent' = [consent EXCEPT ![c].code = 0]
  /\ UNCHANGED <<codes, pair, request, revokedBy>>

ConsentLapses(c) ==
  /\ consent[c].status = "AUTHORISED"
  /\ consent' = [consent EXCEPT ![c].past = TRUE]
  /\ UNCHANGED <<codes, pair, request, revokedBy>>

-----------------------------------------------------------------------------
(* resolveTokenToConsent: the token, then the status, never the lifetime.  *)
Introspect(r, k) ==
  /\ request[r].op = "done" /\ pair[k].access
  /\ Goes(r, "resolve", pair[k].consent, <<"access", k>>)
  /\ UNCHANGED <<consent, codes, pair, revokedBy>>

Resolve(r) ==
  /\ request[r].op = "resolve"
  /\ IF consent[request[r].on].status = "AUTHORISED"
     THEN Goes(r, "serving", request[r].on, request[r].from) ELSE Ends(r)
  /\ UNCHANGED <<consent, codes, pair, revokedBy>>

Serve(r) ==
  /\ request[r].op = "serving"
  /\ Ends(r)
  /\ UNCHANGED <<consent, codes, pair, revokedBy>>

(* findActiveConsent of PSD2 marks a lapsed consent EXPIRED when it is     *)
(* read, and its write too overwrites what came between.                   *)
ReadLapsed(r, c) ==
  /\ request[r].op = "done" /\ consent[c].status = "AUTHORISED" /\ consent[c].past
  /\ Goes(r, "expire", c, <<"none", 0>>)
  /\ UNCHANGED <<consent, codes, pair, revokedBy>>

WriteExpired(r) ==
  /\ request[r].op = "expire"
  /\ consent' = [consent EXCEPT ![request[r].on].status = "EXPIRED"]
  /\ Ends(r)
  /\ UNCHANGED <<codes, pair, revokedBy>>

ConsentNext ==
  \/ \E c \in ConsentIds :
       \/ \E byClient \in BOOLEAN : CreateConsent(c, byClient)
       \/ CodeExpires(c) \/ ConsentLapses(c)
       \/ \E r \in Requests : ReadToAuthorise(r, c) \/ ReadToRevoke(r, c) \/ FindCode(r, c)
                                \/ ReadLapsed(r, c)
  \/ \E r \in Requests :
       \/ WriteAuthorised(r) \/ WriteRevoked(r) \/ ClearCode(r) \/ CheckRefresh(r)
       \/ DeleteRefreshToken(r) \/ IssueTokenPair(r) \/ IssueFails(r) \/ Resolve(r) \/ Serve(r)
       \/ WriteExpired(r)
       \/ \E k \in 1..MaxPairs : FindRefreshToken(r, k) \/ Introspect(r, k)
  \/ \E k \in 1..MaxPairs, which \in {"access", "refresh"} : RevokeToken(k, which)

ConsentSpec == ConsentInit /\ [][ConsentNext]_consentVars

-----------------------------------------------------------------------------
Parents == {<<"none", 0>>} \cup ({"code", "refresh", "access"} \X (1..MaxPairs))
Ops == {"done", "authorise", "revoke", "expire", "exchange", "refresh", "rotate", "issue",
        "resolve", "serving"}

(* The rows and the keys in Redis hold what their types say.               *)
ConsentTypeOK ==
  /\ consent \in [ConsentIds ->
       [status : {"none", "AWAITING", "AUTHORISED", "REVOKED", "EXPIRED"},
        client : BOOLEAN, code : 0..MaxPairs, past : BOOLEAN]]
  /\ codes \in 0..MaxPairs
  /\ pair \in [1..MaxPairs -> [consent : ConsentIds \cup {"none"}, access : BOOLEAN,
                               refresh : BOOLEAN, parent : Parents]]
  /\ request \in [Requests -> [op : Ops, on : ConsentIds \cup {"none"}, from : Parents]]
  /\ revokedBy \in [ConsentIds -> SUBSET Requests]

(* A revocation stands: only a request that had read the consent before it *)
(* was revoked, and was still in flight then, can undo it.  Every request  *)
(* that starts later leaves the consent revoked.                           *)
RevocationStands ==
  [][\A c \in ConsentIds : consent[c].status = "REVOKED" /\ consent'[c].status # "REVOKED"
       => \E r \in revokedBy[c] : request[r].on = c /\ request'[r].op = "done"]_consentVars

(* A code or refresh token that has produced a token pair is never found   *)
(* again: two pairs with one parent come from requests that overlapped.    *)
GrantSpentOnce ==
  [][\A r \in Requests :
       request[r].op = "done" /\ request'[r].op \in {"exchange", "refresh"}
         => \A k \in 1..MaxPairs : pair[k].parent # request'[r].from]_consentVars

(* What was revoked stays revoked and what was spent stays spent, but for  *)
(* requests that were already in flight.                                   *)
GrantsSound == RevocationStands /\ GrantSpentOnce
=============================================================================
