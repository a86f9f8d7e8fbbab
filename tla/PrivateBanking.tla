---------------------------- MODULE PrivateBanking ----------------------------
(***************************************************************************)
(* PrivateBankingService: clients with their assets under management and   *)
(* tiers, relationship managers with their stored counts and totals, and   *)
(* concierge requests.  Amounts are in units of half a million dollars.    *)
(***************************************************************************)
EXTENDS Integers, FiniteSets, FiniteSetsExt

CONSTANTS
  Clients,       \* customers, each a client at most once
  Managers,      \* managers present at the start
  Recruits,      \* managers addRM adds
  Capacity,      \* maxClientCount of all of them
  Aums,          \* assets a call may report
  Requests,      \* concierge requests
  HNW, VHNW, UHNW, \* least assets of a tier
  MaxManaged     \* bound: a manager's total, of either sign

ASSUME PrivateBankingConstants ==
  /\ IsFiniteSet(Managers) /\ "none" \notin Managers \cup Recruits
  /\ Capacity \in Nat /\ Aums \subseteq Nat \ {0}
  /\ {HNW, VHNW, UHNW, MaxManaged} \subseteq Nat /\ HNW < VHNW /\ VHNW < UHNW

VARIABLES
  clients,    \* clientStore
  managers,   \* rmStore
  requests,   \* conciergeStore
  first       \* history: the assets a client had when it got its first manager

bankingVars == <<clients, managers, requests, first>>

NoManager == "none"
Empty == [x \in {} |-> 0]
With(f, k, v) == [x \in DOMAIN f \cup {k} |-> IF x = k THEN v ELSE f[x]]

NewManager == [clients |-> 0, aum |-> 0]

BankingInit ==
  /\ clients = Empty /\ requests = Empty /\ first = Empty
  /\ managers = [r \in Managers |-> NewManager]

-----------------------------------------------------------------------------
ClassifyTier(aum) ==
  IF aum >= UHNW THEN "UHNW" ELSE IF aum >= VHNW THEN "VHNW"
  ELSE IF aum >= HNW THEN "HNW" ELSE "MASS_AFFLUENT"

ServiceLevel(tier) ==
  CASE tier = "UHNW" -> "ULTRA" [] tier = "VHNW" -> "ELITE" [] OTHER -> "PREMIUM"

(* What both onboardClient and updateAUM derive from the assets.           *)
Standing(aum) ==
  LET tier == ClassifyTier(aum)
      level == ServiceLevel(tier)
  IN  [aum |-> aum, tier |-> tier, fees |-> tier, level |-> level,
       concierge |-> level # "PREMIUM", events |-> level = "ULTRA"]

OnboardClient(c, aum) ==
  /\ c \notin DOMAIN clients
  /\ clients' = With(clients, c, [manager |-> NoManager, phone |-> Standing(aum).concierge,
                                  standing |-> Standing(aum)])
  /\ UNCHANGED <<managers, requests, first>>

(* The dedicated phone line and the manager's total stay as they are.      *)
UpdateAUM(c, aum) ==
  /\ c \in DOMAIN clients
  /\ clients' = [clients EXCEPT ![c].standing = Standing(aum)]
  /\ UNCHANGED <<managers, requests, first>>

AtLeastZero(n) == IF n < 0 THEN 0 ELSE n

Released(r, aum) == [r EXCEPT !.clients = AtLeastZero(@ - 1), !.aum = @ - aum]
Taken(r, aum) == [r EXCEPT !.clients = @ + 1, !.aum = @ + aum]

(* Mutant: the manager left behind keeps the client.                       *)
AssignKeepsOld(c, r) ==
  /\ c \in DOMAIN clients /\ r \in DOMAIN managers /\ managers[r].clients < Capacity
  /\ clients[c].manager # r
  /\ managers' = [managers EXCEPT ![r] = Taken(@, clients[c].standing.aum)]
  /\ clients' = [clients EXCEPT ![c].manager = r]
  /\ first' = IF c \in DOMAIN first THEN first ELSE With(first, c, clients[c].standing.aum)
  /\ UNCHANGED requests

(* The capacity is checked even for the manager the client already has;    *)
(* past that check nothing changes for such a call.                        *)
AssignRM(c, r) ==
  /\ c \in DOMAIN clients /\ r \in DOMAIN managers
  /\ managers[r].clients < Capacity
  /\ clients[c].manager # r
  /\ LET aum == clients[c].standing.aum
         old == clients[c].manager
     IN  /\ managers' = [q \in DOMAIN managers |->
                           CASE q = r -> Taken(managers[q], aum)
                             [] q = old -> Released(managers[q], aum)
                             [] OTHER -> managers[q]]
         /\ first' = IF old = NoManager THEN With(first, c, aum) ELSE first
  /\ \A q \in DOMAIN managers : managers'[q].aum \in -MaxManaged..MaxManaged
  /\ clients' = [clients EXCEPT ![c].manager = r]
  /\ UNCHANGED requests

AddRM(r) ==
  /\ r \notin DOMAIN managers
  /\ managers' = With(managers, r, NewManager)
  /\ UNCHANGED <<clients, requests, first>>

CreateConciergeRequest(q, c) ==
  /\ q \notin DOMAIN requests /\ c \in DOMAIN clients
  /\ clients[c].standing.concierge
  /\ requests' = With(requests, q, [client |-> c, status |-> "OPEN", resolved |-> FALSE])
  /\ UNCHANGED <<clients, managers, first>>

(* Any status follows any other; resolvedAt stays when a request reopens.  *)
(* Who works on a request and its notes are left out.                      *)
UpdateConciergeRequest(q, status) ==
  /\ q \in DOMAIN requests
  /\ requests' = [requests EXCEPT ![q].status = status,
                    ![q].resolved = @ \/ status \in {"RESOLVED", "CANCELLED"}]
  /\ UNCHANGED <<clients, managers, first>>

RequestStatuses == {"OPEN", "IN_PROGRESS", "RESOLVED", "CANCELLED"}

BankingNext ==
  \/ \E c \in Clients, aum \in Aums : OnboardClient(c, aum) \/ UpdateAUM(c, aum)
  \/ \E c \in Clients, r \in DOMAIN managers : AssignRM(c, r)
  \/ \E r \in Recruits : AddRM(r)
  \/ \E q \in Requests, c \in Clients : CreateConciergeRequest(q, c)
  \/ \E q \in DOMAIN requests, s \in RequestStatuses : UpdateConciergeRequest(q, s)

BankingSpec == BankingInit /\ [][BankingNext]_bankingVars

-----------------------------------------------------------------------------
(* The stores hold what their interfaces say.                              *)
BankingTypeOK ==
  /\ DOMAIN clients \subseteq Clients /\ DOMAIN requests \subseteq Requests
  /\ Managers \subseteq DOMAIN managers
  /\ \A r \in DOMAIN managers : managers[r] \in [clients : Nat, aum : Int]
  /\ \A c \in DOMAIN clients : clients[c].manager \in DOMAIN managers \cup {NoManager}
  /\ \A q \in DOMAIN requests :
       requests[q].client \in DOMAIN clients /\ requests[q].status \in RequestStatuses

Assigned(r) == {c \in DOMAIN clients : clients[c].manager = r}

(* A manager's stored count is the number of clients assigned and within   *)
(* the capacity, whatever the order of assignments; and what the tier      *)
(* grants (but the phone line) is what the assets of now entitle to.       *)
ManagersCounted ==
  /\ \A r \in DOMAIN managers :
       managers[r].clients = Cardinality(Assigned(r)) /\ managers[r].clients <= Capacity
  /\ \A c \in DOMAIN clients : clients[c].standing = Standing(clients[c].standing.aum)

(* The totals of the managers together are what the clients had when each  *)
(* got its first manager: reassigning moves the assets of now, and an      *)
(* update reaches no total, so a single total may even be negative.        *)
TotalsAreFirstAssets ==
  /\ DOMAIN first = {c \in DOMAIN clients : clients[c].manager # NoManager}
  /\ MapThenSumSet(LAMBDA r : managers[r].aum, DOMAIN managers)
       = MapThenSumSet(LAMBDA c : first[c], DOMAIN first)
=============================================================================
