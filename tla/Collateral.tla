----------------------------- MODULE Collateral -----------------------------
(***************************************************************************)
(* CollateralManagementService of the prime broker: assets, the pledges    *)
(* that list them and substitutions, in memory, one call at a time.  All   *)
(* assets belong to one counterparty and list the schedule in use; the list *)
(* of a pledge is a bag (only how often an asset stands in it matters).    *)
(***************************************************************************)
EXTENDS Integers, FiniteSets, FiniteSetsExt, Folds

CONSTANTS
  Assets, Pledges, Substitutions,
  Haircut,      \* per asset: percent under the schedule in use, add-on included
  Prices,       \* per asset: dirty values it may take
  Required      \* required values the optimizer is asked for

ASSUME CollateralConstants ==
  /\ IsFiniteSet(Assets) /\ Haircut \in [Assets -> 0..200]
  /\ Prices \in [Assets -> SUBSET Nat] /\ Required \subseteq Nat

VARIABLES
  asset,        \* assets by id: [status, value]
  pledge,       \* pledges by id: [status, list]
  substitution, \* requests by id: [status, pledge, out, in]
  late,         \* history: a request was settled whose pledge had been released or
                \* did not list the outgoing asset
  abandoned     \* history: a createPledge failed after marking an asset

collateralVars == <<asset, pledge, substitution, late, abandoned>>

Nothing == [a \in Assets |-> 0]

CollateralInit ==
  /\ asset = [a \in Assets |-> [status |-> "none", value |-> 0]]
  /\ pledge = [p \in Pledges |-> [status |-> "none", list |-> Nothing]]
  /\ substitution = [s \in Substitutions |-> [status |-> "none"]]
  /\ late = FALSE /\ abandoned = FALSE

-----------------------------------------------------------------------------
Ineligible(a) == Haircut[a] >= 100

(* computeHaircut, in hundredths.                                          *)
Eligible(a) == IF Ineligible(a) THEN 0 ELSE asset[a].value * (100 - Haircut[a])

Marked(marks, status) == [a \in Assets |->
  IF a \in marks THEN [asset[a] EXCEPT !.status = status] ELSE asset[a]]

Listed(p) == {a \in Assets : pledge[p].list[a] > 0}

RegisterAsset(a, v) ==
  /\ asset[a].status = "none"
  /\ asset' = [asset EXCEPT ![a] = [status |-> "AVAILABLE", value |-> v]]
  /\ UNCHANGED <<pledge, substitution, late, abandoned>>

UpdateAssetPrice(a, v) ==
  /\ asset[a].status # "none" /\ asset[a].value # v
  /\ asset' = [asset EXCEPT ![a].value = v]
  /\ UNCHANGED <<pledge, substitution, late, abandoned>>

(* createPledge with the allocations x, y (or x alone, when x = y stands   *)
(* for one allocation): the loop marks each asset as it goes, so a refusal *)
(* at the second one leaves the first PLEDGED in no pledge.                *)
CreatePledge(p, x, y) ==
  /\ pledge[p].status = "none"
  /\ asset[x].status = "AVAILABLE"
  /\ IF asset[y].status = "AVAILABLE"
     THEN /\ asset' = Marked({x, y}, "PLEDGED")
          /\ pledge' = [pledge EXCEPT ![p] =
               [status |-> "ACTIVE", list |-> [a \in Assets |-> IF a \in {x, y} THEN 1 ELSE 0]]]
          /\ UNCHANGED abandoned
     ELSE /\ asset' = Marked({x}, "PLEDGED")
          /\ abandoned' = TRUE
          /\ UNCHANGED pledge
  /\ UNCHANGED <<substitution, late>>

Live(p) == pledge[p].status \in {"ACTIVE", "PARTIALLY_RELEASED"}

ReleaseAsset(p, a) ==
  LET left == [pledge[p].list EXCEPT ![a] = @ - 1] IN
  /\ Live(p) /\ a \in Listed(p)
  /\ asset' = Marked({a}, "AVAILABLE")
  /\ pledge' = [pledge EXCEPT ![p] =
       [status |-> IF left = Nothing THEN "FULLY_RELEASED" ELSE "PARTIALLY_RELEASED",
        list |-> left]]
  /\ UNCHANGED <<substitution, late, abandoned>>

(* A released pledge keeps its list.                                       *)
ReleasePledge(p) ==
  /\ Live(p)
  /\ asset' = Marked(Listed(p), "AVAILABLE")
  /\ pledge' = [pledge EXCEPT ![p].status = "FULLY_RELEASED"]
  /\ UNCHANGED <<substitution, late, abandoned>>

-----------------------------------------------------------------------------
(* The pledge must be ACTIVE and the incoming asset available; whether the *)
(* pledge lists the outgoing asset is not looked at.                       *)
RequestSubstitution(s, p, out, in) ==
  /\ substitution[s].status = "none"
  /\ pledge[p].status = "ACTIVE" /\ asset[in].status = "AVAILABLE"
  /\ substitution' = [substitution EXCEPT ![s] =
                        [status |-> "PENDING", pledge |-> p, out |-> out, in |-> in]]
  /\ asset' = [asset EXCEPT ![in].status = "IN_TRANSIT", ![out].status = "SUBSTITUTION_PENDING"]
  /\ UNCHANGED <<pledge, late, abandoned>>

(* Mutant: the outgoing asset stays on the list.                           *)
SettleKeepsOut(s) ==
  LET q == substitution[s] IN
  /\ q.status = "PENDING"
  /\ pledge' = [pledge EXCEPT ![q.pledge].list = [@ EXCEPT ![q.in] = @ + 1]]
  /\ asset' = [asset EXCEPT ![q.out].status = "AVAILABLE", ![q.in].status = "PLEDGED"]
  /\ substitution' = [substitution EXCEPT ![s].status = "SETTLED"]
  /\ late' = (late \/ ~Live(q.pledge) \/ q.out \notin Listed(q.pledge))
  /\ UNCHANGED abandoned

(* The status and the list of the pledge may have changed since the        *)
(* request: neither is checked.                                            *)
SettleSubstitution(s) ==
  LET q == substitution[s]
      list == pledge[q.pledge].list
      without == [list EXCEPT ![q.out] = IF @ > 0 THEN @ - 1 ELSE 0]
  IN /\ q.status = "PENDING"
     /\ pledge' = [pledge EXCEPT ![q.pledge].list = [without EXCEPT ![q.in] = @ + 1]]
     /\ asset' = [asset EXCEPT ![q.out].status = "AVAILABLE", ![q.in].status = "PLEDGED"]
     /\ substitution' = [substitution EXCEPT ![s].status = "SETTLED"]
     /\ late' = (late \/ ~Live(q.pledge) \/ q.out \notin Listed(q.pledge))
     /\ UNCHANGED abandoned

-----------------------------------------------------------------------------
Candidates == {a \in Assets : asset[a].status = "AVAILABLE" /\ ~Ineligible(a)}

Lesser(m, n) == IF m < n THEN m ELSE n

(* Of a set, the asset that is posted last: the sort is by descending      *)
(* haircut.                                                                *)
LastPosted(s) == CHOOSE a \in s : \A b \in s : Haircut[a] <= Haircut[b]

(* One turn of the loop: an asset is posted while something is missing,    *)
(* the last one in part.                                                   *)
Post(need, a, acc) ==
  IF acc.filled >= need THEN acc
  ELSE [filled |-> acc.filled + Lesser(Eligible(a), need - acc.filled), used |-> acc.used \cup {a}]

(* optimizeCollateral: the candidates in that order.                       *)
Optimized(need) ==
  MapThenFoldSet(LAMBDA a, acc : Post(need, a, acc), [filled |-> 0, used |-> {}],
                 LAMBDA a : a, LastPosted, Candidates)

CollateralNext ==
  \/ \E a \in Assets : \E v \in Prices[a] : RegisterAsset(a, v) \/ UpdateAssetPrice(a, v)
  \/ \E p \in Pledges :
       \/ \E x, y \in Assets : CreatePledge(p, x, y)
       \/ \E a \in Assets : ReleaseAsset(p, a)
       \/ ReleasePledge(p)
  \/ \E s \in Substitutions :
       \/ \E p \in Pledges, out, in \in Assets : RequestSubstitution(s, p, out, in)
       \/ SettleSubstitution(s)

CollateralSpec == CollateralInit /\ [][CollateralNext]_collateralVars

-----------------------------------------------------------------------------
AssetStatuses == {"none", "AVAILABLE", "PLEDGED", "IN_TRANSIT", "SUBSTITUTION_PENDING"}

(* The stores hold what their TypeScript types say.                        *)
CollateralTypeOK ==
  /\ asset \in [Assets -> [status : AssetStatuses, value : Nat]]
  /\ pledge \in [Pledges -> [status : {"none", "ACTIVE", "PARTIALLY_RELEASED", "FULLY_RELEASED"},
                             list : [Assets -> Nat]]]
  /\ substitution \in [Substitutions ->
       [status : {"none"}]
         \cup [status : {"PENDING", "SETTLED"}, pledge : Pledges, out : Assets, in : Assets]]
  /\ late \in BOOLEAN /\ abandoned \in BOOLEAN

(* An asset secures one pledge: live pledges list disjoint assets, each of *)
(* them once, and none of those assets can be pledged again.  Holds while  *)
(* every substitution settles on a pledge that is still live and lists the *)
(* outgoing asset (requestSubstitution and settleSubstitution check none). *)
LivePledgesDisjoint ==
  ~late => \A p \in Pledges : Live(p) => \A a \in Listed(p) :
    /\ pledge[p].list[a] = 1
    /\ asset[a].status \in {"PLEDGED", "SUBSTITUTION_PENDING"}
    /\ \A q \in Pledges \ {p} : Live(q) => a \notin Listed(q)

(* No asset is locked away: a PLEDGED asset is listed by a live pledge,    *)
(* unless a settlement came late or a createPledge stopped half-way.       *)
PledgedIsBacked ==
  ~late /\ ~abandoned =>
    \A a \in Assets : asset[a].status = "PLEDGED"
                        => \E p \in Pledges : Live(p) /\ a \in Listed(p)

(* optimizeCollateral fills the requirement or uses up what is eligible,   *)
(* and never posts an asset while one with a larger haircut stays unused.  *)
OptimizerFills ==
  \A need \in Required :
    LET got == Optimized(need) IN
    /\ got.filled = Lesser(need, MapThenSumSet(Eligible, Candidates))
    /\ \A a \in got.used, b \in Candidates \ got.used : Haircut[b] <= Haircut[a]

(* An asset secures at most one live pledge, none is locked away, and the  *)
(* optimizer posts the assets with the largest haircuts until the          *)
(* requirement is met.                                                     *)
CollateralSound == LivePledgesDisjoint /\ PledgedIsBacked /\ OptimizerFills
=============================================================================
