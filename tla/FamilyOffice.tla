---------------------------- MODULE FamilyOffice ----------------------------
(***************************************************************************)
(* FamilyOfficeService: family groups and their entities, the investment   *)
(* policy statement (IPS) of a group and the violations found against it,  *)
(* distributions to beneficiaries, and the document vault with its access  *)
(* log.  Left out: names, relationships between entities (they are stored  *)
(* and listed, nothing reads them to decide) and the two reports.          *)
(***************************************************************************)
EXTENDS Integers, FiniteSets, FiniteSetsExt

CONSTANTS
  Groups, Entities,
  AssetKinds,    \* asset classes
  HoldingSets,   \* snapshots: a set of [kind, security, value], one entry per security
  Policies,      \* bodies of createIPS: [target, least, most, single, restricted]
  PolicyIds,
  MaxOpen,       \* bound: open violations of one sort
  Payouts,       \* amounts to distribute
  MaxPayouts,    \* bound: distributions
  LastYear,      \* bound: the calendar
  Documents, MaxViews  \* bound: entries of an access log

ASSUME FamilyConstants ==
  /\ \A p \in Policies : p.target \in [AssetKinds -> 0..100]
  /\ "none" \notin PolicyIds   \* stands for no policy at all
  /\ {MaxOpen, MaxPayouts, MaxViews} \subseteq Nat /\ LastYear \in Nat \ {0}
  /\ Payouts \subseteq Nat \ {0}

VARIABLES
  entities,     \* entityStore: entity -> [group, held]
  policies,     \* ipsStore: id -> [group, status, body]
  violations,   \* violationStore: the unresolved rows, [policy, type, of] -> how many
  payouts,      \* distributionStore: amounts, [year -> amounts in order]
  running,      \* the beneficiary's [lifetime, ytd, last]
  year,
  vault,        \* documentStore: document -> [group, views]
  accepted,     \* history: the last policy accepted for each group
  refused,      \* history: groups whose createIPS was refused since then
  checked       \* history: groups enforced with nothing changed since

familyVars == <<entities, policies, violations, payouts, running, year, vault,
                accepted, refused, checked>>
policyVars == <<entities, policies, violations, accepted, refused, checked>>
payoutVars == <<payouts, running, year>>

None == "none"
NoEntries == [x \in {} |-> 0]

FamilyInit ==
  /\ entities = NoEntries /\ policies = NoEntries /\ violations = NoEntries
  /\ payouts = [y \in 1..LastYear |-> <<0, 0>>]
  /\ running = [lifetime |-> 0, ytd |-> 0, last |-> 0] /\ year = 1
  /\ vault = NoEntries
  /\ accepted = [g \in Groups |-> None] /\ refused = {} /\ checked = {}

Put(f, k, v) == [x \in DOMAIN f \cup {k} |-> IF x = k THEN v ELSE f[x]]

-----------------------------------------------------------------------------
AddEntity(e, g, held) ==
  /\ e \notin DOMAIN entities
  /\ entities' = Put(entities, e, [group |-> g, held |-> held])
  /\ checked' = checked \ {g}
  /\ UNCHANGED <<policies, violations, accepted, refused, vault, payoutVars>>

UpdateEntityHoldings(e, held) ==
  /\ e \in DOMAIN entities
  /\ entities' = [entities EXCEPT ![e].held = held]
  /\ checked' = checked \ {entities[e].group}
  /\ UNCHANGED <<policies, violations, accepted, refused, vault, payoutVars>>

-----------------------------------------------------------------------------
Superseded(g) ==
  [i \in DOMAIN policies |->
     IF policies[i].group = g /\ policies[i].status = "ACTIVE"
     THEN [policies[i] EXCEPT !.status = "SUPERSEDED"] ELSE policies[i]]

(* The old policies are superseded before the new one is validated: a      *)
(* refused call leaves the group without any.                              *)
CreateIPS(g, i, p) ==
  /\ i \notin DOMAIN policies
  /\ IF MapThenSumSet(LAMBDA k : p.target[k], AssetKinds) = 100
     THEN /\ policies' = Put(Superseded(g), i, [group |-> g, status |-> "ACTIVE", body |-> p])
          /\ accepted' = [accepted EXCEPT ![g] = i] /\ refused' = refused \ {g}
     ELSE policies' = Superseded(g) /\ refused' = refused \cup {g} /\ UNCHANGED accepted
  /\ checked' = checked \ {g}
  /\ UNCHANGED <<entities, violations, vault, payoutVars>>

ActiveOf(g) == {i \in DOMAIN policies : policies[i].group = g /\ policies[i].status = "ACTIVE"}

(* The holdings of all entities of the group.                              *)
AllHoldings(g) ==
  UNION {{[entity |-> e, item |-> h] : h \in entities[e].held} :
           e \in {d \in DOMAIN entities : entities[d].group = g}}

WorthOf(items) == MapThenSumSet(LAMBDA x : x.item.value, items)

(* What enforceIPS records: a class of the target outside its band, a      *)
(* holding above the single-position limit, a restricted security.         *)
Found(g, body) ==
  LET all == AllHoldings(g)
      total == WorthOf(all)
      of(k) == WorthOf({x \in all : x.item.kind = k})
  IN  IF total = 0 THEN {}
      ELSE {<<"DRIFT", k>> : k \in {a \in AssetKinds : \/ 100 * of(a) < body.least[a] * total
                                                       \/ 100 * of(a) > body.most[a] * total}}
           \cup {<<"CONCENTRATION", x>> : x \in {y \in all : 100 * y.item.value > body.single * total}}
           \cup {<<"RESTRICTED_SECURITY", x>> : x \in {y \in all : y.item.security \in body.restricted}}

Open(i, v) == IF <<i, v>> \in DOMAIN violations THEN violations[<<i, v>>] ELSE 0

(* Every call records its findings again, next to those still open.        *)
EnforceIPS(g) ==
  \E i \in ActiveOf(g) :
    LET found == Found(g, policies[i].body)
    IN  /\ \A v \in found : Open(i, v) < MaxOpen
        /\ violations' = [k \in DOMAIN violations \cup {<<i, v>> : v \in found} |->
                            IF k \in {<<i, v>> : v \in found} THEN Open(i, k[2]) + 1
                            ELSE violations[k]]
        /\ checked' = checked \cup {g}
        /\ UNCHANGED <<entities, policies, accepted, refused, vault, payoutVars>>

ResolveIPSViolation(k) ==
  /\ k \in DOMAIN violations /\ violations[k] > 0
  /\ violations' = [violations EXCEPT ![k] = @ - 1]
  /\ checked' = checked \ {policies[k[1]].group}
  /\ UNCHANGED <<entities, policies, accepted, refused, vault, payoutVars>>

-----------------------------------------------------------------------------
(* payouts[y] is what was distributed in year y and in how many events.    *)
(* The clock of the service is taken to run in UTC: the code dates a       *)
(* distribution in UTC (line 440) and takes its year in local time (450).  *)
RecordDistribution(a) ==
  /\ MapThenSumSet(LAMBDA y : payouts[y][2], 1..LastYear) < MaxPayouts
  /\ payouts' = [payouts EXCEPT ![year] = <<@[1] + a, @[2] + 1>>]
  /\ running' = [lifetime |-> running.lifetime + a, ytd |-> payouts'[year][1], last |-> year]
  /\ UNCHANGED <<policyVars, vault, year>>

NewYear ==
  /\ year < LastYear /\ year' = year + 1
  /\ UNCHANGED <<policyVars, vault, payouts, running>>

StoreDocument(d, g) ==
  /\ d \notin DOMAIN vault
  /\ vault' = Put(vault, d, [group |-> g, views |-> 0])
  /\ UNCHANGED <<policyVars, payoutVars>>

(* Without a name of who reads, the log is not written.                    *)
GetDocument(d) ==
  /\ d \in DOMAIN vault /\ vault[d].views < MaxViews
  /\ vault' = [vault EXCEPT ![d].views = @ + 1]
  /\ UNCHANGED <<policyVars, payoutVars>>

PolicyNext ==
  \/ \E e \in Entities, h \in HoldingSets :
       UpdateEntityHoldings(e, h) \/ \E g \in Groups : AddEntity(e, g, h)
  \/ \E g \in Groups : EnforceIPS(g) \/ \E i \in PolicyIds, p \in Policies : CreateIPS(g, i, p)
  \/ \E k \in DOMAIN violations : ResolveIPSViolation(k)

PayoutNext == NewYear \/ \E a \in Payouts : RecordDistribution(a)

VaultNext ==
  \E d \in Documents : GetDocument(d) \/ \E g \in Groups : StoreDocument(d, g)

FamilyNext == PolicyNext \/ PayoutNext \/ VaultNext

FamilySpec == FamilyInit /\ [][FamilyNext]_familyVars

-----------------------------------------------------------------------------
(* The stores hold what their interfaces say.                              *)
FamilyTypeOK ==
  /\ \A e \in DOMAIN entities : entities[e] \in [group : Groups, held : HoldingSets]
  /\ \A i \in DOMAIN policies :
       policies[i] \in [group : Groups, status : {"ACTIVE", "SUPERSEDED"}, body : Policies]
  /\ \A k \in DOMAIN violations : k[1] \in DOMAIN policies /\ violations[k] \in 0..MaxOpen
  /\ \A d \in DOMAIN vault : vault[d] \in [group : Groups, views : 0..MaxViews]
  /\ running.last \in 0..year

(* A group has one policy in force, the last one accepted, and none only   *)
(* when no policy was accepted or a refused createIPS took it out of force. *)
PolicyInForce ==
  \A g \in Groups :
    ActiveOf(g) = IF accepted[g] = None \/ g \in refused THEN {} ELSE {accepted[g]}

(* Right after an enforcement every way in which the group is outside its  *)
(* policy has an open violation under it, whatever was resolved, recorded  *)
(* twice or left open under an earlier policy before.                      *)
ViolationsShow ==
  \A g \in checked : \A i \in ActiveOf(g) :
    \A v \in Found(g, policies[i].body) : Open(i, v) > 0

(* The lifetime total is the sum of all distributions, the year-to-date    *)
(* total that of the year of the last one, which need not be this year.    *)
TotalsFollowPayouts ==
  /\ running.lifetime = MapThenSumSet(LAMBDA y : payouts[y][1], 1..LastYear)
  /\ running.last > 0 => running.ytd = payouts[running.last][1]
=============================================================================
