---------------------------- MODULE PersonalOffice ----------------------------
(***************************************************************************)
(* PersonalOfficeService: what a customer owns and owes, financial goals,  *)
(* the investment policy, the beneficiaries with their shares, and the     *)
(* documents.  The customers all have a profile; a call names a customer   *)
(* and only finds what belongs to that one.  The three parts share nothing *)
(* but the profile, so each has a next-state relation of its own.          *)
(***************************************************************************)
EXTENDS Integers, FiniteSetsExt

CONSTANTS
  Customers,
  Things, Worths,     \* assets and liabilities, and what they are worth
  Goals, GoalTarget,  \* goals, all of one target amount
  Savings,            \* current amounts
  Monthly,            \* monthly contributions
  GoalDates, LastMonth, \* target dates in months, and the bound of the calendar
  Heirs, Ranks, Shares, \* beneficiaries, designations and percentages
  Papers, MaxReads    \* documents, and the bound of an access log

ASSUME PersonalConstants ==
  /\ Worths \subseteq Nat /\ Savings \subseteq Nat /\ Monthly \subseteq Nat /\ GoalDates \subseteq Nat
  /\ GoalTarget \in Nat /\ LastMonth \in Nat /\ Shares \subseteq Nat /\ MaxReads \in Nat

VARIABLES
  assets, liabilities,  \* id -> [owner, value]
  worth,                \* history: per customer, the sum of all changes
  goals,                \* goalStore: id -> [owner, current, monthly, until, status]
  month,                \* the calendar
  heirs,                \* beneficiaryStore: id -> [owner, rank, share]
  papers                \* documentStore: id -> [owner, reads]

wealthVars == <<assets, liabilities, worth>>
goalVars == <<goals, month>>
heirVars == <<heirs, papers>>
personalVars == <<wealthVars, goalVars, heirVars>>

NoOne == [x \in {} |-> 0]

PersonalInit ==
  /\ assets = NoOne /\ liabilities = NoOne /\ worth = [c \in Customers |-> 0]
  /\ goals = NoOne /\ month = 0
  /\ heirs = NoOne /\ papers = NoOne

Stored(f, k, v) == [x \in DOMAIN f \cup {k} |-> IF x = k THEN v ELSE f[x]]
Dropped(f, k) == [x \in DOMAIN f \ {k} |-> f[x]]
Owns(c, store, k) == k \in DOMAIN store /\ store[k].owner = c

-----------------------------------------------------------------------------
(* Net worth.  Currencies are left out: the service adds them up as one.   *)
AddAsset(c, a, v) ==
  /\ a \notin DOMAIN assets
  /\ assets' = Stored(assets, a, [owner |-> c, value |-> v])
  /\ worth' = [worth EXCEPT ![c] = @ + v] /\ UNCHANGED liabilities

UpdateAsset(c, a, v) ==
  /\ Owns(c, assets, a)
  /\ assets' = [assets EXCEPT ![a].value = v]
  /\ worth' = [worth EXCEPT ![c] = @ + v - assets[a].value] /\ UNCHANGED liabilities

RemoveAsset(c, a) ==
  /\ Owns(c, assets, a)
  /\ assets' = Dropped(assets, a)
  /\ worth' = [worth EXCEPT ![c] = @ - assets[a].value] /\ UNCHANGED liabilities

AddLiability(c, l, v) ==
  /\ l \notin DOMAIN liabilities
  /\ liabilities' = Stored(liabilities, l, [owner |-> c, value |-> v])
  /\ worth' = [worth EXCEPT ![c] = @ - v] /\ UNCHANGED assets

UpdateLiability(c, l, v) ==
  /\ Owns(c, liabilities, l)
  /\ liabilities' = [liabilities EXCEPT ![l].value = v]
  /\ worth' = [worth EXCEPT ![c] = @ - v + liabilities[l].value] /\ UNCHANGED assets

RemoveLiability(c, l) ==
  /\ Owns(c, liabilities, l)
  /\ liabilities' = Dropped(liabilities, l)
  /\ worth' = [worth EXCEPT ![c] = @ + liabilities[l].value] /\ UNCHANGED assets

SumOwned(store, c) ==
  MapThenSumSet(LAMBDA k : store[k].value, {k \in DOMAIN store : store[k].owner = c})

NetWorth(c) == SumOwned(assets, c) - SumOwned(liabilities, c)

NetWorthNext ==
  \E c \in Customers, t \in Things :
    \/ RemoveAsset(c, t) \/ RemoveLiability(c, t)
    \/ \E v \in Worths : \/ AddAsset(c, t, v) \/ UpdateAsset(c, t, v)
                         \/ AddLiability(c, t, v) \/ UpdateLiability(c, t, v)

-----------------------------------------------------------------------------
(* computeGoalStatus at month m.  A goal nothing is paid into is BEHIND,   *)
(* also where a small contribution would make it AT_RISK.                  *)
ComputeGoalStatus(g, m) ==
  LET gap == GoalTarget - g.current
      saved == g.monthly * (g.until - m)
  IN  IF gap <= 0 THEN "ACHIEVED"
      ELSE IF g.until <= m THEN "AT_RISK"
      ELSE IF g.monthly = 0 THEN "BEHIND"
      ELSE IF saved >= gap THEN "ON_TRACK"
      ELSE IF 10 * saved >= 8 * gap THEN "BEHIND" ELSE "AT_RISK"

CreateGoal(c, k, current, monthly, until) ==
  /\ k \notin DOMAIN goals
  /\ LET plan == [current |-> current, monthly |-> monthly, until |-> until]
     IN  goals' = Stored(goals, k, [owner |-> c, current |-> current, monthly |-> monthly,
                                    until |-> until, status |-> ComputeGoalStatus(plan, month)])
  /\ UNCHANGED month

(* Only PAUSED stays; every other status sent is computed again.           *)
Settled(g, status, m) ==
  [g EXCEPT !.status = IF status = "PAUSED" THEN "PAUSED" ELSE ComputeGoalStatus(g, m)]

(* A field the call leaves out keeps its value, the status among them.     *)
UpdateGoal(c, k, current, monthly, until, status) ==
  /\ Owns(c, goals, k)
  /\ LET g == [goals[k] EXCEPT !.current = current, !.monthly = monthly, !.until = until]
     IN  goals' = [goals EXCEPT ![k] = Settled(g, status, month)]
  /\ UNCHANGED month

RemoveGoal(c, k) == Owns(c, goals, k) /\ goals' = Dropped(goals, k) /\ UNCHANGED month

MonthPasses == month < LastMonth /\ month' = month + 1 /\ UNCHANGED goals

GoalNext ==
  \/ \E c \in Customers, k \in Goals :
       \/ RemoveGoal(c, k)
       \/ \E s \in Savings, y \in Monthly, u \in GoalDates :
            \/ CreateGoal(c, k, s, y, u)
            \/ \E status \in {"PAUSED", "ON_TRACK", IF k \in DOMAIN goals THEN goals[k].status ELSE "PAUSED"} :
                 UpdateGoal(c, k, s, y, u, status)
  \/ MonthPasses

-----------------------------------------------------------------------------
SharesOf(c, rank, but) ==
  MapThenSumSet(LAMBDA h : heirs[h].share,
    {h \in DOMAIN heirs \ but : heirs[h].owner = c /\ heirs[h].rank = rank})

AddBeneficiary(c, h, rank, share) ==
  /\ h \notin DOMAIN heirs
  /\ SharesOf(c, rank, {}) + share <= 100
  /\ heirs' = Stored(heirs, h, [owner |-> c, rank |-> rank, share |-> share])
  /\ UNCHANGED papers

(* Mutant: the new share is compared with 100 alone.                       *)
UpdateAlone(c, h, share) ==
  /\ Owns(c, heirs, h) /\ share <= 100
  /\ heirs' = [heirs EXCEPT ![h].share = share] /\ UNCHANGED papers

UpdateBeneficiary(c, h, share) ==
  /\ Owns(c, heirs, h)
  /\ SharesOf(c, heirs[h].rank, {h}) + share <= 100
  /\ heirs' = [heirs EXCEPT ![h].share = share] /\ UNCHANGED papers

RemoveBeneficiary(c, h) ==
  Owns(c, heirs, h) /\ heirs' = Dropped(heirs, h) /\ UNCHANGED papers

KeepDocument(c, d) ==
  /\ d \notin DOMAIN papers
  /\ papers' = Stored(papers, d, [owner |-> c, reads |-> 0]) /\ UNCHANGED heirs

ReadDocument(c, d) ==
  /\ Owns(c, papers, d) /\ papers[d].reads < MaxReads
  /\ papers' = [papers EXCEPT ![d].reads = @ + 1] /\ UNCHANGED heirs

(* The retention date is not looked at.                                    *)
RemoveDocument(c, d) ==
  Owns(c, papers, d) /\ papers' = Dropped(papers, d) /\ UNCHANGED heirs

HeirNext ==
  \/ \E c \in Customers, h \in Heirs :
       \/ RemoveBeneficiary(c, h)
       \/ \E s \in Shares : UpdateBeneficiary(c, h, s) \/ \E r \in Ranks : AddBeneficiary(c, h, r, s)
  \/ \E c \in Customers, d \in Papers :
       KeepDocument(c, d) \/ ReadDocument(c, d) \/ RemoveDocument(c, d)

-----------------------------------------------------------------------------
Rank(status) ==
  CASE status = "ACHIEVED" -> 3 [] status = "ON_TRACK" -> 2 [] status = "BEHIND" -> 1 [] OTHER -> 0

(* The stores hold what their interfaces say.                              *)
PersonalTypeOK ==
  /\ \A a \in DOMAIN assets : assets[a] \in [owner : Customers, value : Worths]
  /\ \A l \in DOMAIN liabilities : liabilities[l] \in [owner : Customers, value : Worths]
  /\ \A k \in DOMAIN goals :
       goals[k].status \in {"ON_TRACK", "BEHIND", "AT_RISK", "ACHIEVED", "PAUSED"}
  /\ \A h \in DOMAIN heirs : heirs[h] \in [owner : Customers, rank : Ranks, share : Shares]
  /\ \A d \in DOMAIN papers : papers[d] \in [owner : Customers, reads : 0..MaxReads]

(* The net worth of a customer is the sum of that customer's changes.      *)
NetWorthFollows == \A c \in Customers : NetWorth(c) = worth[c]

(* What a goal's stored status says is never worse than what a listing     *)
(* computes today: only time passes unnoticed, and it never improves one.  *)
StoredStatusIsOld ==
  \A k \in DOMAIN goals : goals[k].status # "PAUSED" =>
    Rank(goals[k].status) >= Rank(ComputeGoalStatus(goals[k], month))

(* The shares of one designation of a customer never exceed the whole,     *)
(* whatever was added, changed and removed in between.                     *)
SharesWithinWhole ==
  \A c \in Customers, r \in Ranks : SharesOf(c, r, {}) <= 100
=============================================================================
