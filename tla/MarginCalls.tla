----------------------------- MODULE MarginCalls -----------------------------
(***************************************************************************)
(* MarginCallService of the prime broker: the exposure under one agreement *)
(* and the life of its margin calls, in memory, one call at a time.        *)
(* Amounts are integers in the unit the agreement rounds to one decimal of. *)
(* The initial margin (SIMM, SPAN, schedule or VaR proxy, with the         *)
(* independent amount) is an input: its formula reads no state.            *)
(* Agreements stay ACTIVE: no operation changes their status.              *)
(***************************************************************************)
EXTENDS Integers

CONSTANTS
  Calls,
  MTA,           \* minimumTransferAmount
  Rounding,
  Threshold,
  MTMs,          \* mark-to-market values, of either sign
  InitialMargins,
  HeldAmounts,   \* collateral already held
  Deliveries,    \* amounts delivered
  AgreedAmounts, \* outcomes of a dispute
  SettlementLag,
  LastMarginDay

ASSUME MarginConstants ==
  /\ MTA \in Nat /\ Rounding \in Nat \ {0} /\ Threshold \in Nat
  /\ MTMs \subseteq Int /\ InitialMargins \subseteq Nat /\ HeldAmounts \subseteq Nat
  /\ Deliveries \subseteq Nat \ {0} /\ AgreedAmounts \subseteq Int
  /\ SettlementLag \in Nat /\ LastMarginDay \in Nat

VARIABLES
  exposure,    \* marginCallAmount of the last exposure calculated
  marginCall,  \* calls by id: [status, amount, cured, outstanding, due, issued]
  marginDay

marginVars == <<exposure, marginCall, marginDay>>

NoCall == [status |-> "none", amount |-> 0, cured |-> 0, outstanding |-> 0, due |-> 0, issued |-> 0]

MarginInit == exposure = 0 /\ marginCall = [c \in Calls |-> NoCall] /\ marginDay = 0

Clamped(n) == IF n > 0 THEN n ELSE 0
Size(n) == IF n < 0 THEN -n ELSE n

-----------------------------------------------------------------------------
(* roundToNearest: ROUND_HALF_UP rounds a half away from zero.             *)
RoundToNearest(v) ==
  LET up == ((2 * Size(v) + Rounding) \div (2 * Rounding)) * Rounding
  IN IF v < 0 THEN -up ELSE up

VMRequired(mtm) == Clamped(Size(mtm) - Threshold)

(* The minimum transfer amount filters the raw amount, then it is rounded. *)
CallFor(mtm, im, held) ==
  LET raw == VMRequired(mtm) + im - held
  IN RoundToNearest(IF Size(raw) >= MTA THEN raw ELSE 0)

CalculateExposure(mtm, im, held) ==
  /\ exposure' = CallFor(mtm, im, held)
  /\ UNCHANGED <<marginCall, marginDay>>

(* The amount of the call is a parameter; the desk sends the exposure's.   *)
IssueMarginCall(c) ==
  /\ marginCall[c].status = "none"
  /\ Size(exposure) >= MTA
  /\ marginCall' = [marginCall EXCEPT ![c] =
       [status |-> "OPEN", amount |-> exposure, cured |-> 0, outstanding |-> exposure,
        due |-> marginDay + SettlementLag, issued |-> exposure]]
  /\ UNCHANGED <<exposure, marginDay>>

(* A delivery is recorded under a dispute too, and ends the dispute.       *)
RecordDelivery(c, a) ==
  LET left == marginCall[c].amount - (marginCall[c].cured + a) IN
  /\ marginCall[c].status \notin {"none", "CURED", "DEFAULTED", "CANCELLED"}
  /\ marginCall' = [marginCall EXCEPT ![c].cured = @ + a, ![c].outstanding = Clamped(left),
                      ![c].status = IF left <= 0 THEN "CURED" ELSE "PARTIALLY_CURED"]
  /\ UNCHANGED <<exposure, marginDay>>

(* Mutant: a defaulted call can be disputed.                               *)
DisputeDefaulted(c) ==
  /\ marginCall[c].status \notin {"none", "CURED"}
  /\ marginCall' = [marginCall EXCEPT ![c].status = "DISPUTED"]
  /\ UNCHANGED <<exposure, marginDay>>

(* A cancelled call can be disputed, which brings it back to life.         *)
OpenDispute(c) ==
  /\ marginCall[c].status \notin {"none", "CURED", "DEFAULTED"}
  /\ marginCall' = [marginCall EXCEPT ![c].status = "DISPUTED"]
  /\ UNCHANGED <<exposure, marginDay>>

ResolveDispute(c, agreed) ==
  LET left == agreed - marginCall[c].cured IN
  /\ marginCall[c].status = "DISPUTED"
  /\ marginCall' = [marginCall EXCEPT ![c].amount = agreed, ![c].outstanding = Clamped(left),
                      ![c].status = IF left <= 0 THEN "CURED" ELSE "OPEN"]
  /\ UNCHANGED <<exposure, marginDay>>

(* A cancelled or a disputed call past its due date can be defaulted.      *)
SendDefaultNotice(c) ==
  /\ marginCall[c].status \notin {"none", "CURED"}
  /\ marginDay > marginCall[c].due
  /\ marginCall' = [marginCall EXCEPT ![c].status = "DEFAULTED"]
  /\ UNCHANGED <<exposure, marginDay>>

CancelCall(c) ==
  /\ marginCall[c].status \notin {"none", "CURED", "DEFAULTED"}
  /\ marginCall' = [marginCall EXCEPT ![c].status = "CANCELLED"]
  /\ UNCHANGED <<exposure, marginDay>>

NextMarginDay ==
  /\ marginDay < LastMarginDay
  /\ marginDay' = marginDay + 1
  /\ UNCHANGED <<exposure, marginCall>>

MarginNext ==
  \/ \E mtm \in MTMs, im \in InitialMargins, held \in HeldAmounts :
       CalculateExposure(mtm, im, held)
  \/ \E c \in Calls :
       \/ IssueMarginCall(c) \/ OpenDispute(c) \/ SendDefaultNotice(c) \/ CancelCall(c)
       \/ \E a \in Deliveries : RecordDelivery(c, a)
       \/ \E a \in AgreedAmounts : ResolveDispute(c, a)
  \/ NextMarginDay

MarginSpec == MarginInit /\ [][MarginNext]_marginVars

-----------------------------------------------------------------------------
CallStatuses ==
  {"none", "OPEN", "PARTIALLY_CURED", "DISPUTED", "CURED", "DEFAULTED", "CANCELLED"}

(* The stores hold what their TypeScript types say.                        *)
MarginTypeOK ==
  /\ exposure \in Int /\ marginDay \in Nat
  /\ marginCall \in [Calls -> [status : CallStatuses, amount : Int, cured : Nat,
                               outstanding : Int, due : Nat, issued : Int]]

(* A call for collateral is CURED exactly when its deliveries cover the    *)
(* amount called or agreed, through disputes, resolutions, cancellations   *)
(* and default notices; until then the outstanding amount is what is left. *)
(* (A call to return collateral is negative, and any delivery cures it.)   *)
CuredIffCovered ==
  \A c \in Calls :
    LET k == marginCall[c] IN
    k.issued > 0 => /\ (k.status = "CURED") <=> (k.cured >= k.amount)
                    /\ k.outstanding = Clamped(k.amount - k.cured)

(* The verdict on a call stands: once CURED or DEFAULTED, its status and   *)
(* amounts never change.  (CANCELLED does not stand.)                      *)
VerdictsStand ==
  [][\A c \in Calls : marginCall[c].status \in {"CURED", "DEFAULTED"}
                        => marginCall'[c] = marginCall[c]]_marginVars

(* calculateExposure and issueMarginCall agree on the minimum: a nonzero   *)
(* call amount can be issued.  It is rounded after the minimum has been    *)
(* applied, so this needs a minimum that is a multiple of the rounding.    *)
ExposureIssuable ==
  MTA % Rounding = 0 => exposure = 0 \/ Size(exposure) >= MTA

(* A margin call tells the truth about its deliveries, its verdict stands, *)
(* and what is computed as due can be called.                              *)
MarginSound == [](CuredIffCovered /\ ExposureIssuable) /\ VerdictsStand
=============================================================================
