---------------------------- MODULE PrimeAccounts ----------------------------
(***************************************************************************)
(* PrimeBrokerageService: accounts with their stored metrics, positions,   *)
(* synthetic positions, financing facilities and rehypothecations, in      *)
(* memory, one call at a time.  A position is its side and market value.   *)
(* Nothing in the service changes the status of an account or a facility   *)
(* from ACTIVE, or reads maximumLeverage and rehypothecationLimit.         *)
(***************************************************************************)
EXTENDS Integers, FiniteSets, Functions

CONSTANTS
  Accounts, Positions, Synthetics, Facilities, Rehyps,
  NAVs,          \* net asset values
  Values,        \* market values of a position, without sign
  Draws, FacilityLimit

ASSUME PrimeConstants ==
  /\ IsFiniteSet(Positions) /\ IsFiniteSet(Facilities)
  /\ NAVs \subseteq Nat /\ Values \subseteq Nat /\ Draws \subseteq Nat /\ FacilityLimit \in Nat

VARIABLES
  primeAccount,  \* [open, lends, nav, debit, credit, long, short, equity, callLevel5];
                 \* lends is rehypothecationEnabled
  primePosition, \* [side, account, value, rehypothecated]
  synthetic,     \* status of each synthetic position
  facility,      \* [account, drawn, available]
  rehyp          \* [status, position]

primeVars == <<primeAccount, primePosition, synthetic, facility, rehyp>>

Account(open, lends, nav) ==
  [open |-> open, lends |-> lends, nav |-> nav, debit |-> 0, credit |-> nav, long |-> 0,
   short |-> 0, equity |-> nav, callLevel5 |-> 0]

PrimeInit ==
  /\ primeAccount = [x \in Accounts |-> Account(FALSE, FALSE, 0)]
  /\ primePosition = [p \in Positions |-> [side |-> "none"]]
  /\ synthetic = [s \in Synthetics |-> "none"]
  /\ facility = [f \in Facilities |-> [status |-> "none"]]
  /\ rehyp = [h \in Rehyps |-> [status |-> "none"]]

-----------------------------------------------------------------------------
Total(f) == FoldFunction(+, 0, f)

ValueOn(positions, x, side) ==
  Total([p \in Positions |->
           IF positions[p].side = side /\ positions[p].account = x THEN positions[p].value ELSE 0])

(* recalculateAccountMetrics.  The other stored figures (gross, net,       *)
(* leverage, initial and maintenance margin) are functions of these.       *)
Recalculated(account, positions, x) ==
  LET long == ValueOn(positions, x, "LONG")
      short == ValueOn(positions, x, "SHORT")
  IN [account EXCEPT !.long = long, !.short = short, !.equity = account.nav - account.debit,
                     !.callLevel5 = long + short + 5 * account.debit]

OpenPBAccount(x, lends, nav) ==
  /\ ~primeAccount[x].open
  /\ primeAccount' = [primeAccount EXCEPT ![x] = Account(TRUE, lends, nav)]
  /\ UNCHANGED <<primePosition, synthetic, facility, rehyp>>

UpdateNAV(x, nav) ==
  /\ primeAccount[x].open
  /\ primeAccount' = [primeAccount EXCEPT
       ![x] = Recalculated([@ EXCEPT !.nav = nav], primePosition, x)]
  /\ UNCHANGED <<primePosition, synthetic, facility, rehyp>>

AddPosition(p, x, side, v) ==
  /\ primePosition[p].side = "none" /\ primeAccount[x].open
  /\ primePosition' = [primePosition EXCEPT
       ![p] = [side |-> side, account |-> x, value |-> v, rehypothecated |-> FALSE]]
  /\ primeAccount' = [primeAccount EXCEPT ![x] = Recalculated(@, primePosition', x)]
  /\ UNCHANGED <<synthetic, facility, rehyp>>

(* Mutant: the account is recalculated from the positions before the update. *)
RepriceStale(p, v) ==
  /\ primePosition[p].side # "none"
  /\ primePosition' = [primePosition EXCEPT ![p].value = v]
  /\ LET x == primePosition[p].account IN
     primeAccount' = [primeAccount EXCEPT ![x] = Recalculated(@, primePosition, x)]
  /\ UNCHANGED <<synthetic, facility, rehyp>>

UpdatePositionPrice(p, v) ==
  /\ primePosition[p].side # "none"
  /\ primePosition' = [primePosition EXCEPT ![p].value = v]
  /\ LET x == primePosition[p].account IN
     primeAccount' = [primeAccount EXCEPT ![x] = Recalculated(@, primePosition', x)]
  /\ UNCHANGED <<synthetic, facility, rehyp>>

(* Synthetic exposure does not enter the metrics of the account.           *)
AddSyntheticPosition(s) ==
  /\ synthetic[s] = "none" /\ \E x \in Accounts : primeAccount[x].open
  /\ synthetic' = [synthetic EXCEPT ![s] = "ACTIVE"]
  /\ UNCHANGED <<primeAccount, primePosition, facility, rehyp>>

TerminateSynthetic(s) ==
  /\ synthetic[s] = "ACTIVE"
  /\ synthetic' = [synthetic EXCEPT ![s] = "TERMINATED"]
  /\ UNCHANGED <<primeAccount, primePosition, facility, rehyp>>

CreateFinancingFacility(f, x) ==
  /\ facility[f].status = "none" /\ primeAccount[x].open
  /\ facility' = [facility EXCEPT
       ![f] = [status |-> "ACTIVE", account |-> x, drawn |-> 0, available |-> FacilityLimit]]
  /\ UNCHANGED <<primeAccount, primePosition, synthetic, rehyp>>

DrawFacility(f, d) ==
  /\ facility[f].status = "ACTIVE"
  /\ d <= facility[f].available
  /\ facility' = [facility EXCEPT ![f].drawn = @ + d, ![f].available = @ - d]
  /\ LET x == facility[f].account
         a == primeAccount[x]
         charged == [a EXCEPT !.debit = @ + d, !.credit = IF @ > d THEN @ - d ELSE 0]
     IN primeAccount' = [primeAccount EXCEPT ![x] = Recalculated(charged, primePosition, x)]
  /\ UNCHANGED <<primePosition, synthetic, rehyp>>

(* No limit: neither the quantity of the position nor the account's limit. *)
RehypothecatePosition(h, p) ==
  /\ rehyp[h].status = "none"
  /\ primePosition[p].side = "LONG" /\ primeAccount[primePosition[p].account].lends
  /\ rehyp' = [rehyp EXCEPT ![h] = [status |-> "ACTIVE", position |-> p]]
  /\ primePosition' = [primePosition EXCEPT ![p].rehypothecated = TRUE]
  /\ UNCHANGED <<primeAccount, synthetic, facility>>

ReturnRehypothecation(h) ==
  LET p == rehyp[h].position IN
  /\ rehyp[h].status = "ACTIVE"
  /\ rehyp' = [rehyp EXCEPT ![h].status = "RETURNED"]
  /\ primePosition' = [primePosition EXCEPT ![p].rehypothecated =
       @ /\ \E g \in Rehyps : rehyp'[g].status = "ACTIVE" /\ rehyp'[g].position = p]
  /\ UNCHANGED <<primeAccount, synthetic, facility>>

PrimeNext ==
  \/ \E x \in Accounts, n \in NAVs :
       UpdateNAV(x, n) \/ \E lends \in BOOLEAN : OpenPBAccount(x, lends, n)
  \/ \E p \in Positions, v \in Values :
       \/ \E x \in Accounts, side \in {"LONG", "SHORT"} : AddPosition(p, x, side, v)
       \/ UpdatePositionPrice(p, v)
  \/ \E s \in Synthetics : AddSyntheticPosition(s) \/ TerminateSynthetic(s)
  \/ \E f \in Facilities :
       \/ \E x \in Accounts : CreateFinancingFacility(f, x)
       \/ \E d \in Draws : DrawFacility(f, d)
  \/ \E h \in Rehyps :
       \/ \E p \in Positions : RehypothecatePosition(h, p)
       \/ ReturnRehypothecation(h)

PrimeSpec == PrimeInit /\ [][PrimeNext]_primeVars

-----------------------------------------------------------------------------
(* The stores hold what their TypeScript types say.                        *)
PrimeTypeOK ==
  /\ primeAccount \in [Accounts -> [open : BOOLEAN, lends : BOOLEAN, nav : Nat, debit : Nat, credit : Nat, long : Nat,
                                    short : Nat, equity : Int, callLevel5 : Nat]]
  /\ primePosition \in [Positions ->
       [side : {"none"}] \cup [side : {"LONG", "SHORT"}, account : Accounts, value : Nat,
                               rehypothecated : BOOLEAN]]
  /\ synthetic \in [Synthetics -> {"none", "ACTIVE", "TERMINATED"}]
  /\ facility \in [Facilities ->
       [status : {"none"}]
         \cup [status : {"ACTIVE"}, account : Accounts, drawn : Nat, available : Nat]]
  /\ rehyp \in [Rehyps -> [status : {"none"}]
                  \cup [status : {"ACTIVE", "RETURNED"}, position : Positions]]

Drawn(x) ==
  Total([f \in Facilities |->
           IF facility[f].status = "ACTIVE" /\ facility[f].account = x THEN facility[f].drawn ELSE 0])

(* The figures an account stores are never stale: after any sequence of    *)
(* position, price, NAV and facility updates they are what its positions,  *)
(* its NAV and everything drawn on its facilities give.                    *)
MetricsFresh ==
  \A x \in Accounts :
    LET a == primeAccount[x] IN
    /\ a.debit = Drawn(x)
    /\ a.long = ValueOn(primePosition, x, "LONG") /\ a.short = ValueOn(primePosition, x, "SHORT")
    /\ a.equity = a.nav - a.debit

(* A position is flagged as rehypothecated exactly while one of its        *)
(* records is ACTIVE, whatever the order in which the uses are returned.   *)
RehypFlagAgrees ==
  \A p \in Positions :
    primePosition[p].side # "none" =>
      (primePosition[p].rehypothecated
         <=> \E h \in Rehyps : rehyp[h].status = "ACTIVE" /\ rehyp[h].position = p)

(* What a prime account stores about its positions, facilities and         *)
(* rehypothecations is never stale.                                        *)
PrimeSound == MetricsFresh /\ RehypFlagAgrees
=============================================================================
