----------------------------- MODULE SagaProofs -----------------------------
(***************************************************************************)
(* Theorems about TransferSaga, for every set of calls, keys and accounts, *)
(* every transfer and any number of crashes and status changes.            *)
(***************************************************************************)
EXTENDS TransferSaga, TLAPS

(* What the assumptions say of the transfer a call asks for.               *)
LEMMA DtoTyped ==
  ASSUME NEW c \in Calls
  PROVE  /\ KeyOf[c] \in Keys
         /\ D(c).source \in Accounts
         /\ D(c).dest \in Accounts
         /\ D(c).amount \in Nat
BY SagaConstants DEF D

(* An exception always leads to a statement or to the end of the call.     *)
LEMMA HandlerTyped == \A p : Handler(p) \in {"compensate", "markFailed", "error"}
BY DEF Handler

(* Both triggers yield account rows.                                       *)
LEMMA TriggersTyped ==
  ASSUME NEW row \in Row, NEW n \in Int
  PROVE  AfterHoldUpdate(row, n) \in Row /\ AfterLedgerEntry(row, n) \in Row
BY DEF AfterHoldUpdate, AfterLedgerEntry, Row

(* The two legs of a journal leave typed rows and sums behind.             *)
LEMMA PostLegsTyped ==
  ASSUME NEW a \in Accounts, NEW b \in Accounts, NEW m \in Int, NEW n \in Int,
         acct \in [Accounts -> Row], booked \in [Accounts -> Int], PostLegs(a, m, b, n)
  PROVE  acct' \in [Accounts -> Row] /\ booked' \in [Accounts -> Int]
<1>1. booked' \in [Accounts -> Int]
  BY DEF PostLegs
<1>2. ASSUME NEW x \in Accounts
      PROVE  AfterLedgerEntry(acct[x], IF a = b THEN booked[x] + m ELSE booked[x]) \in Row
  BY TriggersTyped
<1>3. acct' \in [Accounts -> Row]
  BY <1>2 DEF PostLegs
<1> QED
  BY <1>1, <1>3

(* The counters of the environment stay within their bounds.               *)
LEMMA SpentTyped ==
  ASSUME NEW c, NEW next, TypeOK, Advance(c, next) \/ Throw(c)
  PROVE  spent' \in [faults : 0..MaxFaults, acks : 0..MaxLostAcks,
                     crashes : 0..MaxCrashes, freezes : 0..MaxFreezes]
<1> DEFINE S == [faults : 0..MaxFaults, acks : 0..MaxLostAcks,
                 crashes : 0..MaxCrashes, freezes : 0..MaxFreezes]
<1>1. spent \in S /\ spent.acks \in 0..MaxLostAcks
  BY DEF TypeOK
<1>2. CASE spent' = spent
  BY <1>1, <1>2
<1>3. CASE spent.acks < MaxLostAcks /\ spent' = [spent EXCEPT !.acks = @ + 1]
  <2>1. spent.acks + 1 \in 0..MaxLostAcks
    BY <1>1, <1>3, SagaConstants
  <2> QED
    BY <1>1, <1>3, <2>1
<1> QED
  BY <1>2, <1>3 DEF Advance, Throw

(* Wherever an acknowledged, lost or refused statement leads.              *)
LEMMA PcAfter ==
  ASSUME NEW c \in Calls, NEW next \in Statements \cup Ended, TypeOK,
         Advance(c, next) \/ Throw(c)
  PROVE  /\ pc' \in [Calls -> Statements \cup Ended]
         /\ \A d \in Calls : d # c => pc'[d] = pc[d]
         /\ pc'[c] \in {next, Handler(pc[c])}
BY HandlerTyped DEF Advance, Throw, Goto, TypeOK, Statements, Ended

-----------------------------------------------------------------------------
(* Types and exclusion.                                                    *)

(* The part of TypeOK that only depends on the statement a call is at: a   *)
(* row created once stays, and only running calls change it.               *)
TypesOfData ==
  /\ local \in [Calls -> [hold : Int, holdPlaced : BOOLEAN]]
  /\ txn \in [Keys -> [status : {"none", "PENDING", "PROCESSING", "COMPLETED", "FAILED"},
                       holdPlaced : BOOLEAN, linked : BOOLEAN]]
  /\ acct \in [Accounts -> Row]
  /\ status \in [Accounts -> Statuses]
  /\ saves \subseteq [account : Accounts, row : Row, to : Statuses]
  /\ booked \in [Accounts -> Int]
  /\ posted \in [Keys -> 0..1] /\ reversed \in [Keys -> 0..1]

TypesOfControl ==
  /\ pc \in [Calls -> Statements \cup Ended]
  /\ spent \in [faults : 0..MaxFaults, acks : 0..MaxLostAcks,
                crashes : 0..MaxCrashes, freezes : 0..MaxFreezes]

(* Every step keeps the control state typed.                               *)
LEMMA ControlStep == TypeOK /\ [Next]_vars => TypesOfControl'
<1> SUFFICES ASSUME TypeOK, [Next]_vars PROVE TypesOfControl'
  OBVIOUS
<1> USE DEF TypesOfControl
<1>1. ASSUME NEW c \in Calls, Step(c) PROVE TypesOfControl'
  <2>0. ASSUME NEW next \in Statements \cup Ended, Advance(c, next) \/ Throw(c)
        PROVE  TypesOfControl'
    BY <2>0, PcAfter, SpentTyped
  <2>1. ASSUME NEW next \in Statements \cup Ended, Goto(c, next), UNCHANGED spent
        PROVE  TypesOfControl'
    BY <2>1 DEF TypeOK, Goto
  <2> USE DEF Statements, TryBlock, CompensationTry, Ended
  <2>2. CASE Lookup(c)
    BY <2>2, <2>1 DEF Lookup
  <2>3. CASE Create(c) \/ Begin(c)
    BY <2>3, <2>0 DEF Create, Begin
  <2>4. CASE Validate(c) \/ HoldRead(c)
    BY <2>4, <2>0, <2>1 DEF Validate, HoldRead
  <2>5. CASE HoldWrite(c) \/ HoldMark(c)
    BY <2>5, <2>0 DEF HoldWrite, HoldMark
  <2>6. CASE PostJournal(c) \/ LinkJournal(c)
    BY <2>6, <2>0 DEF PostJournal, LinkJournal
  <2>7. CASE ReleaseRead(c) \/ ReleaseWrite(c)
    BY <2>7, <2>0, <2>1 DEF ReleaseRead, ReleaseWrite
  <2>8. CASE Complete(c) \/ MarkFailed(c)
    BY <2>8, <2>0 DEF Complete, MarkFailed
  <2>9. CASE Compensate(c)
    BY <2>9, <2>1 DEF Compensate, AfterReverse
  <2>10. CASE Reverse(c)
    BY <2>10, <2>0 DEF Reverse, AfterReverse
  <2> QED
    BY <1>1, <2>2, <2>3, <2>4, <2>5, <2>6, <2>7, <2>8, <2>9, <2>10 DEF Step
<1>2. ASSUME NEW c \in Calls, Fault(c) PROVE TypesOfControl'
  <2>1. pc' \in [Calls -> Statements \cup Ended]
    BY <1>2, HandlerTyped DEF Fault, Goto, TypeOK, Statements, Ended
  <2>2. spent.faults \in 0..MaxFaults /\ spent.faults + 1 \in 0..MaxFaults
    BY <1>2, SagaConstants DEF Fault, TypeOK
  <2> QED
    BY <1>2, <2>1, <2>2 DEF Fault, TypeOK
<1>3. ASSUME NEW c \in Calls, Crash(c) PROVE TypesOfControl'
  <2>2. spent.crashes \in 0..MaxCrashes /\ spent.crashes + 1 \in 0..MaxCrashes
    BY <1>3, SagaConstants DEF Crash, TypeOK
  <2> QED
    BY <1>3, <2>2 DEF Crash, Goto, TypeOK, Ended
<1>4. ASSUME NEW a, NEW to, StatusRead(a, to) PROVE TypesOfControl'
  <2>2. spent.freezes \in 0..MaxFreezes /\ spent.freezes + 1 \in 0..MaxFreezes
    BY <1>4, SagaConstants DEF StatusRead, TypeOK
  <2> QED
    BY <1>4, <2>2 DEF StatusRead, TypeOK
<1>5. ASSUME NEW s, StatusSave(s) PROVE TypesOfControl'
  BY <1>5 DEF StatusSave, TypeOK
<1>6. CASE UNCHANGED vars
  BY <1>6 DEF vars, TypeOK
<1> QED
  BY <1>1, <1>2, <1>3, <1>4, <1>5, <1>6 DEF Next, Finished

(* Every step keeps the rows and the ledger typed.                         *)
LEMMA DataStep == TypeOK /\ [Next]_vars => TypesOfData'
<1> SUFFICES ASSUME TypeOK, [Next]_vars PROVE TypesOfData'
  OBVIOUS
<1>0. TypesOfData
  BY DEF TypesOfData, TypeOK
<1>1. ASSUME NEW c \in Calls, Step(c) PROVE TypesOfData'
  <2> DEFINE k == KeyOf[c]
  <2>0. k \in Keys /\ D(c).source \in Accounts /\ D(c).dest \in Accounts /\ D(c).amount \in Nat
    BY DtoTyped
  <2>1. CASE Lookup(c) \/ Validate(c)
    BY <2>1, <1>0 DEF Lookup, Validate, TypesOfData
  <2>2. CASE Create(c) \/ Begin(c) \/ HoldMark(c) \/ LinkJournal(c)
    <3>1. /\ UNCHANGED <<local, acct, status, saves, booked, posted, reversed>>
          /\ \/ txn' = txn
             \/ \E st \in {"PENDING", "PROCESSING"} : txn' = [txn EXCEPT ![k].status = st]
             \/ txn' = [txn EXCEPT ![k].holdPlaced = TRUE]
             \/ txn' = [txn EXCEPT ![k].linked = TRUE]
      BY <2>2 DEF Create, Begin, HoldMark, LinkJournal
    <3> DEFINE T1 == [status : {"none", "PENDING", "PROCESSING", "COMPLETED", "FAILED"},
                      holdPlaced : BOOLEAN, linked : BOOLEAN]
    <3>2. txn \in [Keys -> T1]
      BY <1>0 DEF TypesOfData
    <3>3. txn' \in [Keys -> T1]
      BY <3>1, <3>2, <2>0
    <3> QED
      BY <1>0, <3>1, <3>3 DEF TypesOfData
  <2>3. CASE HoldRead(c) \/ ReleaseRead(c)
    <3>1. acct[D(c).source].hold \in Int
      BY <1>0, <2>0 DEF TypesOfData, Row
    <3>2. /\ acct[D(c).source].hold + D(c).amount \in Int
          /\ acct[D(c).source].hold - D(c).amount \in Int
      BY <3>1, <2>0
    <3>3. /\ UNCHANGED <<txn, acct, status, saves, booked, posted, reversed>>
          /\ local' = local \/ \E h \in Int : local' = [local EXCEPT ![c].hold = h]
      BY <2>3, <3>2 DEF HoldRead, ReleaseRead
    <3>4. local' \in [Calls -> [hold : Int, holdPlaced : BOOLEAN]]
      BY <1>0, <3>3 DEF TypesOfData
    <3> QED
      BY <1>0, <3>3, <3>4 DEF TypesOfData
  <2>4. CASE HoldWrite(c) \/ ReleaseWrite(c)
    <3>1. local[c].hold \in Int /\ acct[D(c).source] \in Row
      BY <1>0, <2>0 DEF TypesOfData
    <3>2. AfterHoldUpdate(acct[D(c).source], local[c].hold) \in Row
      BY <3>1, TriggersTyped
    <3> QED
      BY <2>4, <1>0, <3>2 DEF HoldWrite, ReleaseWrite, TypesOfData
  <2>5. CASE PostJournal(c)
    <3>1. CASE PostLegs(D(c).source, -D(c).amount, D(c).dest, D(c).amount)
               /\ posted' = [posted EXCEPT ![k] = 1]
      <4>1. D(c).amount \in Int /\ -D(c).amount \in Int
        BY <2>0
      <4>2. acct' \in [Accounts -> Row] /\ booked' \in [Accounts -> Int]
        BY <3>1, <4>1, <1>0, <2>0, PostLegsTyped DEF TypesOfData
      <4> QED
        BY <2>5, <1>0, <2>0, <3>1, <4>2 DEF PostJournal, TypesOfData
    <3>2. CASE UNCHANGED <<acct, booked, posted>>
      BY <2>5, <1>0, <3>2 DEF PostJournal, TypesOfData
    <3> QED
      BY <2>5, <3>1, <3>2 DEF PostJournal
  <2>6. CASE Reverse(c)
    <3>1. CASE PostLegs(D(c).source, D(c).amount, D(c).dest, -D(c).amount)
               /\ reversed' = [reversed EXCEPT ![k] = 1]
      <4>1. D(c).amount \in Int /\ -D(c).amount \in Int
        BY <2>0
      <4>2. acct' \in [Accounts -> Row] /\ booked' \in [Accounts -> Int]
        BY <3>1, <4>1, <1>0, <2>0, PostLegsTyped DEF TypesOfData
      <4> QED
        BY <2>6, <1>0, <2>0, <3>1, <4>2 DEF Reverse, TypesOfData
    <3>2. CASE UNCHANGED <<acct, booked, reversed>>
      BY <2>6, <1>0, <3>2 DEF Reverse, TypesOfData
    <3> QED
      BY <2>6, <3>1, <3>2 DEF Reverse
  <2>7. CASE Complete(c) \/ MarkFailed(c)
    <3>1. \E st \in {"COMPLETED", "FAILED"} :
            txn' = [txn EXCEPT ![k] = [status |-> st, holdPlaced |-> FALSE, linked |-> txn[k].linked]]
      BY <2>7, <1>0, <2>0 DEF Complete, MarkFailed, TypesOfData
    <3>2. txn[k].linked \in BOOLEAN
      BY <1>0, <2>0 DEF TypesOfData
    <3> QED
      BY <2>7, <1>0, <2>0, <3>1, <3>2 DEF Complete, MarkFailed, TypesOfData
  <2>8. CASE Compensate(c)
    BY <2>8, <1>0, <2>0 DEF Compensate, TypesOfData
  <2> QED
    BY <1>1, <2>1, <2>2, <2>3, <2>4, <2>5, <2>6, <2>7, <2>8 DEF Step
<1>2. ASSUME NEW c \in Calls, Fault(c) \/ Crash(c) PROVE TypesOfData'
  BY <1>2, <1>0 DEF Fault, Crash, TypesOfData
<1>3. ASSUME NEW a \in Accounts, NEW to \in Statuses, StatusRead(a, to) PROVE TypesOfData'
  BY <1>3, <1>0 DEF StatusRead, TypesOfData
<1>4. ASSUME NEW s \in saves, StatusSave(s) PROVE TypesOfData'
  <2>1. s.account \in Accounts /\ s.row \in Row /\ s.to \in Statuses
    BY <1>0 DEF TypesOfData
  <2> QED
    BY <1>4, <1>0, <2>1 DEF StatusSave, TypesOfData
<1>5. CASE UNCHANGED vars
  BY <1>5, <1>0 DEF vars, TypesOfData
<1> QED
  BY <1>1, <1>2, <1>3, <1>4, <1>5 DEF Next, Finished

RowsExist == \A c \in Running : txn[KeyOf[c]].status # "none"

(* A call starts to run only by inserting the row of its key, and no row   *)
(* is ever deleted.                                                        *)
LEMMA RunningStep ==
  ASSUME TypeOK, [Next]_vars
  PROVE  /\ \A k \in Keys : txn[k].status # "none" => txn'[k].status # "none"
         /\ \A d \in Running' \ Running :
              /\ Running' \subseteq Running \cup {d}
              /\ txn[KeyOf[d]].status = "none"
              /\ txn'[KeyOf[d]].status # "none"
<1> DEFINE Kept == \A k \in Keys : txn[k].status # "none" => txn'[k].status # "none"
           Enters(d) == /\ Running' \subseteq Running \cup {d}
                        /\ txn[KeyOf[d]].status = "none"
                        /\ txn'[KeyOf[d]].status # "none"
           Goal == Kept /\ \A d \in Running' \ Running : Enters(d)
<1>t. /\ pc \in [Calls -> Statements \cup Ended]
      /\ txn \in [Keys -> [status : {"none", "PENDING", "PROCESSING", "COMPLETED", "FAILED"},
                           holdPlaced : BOOLEAN, linked : BOOLEAN]]
  BY DEF TypeOK
<1>1. ASSUME NEW c \in Calls, Step(c) PROVE Goal
  <2>0. KeyOf[c] \in Keys
    BY DtoTyped
  <2>1. ASSUME \A d \in Calls : d # c => pc'[d] = pc[d], c \in Running \/ c \notin Running'
        PROVE  Running' \subseteq Running
    BY <2>1 DEF Running
  <2>2. CASE Lookup(c)
    BY <2>2, <1>t, <2>1 DEF Lookup, Goto, Running, Ended
  <2>3. CASE Create(c)
    <3>1. /\ \A d \in Calls : d # c => pc'[d] = pc[d]
          /\ pc'[c] \in {"begin", "error"}
      BY <2>3, PcAfter DEF Create, Handler, TryBlock, CompensationTry, Statements
    <3>2. CASE txn[KeyOf[c]].status # "none" \/ D(c).amount = 0
      <4>1. pc'[c] = "error" /\ txn' = txn
        BY <2>3, <3>2, <1>t DEF Create, Throw, Goto, Handler, TryBlock, CompensationTry
      <4> QED
        BY <3>1, <4>1, <2>1 DEF Running, Ended
    <3>3. CASE txn[KeyOf[c]].status = "none" /\ D(c).amount # 0
      <4>1. txn' = [txn EXCEPT ![KeyOf[c]].status = "PENDING"]
        BY <2>3, <3>3 DEF Create
      <4>2. Kept /\ txn'[KeyOf[c]].status # "none"
        BY <4>1, <2>0, <1>t
      <4>3. \A d \in Running' \ Running : d = c
        BY <3>1 DEF Running
      <4> QED
        BY <3>3, <4>2, <4>3
    <3> QED
      BY <3>2, <3>3
  <2>4. CASE Begin(c) \/ HoldMark(c) \/ LinkJournal(c) \/ Complete(c) \/ MarkFailed(c)
    <3>1. Kept
      BY <2>4, <2>0, <1>t DEF Begin, HoldMark, LinkJournal, Complete, MarkFailed
    <3>2. /\ \A d \in Calls : d # c => pc'[d] = pc[d]
          /\ c \in Running
      BY <2>4, <1>t, PcAfter
         DEF Begin, HoldMark, LinkJournal, Complete, MarkFailed, Running, Ended,
             Statements, TryBlock, CompensationTry
    <3> QED
      BY <3>1, <3>2, <2>1
  <2>5. CASE Validate(c) \/ HoldRead(c) \/ HoldWrite(c) \/ PostJournal(c)
    <3>1. \A d \in Calls : d # c => pc'[d] = pc[d]
      BY <2>5, <1>t DEF Validate, HoldRead, HoldWrite, PostJournal, Advance, Throw, Goto
    <3>2. c \in Running /\ txn' = txn
      BY <2>5 DEF Validate, HoldRead, HoldWrite, PostJournal, Running, Ended
    <3> QED
      BY <3>1, <3>2, <2>1
  <2>6. CASE ReleaseRead(c) \/ ReleaseWrite(c) \/ Compensate(c) \/ Reverse(c)
    <3>1. \A d \in Calls : d # c => pc'[d] = pc[d]
      BY <2>6, <1>t DEF ReleaseRead, ReleaseWrite, Compensate, Reverse, Advance, Throw, Goto
    <3>2. c \in Running /\ txn' = txn
      BY <2>6 DEF ReleaseRead, ReleaseWrite, Compensate, Reverse, Running, Ended
    <3> QED
      BY <3>1, <3>2, <2>1
  <2> QED
    BY <1>1, <2>2, <2>3, <2>4, <2>5, <2>6 DEF Step
<1>2. ASSUME NEW c \in Calls, Fault(c) PROVE Goal
  <2>1. Running' \subseteq Running /\ txn' = txn
    BY <1>2, <1>t DEF Fault, Goto, Running, Ended, Handler, TryBlock, CompensationTry
  <2> QED
    BY <2>1
<1>3. ASSUME NEW c \in Calls, Crash(c) PROVE Goal
  <2>1. Running' \subseteq Running /\ txn' = txn
    BY <1>3, <1>t DEF Crash, Goto, Running, Ended
  <2> QED
    BY <2>1
<1>4. CASE UNCHANGED <<pc, txn>>
  <2>1. Running' = Running
    BY <1>4 DEF Running
  <2> QED
    BY <1>4, <2>1
<1> QED
  BY <1>1, <1>2, <1>3, <1>4 DEF Next, Finished, StatusRead, StatusSave, vars

(* TypeOK and exclusion together are inductive.                            *)
LEMMA SafeInit == Init => TypeOK /\ OneSagaPerKey
<1> SUFFICES ASSUME Init PROVE TypeOK /\ OneSagaPerKey
  OBVIOUS
<1>1. Running = {}
  BY DEF Init, Running
<1>2. Row = [balance : Int, avail : Int, hold : Int, overdraft : Nat]
  BY DEF Row
<1>3. \A a \in Accounts : Opening[a].before \in Int /\ Opening[a].last \in Int
  BY SagaConstants
<1>4. acct \in [Accounts -> Row] /\ booked \in [Accounts -> Int]
  BY <1>2, <1>3 DEF Init
<1>5. spent \in [faults : 0..MaxFaults, acks : 0..MaxLostAcks,
                 crashes : 0..MaxCrashes, freezes : 0..MaxFreezes]
  BY SagaConstants DEF Init
<1>6. /\ pc \in [Calls -> Statements \cup Ended]
      /\ local \in [Calls -> [hold : Int, holdPlaced : BOOLEAN]]
      /\ status \in [Accounts -> Statuses]
      /\ saves = {}
  BY DEF Init, Statements, Statuses
<1>7. /\ txn \in [Keys -> [status : {"none", "PENDING", "PROCESSING", "COMPLETED", "FAILED"},
                           holdPlaced : BOOLEAN, linked : BOOLEAN]]
      /\ posted \in [Keys -> 0..1] /\ reversed \in [Keys -> 0..1]
  BY DEF Init
<1> QED
  BY <1>1, <1>4, <1>5, <1>6, <1>7 DEF TypeOK, OneSagaPerKey

(* Every step preserves types and exclusion.                               *)
LEMMA SafeStep == TypeOK /\ OneSagaPerKey /\ [Next]_vars => (TypeOK /\ OneSagaPerKey)'
<1> SUFFICES ASSUME TypeOK, OneSagaPerKey, [Next]_vars PROVE (TypeOK /\ OneSagaPerKey)'
  OBVIOUS
<1>1. \A c \in Running : c \in Calls /\ KeyOf[c] \in Keys /\ txn[KeyOf[c]].status # "none"
  BY DtoTyped DEF Running, TypeOK
<1>2. \A c \in Running' : txn'[KeyOf[c]].status # "none"
  BY <1>1, RunningStep
<1>3. OneSagaPerKey'
  <2> SUFFICES ASSUME NEW c \in Running', NEW d \in Running', KeyOf[c] = KeyOf[d] PROVE c = d
    BY DEF OneSagaPerKey
  <2>1. CASE c \in Running /\ d \in Running
    BY <2>1 DEF OneSagaPerKey
  <2>2. CASE c \notin Running
    BY <2>2, <1>1, RunningStep
  <2>3. CASE d \notin Running
    BY <2>3, <1>1, RunningStep
  <2> QED
    BY <2>1, <2>2, <2>3
<1>4. TypesOfControl' /\ TypesOfData'
  BY ControlStep, DataStep
<1> QED
  BY <1>2, <1>3, <1>4 DEF TypeOK, TypesOfControl, TypesOfData

(* However calls interleave, fail, crash or lose acknowledgements: every   *)
(* variable keeps its type, and whatever runs has a row of its key ...     *)
THEOREM TypeCorrect == Spec => []TypeOK
BY SafeInit, SafeStep, PTL DEF Spec

(* ... and one call at most runs the saga of a key.                        *)
THEOREM OneSaga == Spec => []OneSagaPerKey
BY SafeInit, SafeStep, PTL DEF Spec

-----------------------------------------------------------------------------
(* Holds.                                                                  *)

(* No two transfers debit the same account: what a class comment that      *)
(* promises released holds silently relies on.                             *)
SourcesApart == \A j, k \in Keys : Dto[j].source = Dto[k].source => j = k

(* The statements between the write of the hold and that of its release.   *)
Holding(c) == pc[c] \in {"holdMark", "post", "link", "releaseRead", "releaseWrite"}

(* The statements from which compensate would find nothing to undo.        *)
Early(c) == pc[c] \in {"begin", "validate", "holdRead", "holdWrite", "compensate"}

CallHolds(c) ==
  /\ pc[c] \notin {"crashed", "reverse", "unholdRead", "unholdWrite"}
  /\ Early(c) => ~txn[KeyOf[c]].holdPlaced /\ ~txn[KeyOf[c]].linked
  /\ pc[c] = "holdWrite" => local[c].hold = D(c).amount
  /\ pc[c] = "releaseWrite" => local[c].hold = 0
  /\ Holding(c) => acct[D(c).source].hold = D(c).amount

(* While nothing disturbs the sagas the hold of an account is that of the  *)
(* transfer that debits it, between those two writes, and zero otherwise.  *)
HoldInv ==
  /\ saves = {}
  /\ \A k \in Keys : txn[k].status = "none" => ~txn[k].holdPlaced /\ ~txn[k].linked
  /\ \A c \in Calls : CallHolds(c)
  /\ \A a \in Accounts : (\A c \in Calls : Holding(c) => D(c).source # a) => acct[a].hold = 0

(* What has been spent stays spent, so an undisturbed step is a statement  *)
(* that takes effect and is acknowledged.                                  *)
LEMMA QuietStep ==
  ASSUME TypeOK, [Next]_vars, Undisturbed'
  PROVE  /\ Undisturbed /\ spent' = spent
         /\ saves = {} => (\E c \in Calls : Step(c)) \/ UNCHANGED vars
<1>0. /\ spent.faults \in Nat /\ spent.acks \in Nat /\ spent.crashes \in Nat /\ spent.freezes \in Nat
      /\ spent = [faults |-> spent.faults, acks |-> spent.acks,
                  crashes |-> spent.crashes, freezes |-> spent.freezes]
  BY SagaConstants DEF TypeOK
<1>1. spent'.faults = 0 /\ spent'.acks = 0 /\ spent'.crashes = 0 /\ spent'.freezes = 0
  BY DEF Undisturbed
<1>2. /\ spent' # [spent EXCEPT !.faults = spent.faults + 1]
      /\ spent' # [spent EXCEPT !.acks = spent.acks + 1]
      /\ spent' # [spent EXCEPT !.crashes = spent.crashes + 1]
      /\ spent' # [spent EXCEPT !.freezes = spent.freezes + 1]
  BY <1>0, <1>1
<1>3. ASSUME NEW c \in Calls, Step(c) PROVE spent' = spent
  BY <1>2, <1>3 DEF Step, Lookup, Create, Begin, Validate, HoldRead, HoldWrite, HoldMark, PostJournal,
              LinkJournal, ReleaseRead, ReleaseWrite, Complete, Compensate, Reverse, MarkFailed,
              Advance, Throw
<1>4. ASSUME NEW c \in Calls, Fault(c) \/ Crash(c) PROVE FALSE
  BY <1>2, <1>4 DEF Fault, Crash
<1>5. ASSUME NEW a \in Accounts, NEW to \in Statuses, StatusRead(a, to) PROVE FALSE
  BY <1>2, <1>5 DEF StatusRead
<1>6. spent' = spent
  BY <1>3, <1>4, <1>5 DEF Next, StatusSave, Finished, vars
<1> QED
  BY <1>1, <1>4, <1>5, <1>6 DEF Next, Finished, Undisturbed

(* The postings leave the hold column alone.                               *)
LEMMA PostLegsHolds ==
  ASSUME NEW a, NEW b, NEW m, NEW n, PostLegs(a, m, b, n)
  PROVE  \A x \in Accounts : acct'[x].hold = acct[x].hold
BY DEF PostLegs, AfterLedgerEntry

(* A statement that touches no hold and no flag that compensate reads.     *)
LEMMA KeepsHolds ==
  ASSUME TypeOK, HoldInv, NEW c \in Calls, NEW p,
         pc' = [pc EXCEPT ![c] = p],
         p \notin {"crashed", "reverse", "unholdRead", "unholdWrite", "holdWrite", "releaseWrite"},
         p \in {"begin", "validate", "holdRead", "holdWrite", "compensate"} =>
           Early(c) \/ txn[KeyOf[c]].status = "none",
         p \in {"holdMark", "post", "link", "releaseRead", "releaseWrite"} <=> Holding(c),
         UNCHANGED <<local, saves>>,
         \A k \in Keys : /\ txn'[k].holdPlaced = txn[k].holdPlaced
                         /\ txn'[k].linked = txn[k].linked
                         /\ txn'[k].status = "none" => txn[k].status = "none",
         \A x \in Accounts : acct'[x].hold = acct[x].hold
  PROVE  HoldInv'
<1>1. \A d \in Calls : /\ pc'[d] = IF d = c THEN p ELSE pc[d]
                       /\ KeyOf[d] \in Keys /\ D(d).source \in Accounts
  BY DtoTyped DEF TypeOK
<1>2. \A d \in Calls : Holding(d)' <=> Holding(d)
  BY <1>1 DEF Holding
<1>3. ASSUME NEW d \in Calls PROVE CallHolds(d)'
  <2>1. CallHolds(d)
    BY DEF HoldInv
  <2>2. CASE d = c
    <3>1. /\ pc'[c] = p
          /\ Early(c)' => Early(c) \/ txn[KeyOf[c]].status = "none"
      BY <1>1 DEF Early
    <3>2. ASSUME Early(c)' PROVE ~txn'[KeyOf[c]].holdPlaced /\ ~txn'[KeyOf[c]].linked
      <4>1. KeyOf[c] \in Keys /\ (Early(c) \/ txn[KeyOf[c]].status = "none")
        BY <1>1, <3>1, <3>2
      <4>2. ~txn[KeyOf[c]].holdPlaced /\ ~txn[KeyOf[c]].linked
        BY <2>1, <2>2, <4>1 DEF HoldInv, CallHolds
      <4> QED
        BY <4>1, <4>2
    <3>3. Holding(c)' => acct'[D(c).source].hold = D(c).amount
      BY <1>1, <1>2, <2>1, <2>2 DEF CallHolds
    <3>4. pc'[c] \notin {"crashed", "reverse", "unholdRead", "unholdWrite", "holdWrite", "releaseWrite"}
      BY <3>1
    <3>5. CallHolds(c)'
      BY <3>2, <3>3, <3>4 DEF CallHolds, D
    <3> QED
      BY <2>2, <3>5
  <2>3. CASE d # c
    BY <1>1, <1>2, <2>1, <2>3 DEF CallHolds, Early, D
  <2> QED
    BY <2>2, <2>3
<1>4. ASSUME NEW a \in Accounts, \A d \in Calls : Holding(d)' => D(d).source # a
      PROVE  acct'[a].hold = 0
  BY <1>2, <1>4 DEF HoldInv
<1> QED
  BY <1>3, <1>4 DEF HoldInv, D

(* Two calls that hold something hold it on accounts of their own.         *)
LEMMA HoldersApart ==
  ASSUME SourcesApart, TypeOK, OneSagaPerKey, NEW c \in Running, NEW d \in Running,
         D(c).source = D(d).source
  PROVE  c = d
BY DtoTyped DEF SourcesApart, OneSagaPerKey, Running, D

(* Each statement of an undisturbed saga keeps the invariant.              *)
LEMMA HoldStep ==
  ASSUME SourcesApart, TypeOK, OneSagaPerKey, HoldInv, NEW c \in Calls, Step(c), spent' = spent
  PROVE  HoldInv'
<1> DEFINE k == KeyOf[c]
           src == D(c).source
<1>0. /\ k \in Keys /\ src \in Accounts /\ D(c).amount \in Nat
      /\ \A x \in Accounts : acct[x] \in Row /\ acct[x].hold \in Int
      /\ CallHolds(c)
  BY DtoTyped DEF TypeOK, Row, HoldInv
<1>t. txn \in [Keys -> [status : {"none", "PENDING", "PROCESSING", "COMPLETED", "FAILED"},
                        holdPlaced : BOOLEAN, linked : BOOLEAN]]
  BY DEF TypeOK
<1>a. ASSUME NEW p, Advance(c, p) PROVE pc' = [pc EXCEPT ![c] = p]
  <2>1. spent.acks \in Nat
    BY SagaConstants DEF TypeOK
  <2>2. spent # [spent EXCEPT !.acks = spent.acks + 1]
    BY <2>1 DEF TypeOK
  <2> QED
    BY <1>a, <2>2 DEF Advance, Goto
<1>d. \A d \in Calls : d # c => pc'[d] = pc[d] /\ (Holding(d)' <=> Holding(d)) /\ (Early(d)' <=> Early(d))
  <2>1. \E p : pc' = [pc EXCEPT ![c] = p]
    BY <1>a DEF Step, Lookup, Create, Begin, Validate, HoldRead, HoldWrite, HoldMark, PostJournal,
              LinkJournal, ReleaseRead, ReleaseWrite, Complete, Compensate, Reverse, MarkFailed,
              Throw, Goto
  <2> QED
    BY <2>1 DEF TypeOK, Holding, Early
<1>u. \A d \in Calls : d # c /\ pc[c] \notin Ended \cup {"lookup", "create"}
                        /\ (Holding(d) \/ Early(d))
        => KeyOf[d] # k /\ D(d).source # src
  BY HoldersApart DEF Running, Holding, Early, Ended, OneSagaPerKey
<1>1. CASE Lookup(c)
  <2>1. \E p \in {"create", "done"} : pc' = [pc EXCEPT ![c] = p]
    BY <1>1 DEF Lookup, Goto
  <2> QED
    BY <1>1, <2>1, KeepsHolds DEF Lookup, Holding
<1>2. CASE Create(c)
  <2>1. CASE txn[k].status # "none" \/ D(c).amount = 0
    <3>1. pc' = [pc EXCEPT ![c] = "error"] /\ txn' = txn
      BY <1>2, <2>1 DEF Create, Throw, Goto, Handler, TryBlock, CompensationTry
    <3> QED
      BY <1>2, <3>1, KeepsHolds DEF Create, Holding
  <2>2. CASE txn[k].status = "none" /\ D(c).amount # 0
    <3>1. pc' = [pc EXCEPT ![c] = "begin"] /\ txn' = [txn EXCEPT ![k].status = "PENDING"]
      BY <1>2, <1>a, <2>2 DEF Create
    <3>2. \A j \in Keys : /\ txn'[j].holdPlaced = txn[j].holdPlaced
                          /\ txn'[j].linked = txn[j].linked
                          /\ txn'[j].status = "none" => txn[j].status = "none"
      BY <1>t, <3>1
    <3> QED
      BY <1>2, <2>2, <3>1, <3>2, KeepsHolds DEF Create, Holding
  <2> QED
    BY <2>1, <2>2
<1>3. CASE Begin(c)
  <2>1. pc' = [pc EXCEPT ![c] = "validate"] /\ txn' = [txn EXCEPT ![k].status = "PROCESSING"]
    BY <1>3, <1>a DEF Begin
  <2>2. \A j \in Keys : /\ txn'[j].holdPlaced = txn[j].holdPlaced
                        /\ txn'[j].linked = txn[j].linked
                        /\ txn'[j].status = "none" => txn[j].status = "none"
    BY <1>t, <2>1
  <2> QED
    BY <1>3, <2>1, <2>2, KeepsHolds DEF Begin, Holding, Early
<1>4. CASE Validate(c)
  <2>1. \E p \in {"holdRead", "compensate"} : pc' = [pc EXCEPT ![c] = p]
    BY <1>4 DEF Validate, Goto, Throw, Handler, TryBlock
  <2> QED
    BY <1>4, <2>1, KeepsHolds DEF Validate, Holding, Early
<1>5. CASE HoldRead(c)
  <2>1. CASE Throw(c)
    <3>1. pc' = [pc EXCEPT ![c] = "compensate"] /\ UNCHANGED local
      <4>1. pc[c] = "holdRead" /\ pc' = [pc EXCEPT ![c] = "compensate"]
        BY <1>5, <2>1 DEF HoldRead, Throw, Goto, Handler, TryBlock
      <4>2. pc'[c] # "holdWrite"
        BY <4>1 DEF TypeOK
      <4> QED
        BY <1>5, <4>1, <4>2 DEF HoldRead, Goto, TypeOK
    <3> QED
      BY <1>5, <3>1, KeepsHolds DEF HoldRead, Holding, Early
  <2>2. CASE ~Throw(c)
    <3>1. /\ pc' = [pc EXCEPT ![c] = "holdWrite"] /\ pc[c] = "holdRead"
          /\ local' = [local EXCEPT ![c].hold = acct[src].hold + D(c).amount]
          /\ UNCHANGED <<txn, acct, saves>>
      BY <1>5, <2>2 DEF HoldRead, Goto
    <3>2. acct[src].hold = 0
      <4>1. \A d \in Calls : Holding(d) => D(d).source # src
        BY <1>u, <3>1 DEF Holding, Ended
      <4> QED
        BY <1>0, <4>1 DEF HoldInv
    <3>3. local'[c].hold = D(c).amount
      BY <1>0, <3>1, <3>2 DEF TypeOK
    <3>4. /\ pc'[c] = "holdWrite" /\ ~Holding(c) /\ ~Holding(c)'
          /\ Early(c) /\ \A d \in Calls : d # c => local'[d] = local[d]
      BY <3>1 DEF TypeOK, Holding, Early
    <3>5. CallHolds(c)'
      BY <1>0, <3>1, <3>3, <3>4 DEF CallHolds, D
    <3>6. ASSUME NEW d \in Calls, d # c PROVE CallHolds(d)'
      BY <1>d, <3>1, <3>4, <3>6 DEF HoldInv, CallHolds, D
    <3>7. \A d \in Calls : Holding(d)' <=> Holding(d)
      BY <1>d, <3>4
    <3> QED
      BY <3>1, <3>5, <3>6, <3>7 DEF HoldInv, D
  <2> QED
    BY <2>1, <2>2
<1>6. CASE HoldWrite(c)
  <2>1. /\ pc' = [pc EXCEPT ![c] = "holdMark"] /\ pc[c] = "holdWrite"
        /\ acct' = [acct EXCEPT ![src] = AfterHoldUpdate(acct[src], local[c].hold)]
        /\ UNCHANGED <<local, txn, saves>>
    BY <1>6, <1>a DEF HoldWrite
  <2>2. acct'[src].hold = D(c).amount /\ \A x \in Accounts : x # src => acct'[x] = acct[x]
    BY <1>0, <2>1 DEF CallHolds, AfterHoldUpdate, TypeOK
  <2>3. pc'[c] = "holdMark" /\ Holding(c)' /\ ~Early(c)'
    BY <2>1 DEF TypeOK, Holding, Early
  <2>4. CallHolds(c)'
    BY <2>2, <2>3 DEF CallHolds, D
  <2>5. ASSUME NEW d \in Calls, d # c PROVE CallHolds(d)'
    <3>1. Holding(d) => D(d).source # src /\ D(d).source \in Accounts
      BY <1>u, <2>1, <2>5, DtoTyped DEF Ended
    <3> QED
      BY <1>d, <2>1, <2>2, <2>5, <3>1 DEF HoldInv, CallHolds, D
  <2>6. ASSUME NEW a \in Accounts, \A d \in Calls : Holding(d)' => D(d).source # a
        PROVE  acct'[a].hold = 0
    <3>1. a # src /\ \A d \in Calls : Holding(d) => D(d).source # a
      BY <1>d, <2>1, <2>3, <2>6 DEF Holding
    <3> QED
      BY <2>2, <3>1 DEF HoldInv
  <2> QED
    BY <2>1, <2>4, <2>5, <2>6 DEF HoldInv, D
<1>7. CASE HoldMark(c) \/ LinkJournal(c)
  <2>1. /\ Holding(c) /\ pc[c] \in {"holdMark", "link"}
        /\ \E p \in {"post", "releaseRead"} : pc' = [pc EXCEPT ![c] = p]
        /\ txn' = [txn EXCEPT ![k].holdPlaced = TRUE] \/ txn' = [txn EXCEPT ![k].linked = TRUE]
        /\ UNCHANGED <<local, acct, saves>>
    BY <1>7, <1>a DEF HoldMark, LinkJournal, Holding
  <2>2. /\ \A j \in Keys : j # k => txn'[j] = txn[j]
        /\ txn'[k].status = txn[k].status /\ txn[k].status # "none"
    <3>1. c \in Running
      BY <2>1 DEF Running, Ended
    <3> QED
      BY <1>t, <1>0, <2>1, <3>1 DEF TypeOK
  <2>3. pc'[c] \in {"post", "releaseRead"} /\ Holding(c)' /\ ~Early(c)'
    BY <2>1 DEF TypeOK, Holding, Early
  <2>4. CallHolds(c)'
    BY <1>0, <2>1, <2>3 DEF CallHolds, D
  <2>5. ASSUME NEW d \in Calls, d # c PROVE CallHolds(d)'
    <3>1. Early(d) => KeyOf[d] # k /\ KeyOf[d] \in Keys
      BY <1>u, <2>1, <2>5, DtoTyped DEF Ended
    <3> QED
      BY <1>d, <2>1, <2>2, <2>5, <3>1 DEF HoldInv, CallHolds, D
  <2>6. \A d \in Calls : Holding(d)' <=> Holding(d)
    BY <1>d, <2>1, <2>3
  <2> QED
    BY <1>0, <2>1, <2>2, <2>4, <2>5, <2>6 DEF HoldInv, D
<1>8. CASE PostJournal(c)
  <2>1. pc' = [pc EXCEPT ![c] = "link"] /\ pc[c] = "post"
    BY <1>8, <1>a DEF PostJournal
  <2>2. \A x \in Accounts : acct'[x].hold = acct[x].hold
    BY <1>8, PostLegsHolds DEF PostJournal
  <2> QED
    BY <1>8, <2>1, <2>2, KeepsHolds DEF PostJournal, Holding
<1>9. CASE ReleaseRead(c)
  <2>1. pc[c] = "releaseRead" /\ acct[src].hold = D(c).amount
    BY <1>9, <1>0 DEF ReleaseRead, CallHolds, Holding
  <2>2. acct[src].hold - D(c).amount = 0
    BY <1>0, <2>1
  <2>3. /\ pc' = [pc EXCEPT ![c] = "releaseWrite"]
        /\ local' = [local EXCEPT ![c].hold = 0]
        /\ UNCHANGED <<txn, acct, saves>>
    BY <1>9, <2>1, <2>2 DEF ReleaseRead, Goto
  <2>4. /\ pc'[c] = "releaseWrite" /\ Holding(c) /\ Holding(c)' /\ ~Early(c)'
        /\ local'[c].hold = 0 /\ \A d \in Calls : d # c => local'[d] = local[d]
    BY <2>1, <2>3 DEF TypeOK, Holding, Early
  <2>5. CallHolds(c)'
    BY <1>0, <2>3, <2>4 DEF CallHolds, D
  <2>6. ASSUME NEW d \in Calls, d # c PROVE CallHolds(d)'
    BY <1>d, <2>3, <2>4, <2>6 DEF HoldInv, CallHolds, D
  <2>7. \A d \in Calls : Holding(d)' <=> Holding(d)
    BY <1>d, <2>4
  <2> QED
    BY <2>3, <2>5, <2>6, <2>7 DEF HoldInv, D
<1>10. CASE ReleaseWrite(c)
  <2>1. /\ pc[c] = "releaseWrite" /\ pc' = [pc EXCEPT ![c] = "complete"]
        /\ acct' = [acct EXCEPT ![src] = AfterHoldUpdate(acct[src], local[c].hold)]
        /\ UNCHANGED <<local, txn, saves>>
    BY <1>10, <1>0, <1>a DEF ReleaseWrite, CallHolds
  <2>2. acct'[src].hold = 0 /\ \A x \in Accounts : x # src => acct'[x] = acct[x]
    BY <1>0, <2>1 DEF CallHolds, AfterHoldUpdate, TypeOK
  <2>3. pc'[c] = "complete" /\ ~Holding(c)' /\ ~Early(c)'
    BY <2>1 DEF TypeOK, Holding, Early
  <2>4. CallHolds(c)'
    BY <2>3 DEF CallHolds, D
  <2>5. ASSUME NEW d \in Calls, d # c PROVE CallHolds(d)'
    <3>1. Holding(d) => D(d).source # src /\ D(d).source \in Accounts
      BY <1>u, <2>1, <2>5, DtoTyped DEF Ended
    <3> QED
      BY <1>d, <2>1, <2>2, <2>5, <3>1 DEF HoldInv, CallHolds, D
  <2>6. ASSUME NEW a \in Accounts, \A d \in Calls : Holding(d)' => D(d).source # a
        PROVE  acct'[a].hold = 0
    <3>1. CASE a = src
      BY <2>2, <3>1
    <3>2. CASE a # src
      <4>1. \A d \in Calls : Holding(d) => D(d).source # a
        BY <1>d, <2>6, <3>2
      <4> QED
        BY <2>2, <3>2, <4>1 DEF HoldInv
    <3> QED
      BY <3>1, <3>2
  <2> QED
    BY <2>1, <2>4, <2>5, <2>6 DEF HoldInv, D
<1>11. CASE Complete(c) \/ MarkFailed(c)
  <2>1. /\ \E p \in {"done", "error"} : pc' = [pc EXCEPT ![c] = p]
        /\ pc[c] \in {"complete", "markFailed"}
        /\ \E s \in {"COMPLETED", "FAILED"} :
             txn' = [txn EXCEPT ![k] = [status |-> s, holdPlaced |-> FALSE, linked |-> txn[k].linked]]
        /\ UNCHANGED <<local, acct, saves>>
    BY <1>11, <1>0, <1>a, <1>t DEF Complete, MarkFailed
  <2>2. /\ \A j \in Keys : j # k => txn'[j] = txn[j]
        /\ txn'[k].status # "none"
    BY <1>t, <1>0, <2>1
  <2>3. pc'[c] \in {"done", "error"} /\ ~Holding(c) /\ ~Holding(c)' /\ ~Early(c)'
    BY <2>1 DEF TypeOK, Holding, Early
  <2>4. CallHolds(c)'
    BY <2>3 DEF CallHolds, D
  <2>5. ASSUME NEW d \in Calls, d # c PROVE CallHolds(d)'
    <3>1. Early(d) => KeyOf[d] # k /\ KeyOf[d] \in Keys
      BY <1>u, <2>1, <2>5, DtoTyped DEF Ended
    <3> QED
      BY <1>d, <2>1, <2>2, <2>5, <3>1 DEF HoldInv, CallHolds, D
  <2>6. \A d \in Calls : Holding(d)' <=> Holding(d)
    BY <1>d, <2>3
  <2> QED
    BY <1>0, <2>1, <2>2, <2>4, <2>5, <2>6 DEF HoldInv, D
<1>12. CASE Compensate(c)
  <2>1. ~txn[k].holdPlaced /\ ~txn[k].linked
    BY <1>12, <1>0 DEF Compensate, CallHolds, Early
  <2>2. /\ pc' = [pc EXCEPT ![c] = "markFailed"] /\ pc[c] = "compensate"
        /\ local' = [local EXCEPT ![c].holdPlaced = txn[k].holdPlaced]
        /\ UNCHANGED <<txn, acct, saves>>
    BY <1>12, <2>1 DEF Compensate, AfterReverse, Goto
  <2>3. /\ pc'[c] = "markFailed" /\ ~Holding(c) /\ ~Holding(c)' /\ ~Early(c)'
        /\ \A d \in Calls : d # c => local'[d] = local[d]
    BY <2>2 DEF TypeOK, Holding, Early
  <2>4. CallHolds(c)'
    BY <2>3 DEF CallHolds, D
  <2>5. ASSUME NEW d \in Calls, d # c PROVE CallHolds(d)'
    BY <1>d, <2>2, <2>3, <2>5 DEF HoldInv, CallHolds, D
  <2>6. \A d \in Calls : Holding(d)' <=> Holding(d)
    BY <1>d, <2>3
  <2> QED
    BY <2>2, <2>4, <2>5, <2>6 DEF HoldInv, D
<1>13. CASE Reverse(c)
  BY <1>13, <1>0 DEF Reverse, CallHolds
<1> QED
  BY <1>1, <1>2, <1>3, <1>4, <1>5, <1>6, <1>7, <1>8, <1>9, <1>10, <1>11, <1>12, <1>13 DEF Step

(* When every call has ended no account keeps a hold, for any number of    *)
(* calls and retries, provided nothing failed, no process died, no status  *)
(* was saved over a row, and no two transfers debit the same account.      *)
THEOREM HoldsAreReleased ==
  ASSUME SourcesApart
  PROVE  Spec => []HoldsReleased
<1> DEFINE Inv == TypeOK /\ OneSagaPerKey /\ (Undisturbed => HoldInv)
<1>1. Init => Inv
  <2> SUFFICES ASSUME Init PROVE HoldInv
    BY SafeInit
  <2>1. \A c \in Calls : CallHolds(c)
    BY DEF Init, CallHolds, Holding, Early
  <2> QED
    BY <2>1 DEF Init, HoldInv
<1>2. Inv /\ [Next]_vars => Inv'
  <2> SUFFICES ASSUME Inv, [Next]_vars PROVE Inv'
    OBVIOUS
  <2>1. (TypeOK /\ OneSagaPerKey)'
    BY SafeStep
  <2>2. ASSUME Undisturbed' PROVE HoldInv'
    <3>1. HoldInv /\ spent' = spent /\ ((\E c \in Calls : Step(c)) \/ UNCHANGED vars)
      BY <2>2, QuietStep DEF HoldInv
    <3>2. CASE UNCHANGED vars
      BY <3>1, <3>2 DEF vars, HoldInv, CallHolds, Holding, Early, D
    <3> QED
      BY <3>1, <3>2, HoldStep
  <2> QED
    BY <2>1, <2>2
<1>3. Inv => HoldsReleased
  BY DEF HoldsReleased, HoldInv, Holding, Ended
<1> QED
  BY <1>1, <1>2, <1>3, PTL DEF Spec

-----------------------------------------------------------------------------
(* Where the journal stands at each statement of a saga.                   *)

BeforePost == {"begin", "validate", "holdRead", "holdWrite", "holdMark", "post"}
AfterLink == {"releaseRead", "releaseWrite", "complete"}

Phase(c) ==
  LET k == KeyOf[c] IN
  /\ txn[k].status \in {"PENDING", "PROCESSING"}
  /\ pc[c] # "begin" => txn[k].status = "PROCESSING"
  /\ pc[c] \in BeforePost => posted[k] = 0
  /\ pc[c] \in {"link", "reverse"} \cup AfterLink => posted[k] = 1
  /\ pc[c] \in TryBlock \cup {"begin", "compensate", "reverse"} => reversed[k] = 0

Journals(k) ==
  /\ txn[k].linked => posted[k] = 1
  /\ txn[k].status = "none" => posted[k] = 0 /\ reversed[k] = 0
  /\ txn[k].status = "COMPLETED" => posted[k] = 1 /\ reversed[k] = 0

IInv ==
  /\ TypeOK /\ OneSagaPerKey
  /\ \A c \in Running : Phase(c)
  /\ \A k \in Keys : Journals(k)

(* Statements of other calls leave the phase of a call alone, because no   *)
(* other call runs the saga of its key.                                    *)
LEMMA OthersUndisturbed ==
  ASSUME IInv, NEW c \in Calls,
         \A d \in Calls : d # c => pc'[d] = pc[d],
         \A k \in Keys \ {KeyOf[c]} :
           txn'[k] = txn[k] /\ posted'[k] = posted[k] /\ reversed'[k] = reversed[k],
         c \in Running \/ UNCHANGED <<txn, posted, reversed>>
                       \/ txn[KeyOf[c]].status = "none",
         c \in Running' => Phase(c)',
         Journals(KeyOf[c])'
  PROVE  (\A d \in Running : Phase(d))' /\ (\A k \in Keys : Journals(k))'
<1>1. \A d \in Running : d \in Calls /\ KeyOf[d] \in Keys /\ txn[KeyOf[d]].status # "none"
  BY DtoTyped DEF Running, IInv, TypeOK
<1>2. ASSUME NEW d \in Running', d # c PROVE Phase(d)'
  <2>1. d \in Running /\ pc'[d] = pc[d] /\ Phase(d)
    BY <1>2 DEF Running, IInv
  <2>2. /\ txn'[KeyOf[d]] = txn[KeyOf[d]] /\ posted'[KeyOf[d]] = posted[KeyOf[d]]
        /\ reversed'[KeyOf[d]] = reversed[KeyOf[d]]
    <3>1. CASE UNCHANGED <<txn, posted, reversed>>
      BY <3>1
    <3>2. CASE c \in Running \/ txn[KeyOf[c]].status = "none"
      BY <1>1, <1>2, <2>1, <3>2 DEF IInv, OneSagaPerKey
    <3> QED
      BY <3>1, <3>2
  <2> QED
    BY <2>1, <2>2 DEF Phase
<1>3. ASSUME NEW k \in Keys, k # KeyOf[c] PROVE Journals(k)'
  BY <1>3 DEF Journals, IInv
<1> QED
  BY <1>2, <1>3

(* With no acknowledgement lost, every statement of a saga leads to the    *)
(* phase of the statement after it.                                        *)
LEMMA PhaseStep ==
  ASSUME spent'.acks = 0, IInv, NEW c \in Calls, Step(c)
  PROVE  (\A d \in Running : Phase(d))' /\ (\A k \in Keys : Journals(k))'
<1> DEFINE k == KeyOf[c]
<1> USE DEF Ended, TryBlock, CompensationTry, BeforePost, AfterLink
<1>0. k \in Keys /\ Journals(k) /\ (c \in Running => Phase(c))
  BY DtoTyped DEF IInv
<1>t. /\ pc \in [Calls -> Statements \cup Ended]
      /\ txn \in [Keys -> [status : {"none", "PENDING", "PROCESSING", "COMPLETED", "FAILED"},
                           holdPlaced : BOOLEAN, linked : BOOLEAN]]
      /\ posted \in [Keys -> 0..1] /\ reversed \in [Keys -> 0..1]
  BY DEF IInv, TypeOK
<1>a. ASSUME NEW next, Advance(c, next) PROVE pc' = [pc EXCEPT ![c] = next]
  <2>1. spent' # [spent EXCEPT !.acks = @ + 1]
    BY SagaConstants DEF IInv, TypeOK
  <2> QED
    BY <1>a, <2>1 DEF Advance, Goto
<1>b. ASSUME Throw(c) PROVE pc' = [pc EXCEPT ![c] = Handler(pc[c])]
  BY <1>b DEF Throw, Goto
<1>c. ASSUME NEW next, pc' = [pc EXCEPT ![c] = next]
      PROVE  (\A d \in Calls : d # c => pc'[d] = pc[d]) /\ pc'[c] = next
  BY <1>c, <1>t
<1>1. CASE Lookup(c)
  <2>1. pc'[c] \in {"create", "done"} /\ \A d \in Calls : d # c => pc'[d] = pc[d]
    BY <1>1, <1>t DEF Lookup, Goto
  <2> QED
    BY <1>1, <2>1, <1>0, OthersUndisturbed DEF Lookup, Running, Journals
<1>2. CASE Create(c) /\ (txn[k].status # "none" \/ D(c).amount = 0)
  <2>1. pc' = [pc EXCEPT ![c] = Handler(pc[c])] /\ UNCHANGED <<txn, posted, reversed>>
    BY <1>2, <1>b DEF Create
  <2>2. pc'[c] = "error"
    BY <1>2, <2>1, <1>c DEF Handler, Create
  <2> QED
    BY <2>1, <2>2, <1>c, <1>0, OthersUndisturbed DEF Running, Journals
<1>3. CASE Create(c) /\ txn[k].status = "none" /\ D(c).amount # 0
  <2>1. /\ pc' = [pc EXCEPT ![c] = "begin"] /\ UNCHANGED <<posted, reversed>>
        /\ txn' = [txn EXCEPT ![k].status = "PENDING"]
    BY <1>3, <1>a DEF Create
  <2>2. /\ pc'[c] = "begin" /\ txn'[k].status = "PENDING" /\ txn'[k].linked = txn[k].linked
        /\ \A j \in Keys \ {k} : txn'[j] = txn[j]
    BY <2>1, <1>c, <1>0, <1>t
  <2>3. Phase(c)' /\ Journals(k)'
    BY <1>3, <1>0, <2>1, <2>2 DEF Phase, Journals
  <2> QED
    BY <1>3, <2>1, <2>2, <2>3, <1>c, OthersUndisturbed
<1>4. CASE Begin(c)
  <2>1. /\ pc' = [pc EXCEPT ![c] = "validate"] /\ UNCHANGED <<posted, reversed>>
        /\ txn' = [txn EXCEPT ![k].status = "PROCESSING"]
    BY <1>4, <1>a DEF Begin
  <2>2. /\ pc'[c] = "validate" /\ txn'[k].status = "PROCESSING" /\ txn'[k].linked = txn[k].linked
        /\ \A j \in Keys \ {k} : txn'[j] = txn[j]
    BY <2>1, <1>c, <1>0, <1>t
  <2>3. c \in Running /\ Phase(c) /\ pc[c] = "begin"
    BY <1>4, <1>0 DEF Begin, Running
  <2>4. Phase(c)' /\ Journals(k)'
    BY <1>0, <2>1, <2>2, <2>3 DEF Phase, Journals
  <2> QED
    BY <2>1, <2>2, <2>3, <2>4, <1>c, OthersUndisturbed
<1>5. CASE Validate(c) \/ HoldRead(c) \/ HoldWrite(c) \/ ReleaseRead(c) \/ ReleaseWrite(c)
           \/ Compensate(c)
  <2>1. UNCHANGED <<txn, posted, reversed>>
    BY <1>5 DEF Validate, HoldRead, HoldWrite, ReleaseRead, ReleaseWrite, Compensate
  <2>2. c \in Running /\ Phase(c)
    BY <1>5, <1>0
       DEF Validate, HoldRead, HoldWrite, ReleaseRead, ReleaseWrite, Compensate, Running
  <2>3. \E next \in {"holdRead", "holdWrite", "holdMark", "releaseWrite", "unholdWrite",
                     "complete", "markFailed", "compensate", "reverse", "unholdRead"} :
          /\ pc' = [pc EXCEPT ![c] = next]
          /\ next \in BeforePost => pc[c] \in BeforePost
          /\ next \in AfterLink => pc[c] \in AfterLink
          /\ next = "reverse" => txn[k].linked
          /\ next \in TryBlock \cup {"compensate", "reverse"}
               => pc[c] \in TryBlock \cup {"compensate"}
          /\ pc[c] # "begin"
    <3>1. CASE Validate(c)
      BY <3>1, <1>b DEF Validate, Goto, Handler
    <3>2. CASE HoldRead(c)
      BY <3>2, <1>b DEF HoldRead, Goto, Handler
    <3>3. CASE HoldWrite(c)
      BY <3>3, <1>a DEF HoldWrite
    <3>4. CASE ReleaseRead(c)
      BY <3>4, <1>b DEF ReleaseRead, Goto, Handler
    <3>5. CASE ReleaseWrite(c)
      BY <3>5, <1>a DEF ReleaseWrite
    <3>6. CASE Compensate(c)
      BY <3>6 DEF Compensate, Goto, AfterReverse
    <3> QED
      BY <1>5, <3>1, <3>2, <3>3, <3>4, <3>5, <3>6
  <2>4. Phase(c)'
    BY <1>0, <2>1, <2>2, <2>3, <1>c DEF Phase, Journals
  <2> QED
    BY <1>0, <2>1, <2>2, <2>3, <2>4, <1>c, OthersUndisturbed DEF Journals
<1>6. CASE HoldMark(c) \/ LinkJournal(c)
  <2>1. /\ UNCHANGED <<posted, reversed>>
        /\ \/ /\ pc[c] = "holdMark" /\ pc' = [pc EXCEPT ![c] = "post"]
              /\ txn' = [txn EXCEPT ![k].holdPlaced = TRUE]
           \/ /\ pc[c] = "link" /\ pc' = [pc EXCEPT ![c] = "releaseRead"]
              /\ txn' = [txn EXCEPT ![k].linked = TRUE]
    BY <1>6, <1>a DEF HoldMark, LinkJournal
  <2>2. /\ c \in Running /\ Phase(c)
        /\ txn'[k].status = txn[k].status
        /\ \A j \in Keys \ {k} : txn'[j] = txn[j]
        /\ txn'[k].linked = txn[k].linked \/ pc[c] = "link"
    BY <2>1, <1>0, <1>t DEF Running
  <2>3. Phase(c)' /\ Journals(k)'
    BY <1>0, <2>1, <2>2, <1>c DEF Phase, Journals
  <2> QED
    BY <2>1, <2>2, <2>3, <1>c, OthersUndisturbed
<1>7. CASE PostJournal(c)
  <2>1. c \in Running /\ Phase(c) /\ posted[k] = 0 /\ pc[c] = "post"
    BY <1>7, <1>0 DEF PostJournal, Running, Phase
  <2>2. UNCHANGED <<txn, reversed>>
    BY <1>7 DEF PostJournal
  <2>3. pc' = [pc EXCEPT ![c] = "link"] /\ posted' = [posted EXCEPT ![k] = 1]
    BY <1>7, <2>1, <1>a DEF PostJournal
  <2>4. Phase(c)' /\ Journals(k)'
    BY <1>0, <1>t, <2>1, <2>2, <2>3, <1>c DEF Phase, Journals
  <2>5. \A j \in Keys \ {k} : posted'[j] = posted[j]
    BY <2>3, <1>t
  <2> QED
    BY <2>1, <2>2, <2>3, <2>4, <2>5, <1>c, OthersUndisturbed
<1>8. CASE Complete(c) \/ MarkFailed(c)
  <2>1. /\ c \in Running /\ Phase(c) /\ UNCHANGED <<posted, reversed>>
        /\ \/ /\ pc[c] = "complete" /\ pc' = [pc EXCEPT ![c] = "done"]
              /\ txn' = [txn EXCEPT ![k] = [status |-> "COMPLETED", holdPlaced |-> FALSE,
                                            linked |-> txn[k].linked]]
           \/ /\ pc' = [pc EXCEPT ![c] = "error"]
              /\ txn' = [txn EXCEPT ![k] = [status |-> "FAILED", holdPlaced |-> FALSE,
                                            linked |-> txn[k].linked]]
    BY <1>8, <1>0, <1>t, <1>a DEF Complete, MarkFailed, Running
  <2>2. /\ txn'[k].linked = txn[k].linked
        /\ txn'[k].status = "FAILED" \/ (pc[c] = "complete" /\ txn'[k].status = "COMPLETED")
        /\ \A j \in Keys \ {k} : txn'[j] = txn[j]
        /\ c \notin Running'
    BY <2>1, <1>0, <1>t, <1>c DEF Running
  <2>3. Journals(k)'
    BY <1>0, <2>1, <2>2 DEF Phase, Journals
  <2> QED
    BY <2>1, <2>2, <2>3, <1>c, OthersUndisturbed
<1>9. CASE Reverse(c)
  <2>1. c \in Running /\ Phase(c) /\ pc[c] = "reverse" /\ reversed[k] = 0 /\ posted[k] = 1
    BY <1>9, <1>0 DEF Reverse, Running, Phase
  <2>2. /\ UNCHANGED <<txn, posted>> /\ reversed' = [reversed EXCEPT ![k] = 1]
        /\ \E next \in {"unholdRead", "markFailed"} : pc' = [pc EXCEPT ![c] = next]
    BY <1>9, <2>1, <1>a DEF Reverse, AfterReverse
  <2>3. Phase(c)' /\ Journals(k)'
    BY <1>0, <1>t, <2>1, <2>2, <1>c DEF Phase, Journals
  <2>4. \A j \in Keys \ {k} : reversed'[j] = reversed[j]
    BY <2>2, <1>t
  <2> QED
    BY <2>1, <2>2, <2>3, <2>4, <1>c, OthersUndisturbed
<1> QED
  BY <1>1, <1>2, <1>3, <1>4, <1>5, <1>6, <1>7, <1>8, <1>9 DEF Step

(* Faults and crashes stop or divert a saga but do not change its row.     *)
LEMMA IInvStep == IInv /\ [Next]_vars /\ spent'.acks = 0 => IInv'
<1> SUFFICES ASSUME IInv, [Next]_vars, spent'.acks = 0 PROVE IInv'
  OBVIOUS
<1> USE DEF Ended, TryBlock, CompensationTry, BeforePost, AfterLink
<1> DEFINE Goal == (\A c \in Running : Phase(c))' /\ (\A k \in Keys : Journals(k))'
<1>0. (TypeOK /\ OneSagaPerKey)'
  BY SafeStep DEF IInv
<1>1. ASSUME NEW c \in Calls, Step(c) PROVE Goal
  BY <1>1, PhaseStep
<1>2. ASSUME NEW c \in Calls, Fault(c) \/ Crash(c) PROVE Goal
  <2>1. /\ UNCHANGED <<txn, posted, reversed>>
        /\ pc' = [pc EXCEPT ![c] = Handler(pc[c])] \/ pc' = [pc EXCEPT ![c] = "crashed"]
    BY <1>2 DEF Fault, Crash, Goto
  <2>2. /\ \A d \in Calls : d # c => pc'[d] = pc[d]
        /\ pc'[c] = Handler(pc[c]) \/ pc'[c] = "crashed"
    BY <2>1 DEF IInv, TypeOK
  <2>3. c \in Running' => c \in Running
    BY <2>2 DEF Running, Handler
  <2>4. ASSUME c \in Running' PROVE Phase(c)'
    <3>1. Phase(c)
      BY <2>3, <2>4 DEF IInv
    <3>2. \/ pc'[c] = "compensate" /\ pc[c] \in TryBlock
          \/ pc'[c] = "markFailed" /\ pc[c] \in CompensationTry
      BY <2>2, <2>4 DEF Running, Handler
    <3> QED
      BY <3>1, <3>2, <2>1 DEF Phase
  <2>5. Journals(KeyOf[c])'
    BY <2>1, DtoTyped DEF IInv, Journals
  <2> QED
    BY <2>1, <2>2, <2>4, <2>5, OthersUndisturbed
<1>3. CASE UNCHANGED <<pc, txn, posted, reversed>>
  <2>1. Running' = Running
    BY <1>3 DEF Running
  <2>2. \A c \in Running : Phase(c)'
    BY <1>3 DEF IInv, Phase
  <2>3. \A k \in Keys : Journals(k)'
    BY <1>3 DEF IInv, Journals
  <2> QED
    BY <1>0, <2>1, <2>2, <2>3 DEF IInv
<1> QED
  BY <1>0, <1>1, <1>2, <1>3 DEF IInv, Next, Finished, StatusRead, StatusSave, vars

(* The invariant holds initially: no row, no journal.                      *)
LEMMA IInvInit == Init => IInv
<1> SUFFICES ASSUME Init PROVE IInv
  OBVIOUS
<1>1. Running = {}
  BY DEF Init, Running
<1>2. \A k \in Keys : Journals(k)
  BY DEF Init, Journals
<1> QED
  BY <1>1, <1>2, SafeInit DEF IInv

(* Lost acknowledgements are counted and never forgotten.                  *)
LEMMA AcksCounted == TypeOK /\ [Next]_vars /\ spent'.acks = 0 => spent.acks = 0
<1> SUFFICES ASSUME TypeOK, [Next]_vars, spent.acks # 0 PROVE spent'.acks # 0
  OBVIOUS
<1>0. spent \in [faults : 0..MaxFaults, acks : 0..MaxLostAcks,
                 crashes : 0..MaxCrashes, freezes : 0..MaxFreezes]
  BY DEF TypeOK
<1>1. ASSUME spent' = spent \/ spent' = [spent EXCEPT !.acks = @ + 1] PROVE spent'.acks # 0
  BY <1>0, <1>1, SagaConstants
<1>2. ASSUME NEW c \in Calls, Step(c) PROVE spent' = spent \/ spent' = [spent EXCEPT !.acks = @ + 1]
  BY <1>2 DEF Step, Lookup, Create, Begin, Validate, HoldRead, HoldWrite, HoldMark, PostJournal,
              LinkJournal, ReleaseRead, ReleaseWrite, Complete, Compensate, Reverse, MarkFailed,
              Advance, Throw
<1>3. ASSUME \/ spent' = [spent EXCEPT !.faults = @ + 1]
             \/ spent' = [spent EXCEPT !.crashes = @ + 1]
             \/ spent' = [spent EXCEPT !.freezes = @ + 1]
      PROVE  spent'.acks # 0
  BY <1>0, <1>3
<1> QED
  BY <1>1, <1>2, <1>3 DEF Next, Fault, Crash, StatusRead, StatusSave, Finished, vars

(* The invariant up to the first lost acknowledgement, for every bound on  *)
(* the faults, crashes and acknowledgements lost.                          *)
AckInv == TypeOK /\ OneSagaPerKey /\ (spent.acks = 0 => IInv)

(* It is inductive.                                                        *)
LEMMA AckInvInductive == (Init => AckInv) /\ (AckInv /\ [Next]_vars => AckInv')
<1>1. Init => AckInv
  BY IInvInit, SafeInit DEF AckInv
<1>2. AckInv /\ [Next]_vars => AckInv'
  <2> SUFFICES ASSUME AckInv, [Next]_vars PROVE AckInv'
    OBVIOUS
  <2>1. (TypeOK /\ OneSagaPerKey)'
    BY SafeStep DEF AckInv
  <2>2. spent'.acks = 0 => IInv'
    BY AcksCounted, IInvStep DEF AckInv
  <2> QED
    BY <2>1, <2>2 DEF AckInv
<1> QED
  BY <1>1, <1>2

(* A COMPLETED transfer has a posted journal that is not reversed, as long *)
(* as every statement that takes effect is acknowledged.                   *)
THEOREM CompletedTransfers == Spec => []CompletedMovedMoney
<1>1. AckInv => CompletedMovedMoney
  BY DEF AckInv, IInv, Journals, CompletedMovedMoney
<1> QED
  BY <1>1, AckInvInductive, PTL DEF Spec

(* Only the call that runs a saga changes the row and the journal of its   *)
(* key.                                                                    *)
LEMMA WhoChanges ==
  ASSUME IInv, [Next]_vars, NEW k \in Keys
  PROVE  \/ txn'[k] = txn[k] /\ posted'[k] = posted[k] /\ reversed'[k] = reversed[k]
         \/ /\ txn[k].status = "none" /\ txn'[k].status = "PENDING"
            /\ posted'[k] = posted[k] /\ reversed'[k] = reversed[k]
         \/ \E c \in Running : /\ KeyOf[c] = k /\ Step(c) /\ Phase(c)
                               /\ reversed'[k] # reversed[k] => pc[c] = "reverse"
<1>t. /\ txn \in [Keys -> [status : {"none", "PENDING", "PROCESSING", "COMPLETED", "FAILED"},
                           holdPlaced : BOOLEAN, linked : BOOLEAN]]
      /\ posted \in [Keys -> 0..1] /\ reversed \in [Keys -> 0..1]
  BY DEF IInv, TypeOK
<1>1. CASE UNCHANGED <<txn, posted, reversed>>
  BY <1>1
<1>2. ASSUME NEW c \in Calls, Step(c), ~UNCHANGED <<txn, posted, reversed>>
      PROVE  \/ Create(c) \/ Begin(c) \/ HoldMark(c) \/ PostJournal(c) \/ LinkJournal(c)
             \/ Complete(c) \/ MarkFailed(c) \/ Reverse(c)
  BY <1>2 DEF Step, Lookup, Validate, HoldRead, HoldWrite, ReleaseRead, ReleaseWrite, Compensate
<1>3. ASSUME NEW c \in Calls, Create(c) /\ txn' # txn
      PROVE  /\ txn[KeyOf[c]].status = "none" /\ txn'[KeyOf[c]].status = "PENDING"
             /\ UNCHANGED <<posted, reversed>>
             /\ \A j \in Keys \ {KeyOf[c]} : txn'[j] = txn[j]
  BY <1>3, <1>t, DtoTyped DEF Create
<1>4. ASSUME NEW c \in Calls,
             \/ Begin(c) \/ HoldMark(c) \/ PostJournal(c) \/ LinkJournal(c)
             \/ Complete(c) \/ MarkFailed(c) \/ Reverse(c)
      PROVE  /\ c \in Running /\ Phase(c)
             /\ \A j \in Keys \ {KeyOf[c]} :
                  txn'[j] = txn[j] /\ posted'[j] = posted[j] /\ reversed'[j] = reversed[j]
             /\ reversed' # reversed => pc[c] = "reverse"
  <2>1. c \in Running /\ Phase(c)
    BY <1>4 DEF Begin, HoldMark, PostJournal, LinkJournal, Complete, MarkFailed, Reverse,
                Running, Ended, IInv
  <2>2. CASE Begin(c) \/ HoldMark(c) \/ LinkJournal(c) \/ Complete(c) \/ MarkFailed(c)
    BY <2>1, <2>2, <1>t DEF Begin, HoldMark, LinkJournal, Complete, MarkFailed
  <2>3. CASE PostJournal(c)
    BY <2>1, <2>3, <1>t DEF PostJournal
  <2>4. CASE Reverse(c)
    BY <2>1, <2>4, <1>t DEF Reverse
  <2> QED
    BY <1>4, <2>2, <2>3, <2>4
<1>5. ASSUME NEW c \in Calls, Step(c), ~UNCHANGED <<txn, posted, reversed>> PROVE
         \/ txn'[k] = txn[k] /\ posted'[k] = posted[k] /\ reversed'[k] = reversed[k]
         \/ /\ txn[k].status = "none" /\ txn'[k].status = "PENDING"
            /\ posted'[k] = posted[k] /\ reversed'[k] = reversed[k]
         \/ /\ c \in Running /\ KeyOf[c] = k /\ Step(c) /\ Phase(c)
            /\ reversed'[k] # reversed[k] => pc[c] = "reverse"
  <2>1. CASE Create(c) /\ txn' # txn
    BY <2>1, <1>3
  <2>2. CASE Create(c) /\ txn' = txn
    BY <2>2 DEF Create
  <2>3. CASE \/ Begin(c) \/ HoldMark(c) \/ PostJournal(c) \/ LinkJournal(c)
             \/ Complete(c) \/ MarkFailed(c) \/ Reverse(c)
    BY <2>3, <1>4, <1>5
  <2> QED
    BY <1>2, <1>5, <2>1, <2>2, <2>3
<1>6. UNCHANGED <<txn, posted, reversed>> \/ \E c \in Calls : Step(c)
  BY DEF Next, Fault, Crash, StatusRead, StatusSave, Finished, vars
<1> QED
  BY <1>1, <1>5, <1>6

(* A step changes the row and the journal of one key at most.              *)
LEMMA OneKeyChanges ==
  ASSUME TypeOK, [Next]_vars
  PROVE  \/ UNCHANGED <<txn, posted, reversed>>
         \/ \E k \in Keys : \A j \in Keys \ {k} :
              txn'[j] = txn[j] /\ posted'[j] = posted[j] /\ reversed'[j] = reversed[j]
<1>t. /\ txn \in [Keys -> [status : {"none", "PENDING", "PROCESSING", "COMPLETED", "FAILED"},
                           holdPlaced : BOOLEAN, linked : BOOLEAN]]
      /\ posted \in [Keys -> 0..1] /\ reversed \in [Keys -> 0..1]
  BY DEF TypeOK
<1>1. ASSUME NEW c \in Calls, Step(c), ~UNCHANGED <<txn, posted, reversed>>
      PROVE  \A j \in Keys \ {KeyOf[c]} :
               txn'[j] = txn[j] /\ posted'[j] = posted[j] /\ reversed'[j] = reversed[j]
  <2>1. CASE \/ Create(c) \/ Begin(c) \/ HoldMark(c) \/ LinkJournal(c)
             \/ Complete(c) \/ MarkFailed(c)
    BY <2>1, <1>t DEF Create, Begin, HoldMark, LinkJournal, Complete, MarkFailed
  <2>2. CASE PostJournal(c)
    BY <2>2, <1>t DEF PostJournal
  <2>3. CASE Reverse(c)
    BY <2>3, <1>t DEF Reverse
  <2>4. CASE \/ Lookup(c) \/ Validate(c) \/ HoldRead(c) \/ HoldWrite(c)
             \/ ReleaseRead(c) \/ ReleaseWrite(c) \/ Compensate(c)
    BY <2>4, <1>1 DEF Lookup, Validate, HoldRead, HoldWrite, ReleaseRead, ReleaseWrite, Compensate
  <2> QED
    BY <1>1, <2>1, <2>2, <2>3, <2>4 DEF Step
<1>2. UNCHANGED <<txn, posted, reversed>> \/ \E c \in Calls : Step(c)
  BY DEF Next, Fault, Crash, StatusRead, StatusSave, Finished, vars
<1> QED
  BY <1>1, <1>2, DtoTyped

(* The verdict on a transfer is final, and only a transfer that is being   *)
(* processed, and whose journal is posted, has that journal reversed.      *)
THEOREM VerdictsAreFinal == Spec => FinalStatus
<1> DEFINE Act == spent'.acks = 0 =>
              \A k \in Keys :
                /\ txn[k].status \in {"COMPLETED", "FAILED"} => txn'[k].status = txn[k].status
                /\ reversed'[k] # reversed[k] => posted[k] = 1 /\ txn[k].status = "PROCESSING"
<1>1. AckInv /\ [Next]_vars => Act
  <2> SUFFICES ASSUME AckInv, [Next]_vars, spent'.acks = 0 PROVE Act
    OBVIOUS
  <2>1. IInv
    BY AcksCounted DEF AckInv
  <2> QED
    BY <2>1, WhoChanges DEF Phase
<1>2. AckInv /\ [Next]_vars => [Act]_vars
  BY <1>1
<1> HIDE DEF Act
<1>3. Spec => [][Act]_vars
  BY <1>2, AckInvInductive, PTL DEF Spec
<1> QED
  BY <1>3 DEF Act, FinalStatus

-----------------------------------------------------------------------------
(* Atomicity, as long as no statement fails.                               *)

(* Without faults a saga that fails has undone its journal.                *)
Undone(c) ==
  LET k == KeyOf[c] IN
  /\ pc[c] \in AfterLink => txn[k].linked
  /\ pc[c] = "compensate" => (posted[k] = 1 => txn[k].linked)
  /\ pc[c] \in {"unholdRead", "unholdWrite", "markFailed"} => posted[k] = reversed[k]

FInv ==
  /\ IInv
  /\ \A c \in Running : Undone(c)
  /\ \A k \in Keys : txn[k].status = "FAILED" => posted[k] = reversed[k]

(* Each statement of a saga keeps what is undone in step with what is      *)
(* recorded on its row.                                                    *)
LEMMA UndoneStep ==
  ASSUME MaxLostAcks = 0, MaxFaults = 0, FInv, NEW c \in Calls, Step(c)
  PROVE  /\ c \in Running' => Undone(c)'
         /\ txn'[KeyOf[c]].status = "FAILED" => posted'[KeyOf[c]] = reversed'[KeyOf[c]]
         /\ \A d \in Calls : d # c => pc'[d] = pc[d]
<1> DEFINE k == KeyOf[c]
           Goal == /\ c \in Running' => Undone(c)'
                   /\ txn'[k].status = "FAILED" => posted'[k] = reversed'[k]
                   /\ \A d \in Calls : d # c => pc'[d] = pc[d]
<1> USE DEF Ended, TryBlock, CompensationTry, BeforePost, AfterLink
<1>0. /\ k \in Keys /\ (c \in Running => Phase(c) /\ Undone(c))
      /\ txn[k].status = "FAILED" => posted[k] = reversed[k]
  BY DtoTyped DEF IInv, FInv
<1>t. /\ pc \in [Calls -> Statements \cup Ended]
      /\ txn \in [Keys -> [status : {"none", "PENDING", "PROCESSING", "COMPLETED", "FAILED"},
                           holdPlaced : BOOLEAN, linked : BOOLEAN]]
      /\ posted \in [Keys -> 0..1] /\ reversed \in [Keys -> 0..1]
  BY DEF FInv, IInv, TypeOK
<1>a. ASSUME NEW next, Advance(c, next) PROVE pc' = [pc EXCEPT ![c] = next]
  <2>1. ~(spent.acks < MaxLostAcks)
    BY SagaConstants DEF FInv, IInv, TypeOK
  <2> QED
    BY <1>a, <2>1 DEF Advance, Goto
<1>b. ASSUME Throw(c) PROVE pc' = [pc EXCEPT ![c] = Handler(pc[c])]
  BY <1>b DEF Throw, Goto
<1>c. ASSUME NEW next, pc' = [pc EXCEPT ![c] = next]
      PROVE  (\A d \in Calls : d # c => pc'[d] = pc[d]) /\ pc'[c] = next
  BY <1>c, <1>t
<1>1. CASE Lookup(c) \/ Create(c)
  <2>1. \E next \in {"create", "done", "error", "begin"} : pc' = [pc EXCEPT ![c] = next]
    BY <1>1, <1>a, <1>b DEF Lookup, Create, Goto, Handler
  <2>2. UNCHANGED <<posted, reversed>>
    BY <1>1 DEF Lookup, Create
  <2>3. txn' = txn \/ txn' = [txn EXCEPT ![k].status = "PENDING"]
    BY <1>1 DEF Lookup, Create
  <2> QED
    BY <1>0, <1>t, <2>1, <2>2, <2>3, <1>c DEF Running, Undone
<1>2. CASE Begin(c) \/ HoldMark(c)
  <2>1. \E next \in {"validate", "post"} : pc' = [pc EXCEPT ![c] = next]
    BY <1>2, <1>a DEF Begin, HoldMark
  <2>2. UNCHANGED <<posted, reversed>> /\ c \in Running
    BY <1>2 DEF Begin, HoldMark, Running
  <2>3. txn'[k].status # "FAILED"
    BY <1>2, <2>2, <1>0, <1>t DEF Begin, HoldMark, Phase
  <2> QED
    BY <1>0, <2>1, <2>2, <2>3, <1>c DEF Undone
<1>3. CASE Validate(c) \/ HoldRead(c) \/ HoldWrite(c)
  <2>1. \E next \in {"holdRead", "holdWrite", "holdMark", "compensate"} :
          pc' = [pc EXCEPT ![c] = next]
    <3>1. CASE Validate(c)
      BY <3>1, <1>b DEF Validate, Goto, Handler
    <3>2. CASE HoldRead(c)
      BY <3>2, <1>b DEF HoldRead, Goto, Handler
    <3>3. CASE HoldWrite(c)
      BY <3>3, <1>a DEF HoldWrite
    <3> QED
      BY <1>3, <3>1, <3>2, <3>3
  <2>2. /\ UNCHANGED <<txn, posted, reversed>> /\ c \in Running
        /\ pc[c] \in BeforePost
    BY <1>3 DEF Validate, HoldRead, HoldWrite, Running
  <2>3. posted[k] = 0
    BY <1>0, <2>2 DEF Phase
  <2> QED
    BY <1>0, <2>1, <2>2, <2>3, <1>c DEF Undone
<1>4. CASE PostJournal(c) \/ LinkJournal(c)
  <2>1. /\ c \in Running /\ UNCHANGED reversed
        /\ \/ pc' = [pc EXCEPT ![c] = "link"] /\ txn' = txn
           \/ /\ pc' = [pc EXCEPT ![c] = "releaseRead"]
              /\ txn' = [txn EXCEPT ![k].linked = TRUE]
    BY <1>4, <1>a DEF PostJournal, LinkJournal, Running
  <2>2. txn[k].status = "PROCESSING"
    BY <1>0, <1>4, <2>1 DEF Phase, PostJournal, LinkJournal
  <2>3. txn'[k].status = "PROCESSING" /\ (txn' # txn => txn'[k].linked)
    BY <1>0, <1>t, <2>1, <2>2
  <2>5. pc'[c] = "releaseRead" => txn'[k].linked
    BY <1>0, <1>t, <1>c, <2>1
  <2>6. pc'[c] \in {"link", "releaseRead"}
    BY <1>c, <2>1
  <2> QED
    BY <1>c, <2>1, <2>3, <2>5, <2>6 DEF Undone
<1>5. CASE ReleaseRead(c) \/ ReleaseWrite(c)
  <2>1. /\ UNCHANGED <<txn, posted, reversed>> /\ c \in Running
        /\ \/ /\ pc[c] \in AfterLink
              /\ \E next \in {"releaseWrite", "complete", "compensate"} :
                   pc' = [pc EXCEPT ![c] = next]
           \/ /\ pc[c] \in {"unholdRead", "unholdWrite"}
              /\ \E next \in {"unholdWrite", "markFailed"} : pc' = [pc EXCEPT ![c] = next]
    <3>1. CASE ReleaseRead(c)
      BY <3>1, <1>b DEF ReleaseRead, Goto, Handler, Running
    <3>2. CASE ReleaseWrite(c)
      BY <3>2, <1>a DEF ReleaseWrite, Running
    <3> QED
      BY <1>5, <3>1, <3>2
  <2> QED
    BY <1>0, <2>1, <1>c DEF Undone
<1>6. CASE Complete(c) \/ MarkFailed(c)
  <2>1. /\ c \in Running /\ UNCHANGED <<posted, reversed>>
        /\ \E next \in {"done", "error"} : pc' = [pc EXCEPT ![c] = next]
    BY <1>6, <1>a DEF Complete, MarkFailed, Running
  <2>2. txn'[k].status = "FAILED" => pc[c] = "markFailed"
    BY <1>6, <1>0, <1>t DEF Complete, MarkFailed
  <2> QED
    BY <1>0, <2>1, <2>2, <1>c DEF Running, Undone
<1>7. CASE Compensate(c)
  <2>1. /\ c \in Running /\ UNCHANGED <<txn, posted, reversed>> /\ pc[c] = "compensate"
        /\ \/ txn[k].linked /\ pc' = [pc EXCEPT ![c] = "reverse"]
           \/ /\ ~txn[k].linked
              /\ \E next \in {"unholdRead", "markFailed"} : pc' = [pc EXCEPT ![c] = next]
    BY <1>7 DEF Compensate, Goto, AfterReverse, Running
  <2>2. ~txn[k].linked => posted[k] = 0 /\ reversed[k] = 0
    BY <1>0, <1>t, <2>1 DEF Undone, Phase
  <2>3. txn'[k].status # "FAILED"
    BY <1>0, <2>1 DEF Phase
  <2> QED
    BY <1>0, <2>1, <2>2, <2>3, <1>c DEF Undone
<1>8. CASE Reverse(c)
  <2>1. c \in Running /\ reversed[k] = 0 /\ posted[k] = 1
    BY <1>8, <1>0 DEF Reverse, Running, Phase
  <2>2. /\ UNCHANGED <<txn, posted>> /\ reversed' = [reversed EXCEPT ![k] = 1]
        /\ \E next \in {"unholdRead", "markFailed"} : pc' = [pc EXCEPT ![c] = next]
    BY <1>8, <2>1, <1>a DEF Reverse, AfterReverse
  <2> QED
    BY <1>0, <1>t, <2>1, <2>2, <1>c DEF Undone
<1> QED
  BY <1>1, <1>2, <1>3, <1>4, <1>5, <1>6, <1>7, <1>8 DEF Step

(* The strengthened invariant is inductive when no statement fails.        *)
LEMMA FInvStep ==
  ASSUME MaxLostAcks = 0, MaxFaults = 0
  PROVE  FInv /\ [Next]_vars => FInv'
<1> SUFFICES ASSUME FInv, [Next]_vars PROVE FInv'
  OBVIOUS
<1>0. IInv /\ IInv' /\ TypeOK
  <2>1. IInv /\ TypeOK /\ TypeOK'
    BY SafeStep DEF FInv, IInv
  <2>2. spent'.acks = 0
    BY <2>1 DEF TypeOK
  <2> QED
    BY <2>1, <2>2, IInvStep
<1>1. ASSUME NEW k \in Keys, txn'[k].status = "FAILED" PROVE posted'[k] = reversed'[k]
  <2>1. CASE txn'[k] = txn[k] /\ posted'[k] = posted[k] /\ reversed'[k] = reversed[k]
    BY <1>1, <2>1 DEF FInv
  <2>2. ASSUME NEW c \in Running, KeyOf[c] = k, Step(c) PROVE posted'[k] = reversed'[k]
    BY <1>1, <2>2, UndoneStep DEF Running
  <2> QED
    BY <1>0, <1>1, <2>1, <2>2, WhoChanges
<1>2. ASSUME NEW c \in Calls, Step(c) PROVE (\A d \in Running : Undone(d))'
  <2> SUFFICES ASSUME NEW d \in Running' PROVE Undone(d)'
    OBVIOUS
  <2>1. CASE d = c
    BY <1>2, <2>1, UndoneStep
  <2>2. CASE d # c
    <3>1. d \in Running /\ pc'[d] = pc[d] /\ KeyOf[d] \in Keys
      BY <1>2, <2>2, UndoneStep, DtoTyped DEF Running
    <3>2. \A e \in Running : KeyOf[e] = KeyOf[d] => e = d
      BY <3>1, <1>0 DEF IInv, OneSagaPerKey
    <3>3. ASSUME NEW e \in Running, KeyOf[e] = KeyOf[d], Step(e) PROVE FALSE
      <4>1. e = d /\ e \in Calls
        BY <3>2, <3>3 DEF Running
      <4>2. pc'[d] # pc[d]
        <5>1. \A next : Advance(d, next) => pc'[d] = next
          <6>1. ~(spent.acks < MaxLostAcks)
            BY <1>0, SagaConstants DEF TypeOK
          <6> QED
            BY <6>1, <4>1, <1>0 DEF Advance, Goto, TypeOK
        <5>2. /\ \A next : Goto(d, next) => pc'[d] = next
              /\ Throw(d) => pc'[d] = Handler(pc[d])
          BY <4>1, <1>0 DEF Throw, Goto, TypeOK
        <5> QED
          BY <3>3, <4>1, <5>1, <5>2
             DEF Step, Lookup, Create, Begin, Validate, HoldRead, HoldWrite, HoldMark,
                 PostJournal, LinkJournal, ReleaseRead, ReleaseWrite, Complete, Compensate,
                 Reverse, MarkFailed, Handler, AfterReverse, TryBlock, CompensationTry
      <4> QED
        BY <4>2, <3>1
    <3>4. txn[KeyOf[d]].status # "none"
      BY <3>1, <1>0 DEF TypeOK
    <3>5. /\ txn'[KeyOf[d]] = txn[KeyOf[d]] /\ posted'[KeyOf[d]] = posted[KeyOf[d]]
          /\ reversed'[KeyOf[d]] = reversed[KeyOf[d]]
      BY <1>0, <3>1, <3>3, <3>4, WhoChanges
    <3> QED
      BY <3>1, <3>5 DEF FInv, Undone
  <2> QED
    BY <2>1, <2>2
<1>3. ASSUME NEW c \in Calls, Crash(c) PROVE (\A d \in Running : Undone(d))'
  <2>1. /\ UNCHANGED <<txn, posted, reversed>>
        /\ \A d \in Running' : d \in Running /\ pc'[d] = pc[d]
    BY <1>3, <1>0 DEF Crash, Goto, Running, Ended, TypeOK
  <2> QED
    BY <2>1 DEF FInv, Undone
<1>4. CASE UNCHANGED <<pc, txn, posted, reversed>>
  <2>1. Running' = Running
    BY <1>4 DEF Running
  <2>2. \A c \in Running : Undone(c)'
    BY <1>4 DEF FInv, Undone
  <2> QED
    BY <1>0, <1>1, <2>1, <2>2 DEF FInv
<1>5. ASSUME NEW c \in Calls PROVE ~Fault(c)
  BY <1>0, SagaConstants DEF Fault, TypeOK
<1> QED
  BY <1>0, <1>1, <1>2, <1>3, <1>4, <1>5
     DEF FInv, Next, Finished, StatusRead, StatusSave, vars

(* As long as no statement fails, and whatever processes die, the saga     *)
(* implements Transfer: accepted once, then completed with the money moved *)
(* or failed with nothing moved, and never anything else.                  *)
THEOREM AtomicTransfers ==
  ASSUME MaxLostAcks = 0, MaxFaults = 0
  PROVE  Spec => ImplementsTransfer
<1> DEFINE State == [k \in Keys |-> IF txn[k].status \in {"PENDING", "PROCESSING"}
                                    THEN "accepted" ELSE txn[k].status]
           Moved == [k \in Keys |-> IF txn[k].status \in {"COMPLETED", "FAILED"}
                                    THEN posted[k] - reversed[k] ELSE 0]
<1>1. Init => T!Init
  BY DEF Init, T!Init
<1>2. Init => FInv
  BY IInvInit DEF FInv, Init, Running
<1>3. FInv /\ [Next]_vars => FInv'
  BY FInvStep
<1>4. FInv /\ FInv' /\ [Next]_vars => [T!Next]_<<State, Moved>>
  <2> SUFFICES ASSUME FInv, FInv', [Next]_vars, ~UNCHANGED <<State, Moved>>
               PROVE  T!Next
    OBVIOUS
  <2>0. IInv /\ IInv'
    BY DEF FInv
  <2>t. /\ txn \in [Keys -> [status : {"none", "PENDING", "PROCESSING", "COMPLETED", "FAILED"},
                             holdPlaced : BOOLEAN, linked : BOOLEAN]]
        /\ posted \in [Keys -> 0..1] /\ reversed \in [Keys -> 0..1]
    BY <2>0 DEF IInv, TypeOK
  <2>1. PICK k \in Keys : State'[k] # State[k] \/ Moved'[k] # Moved[k]
    <3>1. (\A k \in Keys : State'[k] = State[k] /\ Moved'[k] = Moved[k]) => UNCHANGED <<State, Moved>>
      OBVIOUS
    <3> QED
      BY <3>1
  <2>2. \A j \in Keys \ {k} : State'[j] = State[j] /\ Moved'[j] = Moved[j]
    <3>1. ~UNCHANGED <<txn, posted, reversed>>
      BY <2>1
    <3>2. PICK i \in Keys : \A j \in Keys \ {i} :
            txn'[j] = txn[j] /\ posted'[j] = posted[j] /\ reversed'[j] = reversed[j]
      BY <2>0, <3>1, OneKeyChanges DEF IInv
    <3>3. i = k
      BY <2>1, <3>2
    <3> QED
      BY <3>2, <3>3
  <2>3. /\ State' = [State EXCEPT ![k] = State'[k]]
        /\ Moved' = [Moved EXCEPT ![k] = Moved'[k]]
    BY <2>2
  <2>4. CASE txn[k].status = "none" /\ txn'[k].status = "PENDING"
    <3>1. State[k] = "none" /\ State'[k] = "accepted" /\ Moved[k] = 0 /\ Moved'[k] = 0
      BY <2>4
    <3>2. Moved' = Moved
      BY <2>2, <3>1
    <3>3. T!Accept(k)
      BY <2>3, <3>1, <3>2 DEF T!Accept
    <3> QED
      BY <3>3 DEF T!Next
  <2>5. CASE txn[k].status \in {"PENDING", "PROCESSING"}
    <3>1. State[k] = "accepted" /\ Moved[k] = 0
      BY <2>5
    <3>2. txn'[k].status \in {"COMPLETED", "FAILED"}
      <4>1. txn'[k].status # "none"
        BY <2>0, <2>5, RunningStep DEF IInv
      <4>2. txn'[k].status \in {"none", "PENDING", "PROCESSING", "COMPLETED", "FAILED"}
        BY <2>0 DEF IInv, TypeOK
      <4> QED
        BY <2>1, <3>1, <4>1, <4>2
    <3>3. CASE txn'[k].status = "COMPLETED"
      <4>1. State'[k] = "COMPLETED" /\ Moved'[k] = 1
        BY <2>0, <3>3 DEF IInv, Journals
      <4>2. T!Complete(k)
        BY <2>3, <3>1, <4>1 DEF T!Complete
      <4> QED
        BY <4>2 DEF T!Next
    <3>4. CASE txn'[k].status = "FAILED"
      <4>1. State'[k] = "FAILED" /\ Moved'[k] = 0
        <5>1. posted'[k] = reversed'[k] /\ posted'[k] \in 0..1
          BY <2>0, <3>4 DEF FInv, IInv, TypeOK
        <5> QED
          BY <3>4, <5>1
      <4>2. Moved' = Moved
        BY <2>2, <3>1, <4>1
      <4>3. T!Fail(k)
        BY <2>3, <3>1, <4>1, <4>2 DEF T!Fail
      <4> QED
        BY <4>3 DEF T!Next
    <3> QED
      BY <3>2, <3>3, <3>4
  <2> QED
    BY <2>0, <2>1, <2>4, <2>5, WhoChanges DEF Phase
<1> QED
  BY <1>1, <1>2, <1>3, <1>4, PTL DEF Spec, ImplementsTransfer, T!Spec
=============================================================================
