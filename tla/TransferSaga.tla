---------------------------- MODULE TransferSaga ----------------------------
(***************************************************************************)
(* TransferSaga.execute and compensate, one step per awaited statement, so *)
(* that other calls run between any two of them.  Posting and reversing a  *)
(* journal are one transaction each here; Ledger looks inside them.        *)
(*                                                                         *)
(* A call is one POST of a transfer; calls with the same key are retries   *)
(* and share the transactions row of that key.  The holds of AccountsService *)
(* are read in one step and written in the next, as in the code.           *)
(***************************************************************************)
EXTENDS Postings, FiniteSets

CONSTANTS
  Calls,         \* invocations of execute
  Keys,          \* idempotency keys
  Accounts,
  KeyOf,         \* the key a call carries
  Dto,           \* per key: [source, dest, amount, currency]
  Opening,       \* per account: all its entries but the last, and the last
  CurrencyOf,    \* accounts.currency
  MaxFaults,     \* bound: statements that fail without effect
  MaxLostAcks,   \* bound: statements that take effect but report an error
  MaxCrashes,    \* bound: calls whose process dies
  MaxFreezes     \* bound: calls of updateStatus

ASSUME SagaConstants ==
  /\ KeyOf \in [Calls -> Keys]
  /\ Dto \in [Keys -> [source : Accounts, dest : Accounts, amount : Nat,
                       currency : {CurrencyOf[a] : a \in Accounts}]]
  /\ Opening \in [Accounts -> [before : Int, last : Int]]
  /\ MaxFaults \in Nat /\ MaxLostAcks \in Nat /\ MaxCrashes \in Nat /\ MaxFreezes \in Nat

VARIABLES
  pc,        \* the statement a call executes next
  local,     \* what it remembers between two statements
  txn,       \* transactions rows by idempotency key
  acct,      \* accounts rows: balance, avail, hold, overdraft
  status,    \* accounts.status
  saves,     \* updateStatus calls between their read and their save
  booked,    \* sum of the ledger entries of an account
  posted,    \* journals posted for a transfer
  reversed,  \* reversals of that journal
  spent      \* faults, lost acknowledgements, crashes and freezes so far

vars == <<pc, local, txn, acct, status, saves, booked, posted, reversed, spent>>

Ended == {"done", "error", "crashed"}
TryBlock == {"validate", "holdRead", "holdWrite", "holdMark", "post", "link",
             "releaseRead", "releaseWrite", "complete"}
Statuses == {"ACTIVE", "FROZEN"}
Row == [balance : Int, avail : Int, hold : Int, overdraft : Nat]
CompensationTry == {"reverse", "unholdRead", "unholdWrite"}
Statements == {"lookup", "create", "begin", "compensate", "markFailed"}
                \cup TryBlock \cup CompensationTry

D(c) == Dto[KeyOf[c]]

Init ==
  /\ pc = [c \in Calls |-> "lookup"]
  /\ local = [c \in Calls |-> [hold |-> 0, holdPlaced |-> FALSE]]
  /\ txn = [k \in Keys |-> [status |-> "none", holdPlaced |-> FALSE, linked |-> FALSE]]
  /\ acct = [a \in Accounts |->
               [balance |-> Opening[a].before, avail |-> Opening[a].before,
                hold |-> 0, overdraft |-> 0]]
  /\ status = [a \in Accounts |-> "ACTIVE"]
  /\ saves = {}
  /\ booked = [a \in Accounts |-> Opening[a].before + Opening[a].last]
  /\ posted = [k \in Keys |-> 0]
  /\ reversed = [k \in Keys |-> 0]
  /\ spent = [faults |-> 0, acks |-> 0, crashes |-> 0, freezes |-> 0]

(* The calls that have created their row and are not over.                 *)
Running == {c \in Calls : pc[c] \notin Ended \cup {"lookup", "create"}}

-----------------------------------------------------------------------------
(* Mutant: compensate has no try block of its own.                         *)
NoInnerCatch(p) == IF p \in TryBlock THEN "compensate" ELSE "error"

(* Where an exception thrown at a statement leads: the statements before   *)
(* the try block and those of compensate outside its own try end the call. *)
Handler(p) ==
  IF p \in TryBlock THEN "compensate"
  ELSE IF p \in CompensationTry THEN "markFailed" ELSE "error"

Goto(c, next) == pc' = [pc EXCEPT ![c] = next]

Throw(c) == Goto(c, Handler(pc[c])) /\ UNCHANGED spent

(* The statement has taken effect; its acknowledgement may be lost.        *)
Advance(c, next) ==
  \/ Goto(c, next) /\ UNCHANGED spent
  \/ /\ spent.acks < MaxLostAcks
     /\ spent' = [spent EXCEPT !.acks = @ + 1]
     /\ Goto(c, Handler(pc[c]))

(* A journal of two legs, a by m and then b by n, as the balance trigger   *)
(* sees it: each leg sets the balance to the sum before itself.            *)
PostLegs(a, m, b, n) ==
  LET before == [x \in {a, b} |-> IF a = b THEN booked[x] + m ELSE booked[x]]
  IN /\ acct' = [x \in Accounts |-> IF x \in {a, b}
                                    THEN AfterLedgerEntry(acct[x], before[x]) ELSE acct[x]]
     /\ booked' = [x \in Accounts |-> booked[x] + (IF x = a THEN m ELSE 0)
                                                + (IF x = b THEN n ELSE 0)]

-----------------------------------------------------------------------------
(* execute                                                                 *)

Lookup(c) ==
  /\ pc[c] = "lookup"
  /\ IF txn[KeyOf[c]].status = "none" THEN Goto(c, "create") ELSE Goto(c, "done")
  /\ UNCHANGED <<local, txn, acct, status, saves, booked, posted, reversed, spent>>

(* Mutant: the entity is created but never saved.                          *)
CreateUnsaved(c) ==
  /\ pc[c] = "create"
  /\ Advance(c, "begin")
  /\ UNCHANGED <<local, txn, acct, status, saves, booked, posted, reversed>>

(* Mutant: no unique index on transactions.idempotency_key.                *)
CreateAgain(c) ==
  /\ pc[c] = "create"
  /\ txn' = [txn EXCEPT ![KeyOf[c]].status = "PENDING"]
  /\ Advance(c, "begin")
  /\ UNCHANGED <<local, acct, status, saves, booked, posted, reversed>>

(* INSERT of the PENDING row; the unique index on the key and the CHECK    *)
(* (amount > 0) may refuse it, and that exception is thrown before the try *)
(* block.                                                                  *)
Create(c) ==
  /\ pc[c] = "create"
  /\ \/ /\ txn[KeyOf[c]].status # "none" \/ D(c).amount = 0
        /\ Throw(c)
        /\ UNCHANGED txn
     \/ /\ txn[KeyOf[c]].status = "none" /\ D(c).amount # 0
        /\ txn' = [txn EXCEPT ![KeyOf[c]].status = "PENDING"]
        /\ Advance(c, "begin")
  /\ UNCHANGED <<local, acct, status, saves, booked, posted, reversed>>

Begin(c) ==
  /\ pc[c] = "begin"
  /\ txn' = [txn EXCEPT ![KeyOf[c]].status = "PROCESSING"]
  /\ Advance(c, "validate")
  /\ UNCHANGED <<local, acct, status, saves, booked, posted, reversed>>

(* Steps 1 and 2: both accounts ACTIVE, the source holds the currency of   *)
(* the transfer (Money throws otherwise) and has the funds available.      *)
Validate(c) ==
  LET d == D(c) IN
  /\ pc[c] = "validate"
  /\ IF /\ status[d.source] = "ACTIVE"
        /\ status[d.dest] = "ACTIVE"
        /\ CurrencyOf[d.source] = d.currency
        /\ d.amount <= acct[d.source].avail
     THEN Goto(c, "holdRead") /\ UNCHANGED spent
     ELSE Throw(c)
  /\ UNCHANGED <<local, txn, acct, status, saves, booked, posted, reversed>>

(* placeHold: reads the account, checks it again and computes the new hold *)
HoldRead(c) ==
  LET d == D(c) IN
  /\ pc[c] = "holdRead"
  /\ IF status[d.source] = "ACTIVE" /\ d.amount <= acct[d.source].avail
     THEN /\ local' = [local EXCEPT ![c].hold = acct[d.source].hold + d.amount]
          /\ Goto(c, "holdWrite")
          /\ UNCHANGED spent
     ELSE Throw(c) /\ UNCHANGED local
  /\ UNCHANGED <<txn, acct, status, saves, booked, posted, reversed>>

(* ... and writes what it computed, whatever the hold is by now.           *)
HoldWrite(c) ==
  /\ pc[c] = "holdWrite"
  /\ acct' = [acct EXCEPT ![D(c).source] = AfterHoldUpdate(@, local[c].hold)]
  /\ Advance(c, "holdMark")
  /\ UNCHANGED <<local, txn, status, saves, booked, posted, reversed>>

HoldMark(c) ==
  /\ pc[c] = "holdMark"
  /\ txn' = [txn EXCEPT ![KeyOf[c]].holdPlaced = TRUE]
  /\ Advance(c, "post")
  /\ UNCHANGED <<local, acct, status, saves, booked, posted, reversed>>

(* Mutant: postJournal is not awaited, so its failure goes unnoticed.      *)
PostIgnored(c) ==
  /\ pc[c] = "post"
  /\ \/ /\ PostLegs(D(c).source, -D(c).amount, D(c).dest, D(c).amount)
        /\ posted' = [posted EXCEPT ![KeyOf[c]] = 1]
        /\ UNCHANGED spent
     \/ /\ spent.faults < MaxFaults
        /\ spent' = [spent EXCEPT !.faults = @ + 1]
        /\ UNCHANGED <<acct, booked, posted>>
  /\ Goto(c, "link")
  /\ UNCHANGED <<local, txn, status, saves, reversed>>

(* Step 4: postJournal with key "journal:<key>"; the two legs balance, and *)
(* a journal with that key is returned as it is.                           *)
PostJournal(c) ==
  LET k == KeyOf[c] IN
  /\ pc[c] = "post"
  /\ Advance(c, "link")
  /\ IF posted[k] = 0
     THEN /\ PostLegs(D(c).source, -D(c).amount, D(c).dest, D(c).amount)
          /\ posted' = [posted EXCEPT ![k] = 1]
     ELSE UNCHANGED <<acct, booked, posted>>
  /\ UNCHANGED <<local, txn, status, saves, reversed>>

LinkJournal(c) ==
  /\ pc[c] = "link"
  /\ txn' = [txn EXCEPT ![KeyOf[c]].linked = TRUE]
  /\ Advance(c, "releaseRead")
  /\ UNCHANGED <<local, acct, status, saves, booked, posted, reversed>>

(* Step 5: releaseHold reads the hold and refuses to make it negative.     *)
ReleaseRead(c) ==
  /\ pc[c] \in {"releaseRead", "unholdRead"}
  /\ LET left == acct[D(c).source].hold - D(c).amount IN
     IF left < 0
     THEN Throw(c) /\ UNCHANGED local
     ELSE /\ local' = [local EXCEPT ![c].hold = left]
          /\ Goto(c, IF pc[c] = "releaseRead" THEN "releaseWrite" ELSE "unholdWrite")
          /\ UNCHANGED spent
  /\ UNCHANGED <<txn, acct, status, saves, booked, posted, reversed>>

(* Mutant: the row is completed without waiting for releaseHold.           *)
ReleaseForgotten(c) ==
  /\ pc[c] \in {"releaseWrite", "unholdWrite"}
  /\ Advance(c, IF pc[c] = "releaseWrite" THEN "complete" ELSE "markFailed")
  /\ UNCHANGED <<local, txn, acct, status, saves, booked, posted, reversed>>

ReleaseWrite(c) ==
  /\ pc[c] \in {"releaseWrite", "unholdWrite"}
  /\ acct' = [acct EXCEPT ![D(c).source] = AfterHoldUpdate(@, local[c].hold)]
  /\ Advance(c, IF pc[c] = "releaseWrite" THEN "complete" ELSE "markFailed")
  /\ UNCHANGED <<local, txn, status, saves, booked, posted, reversed>>

Complete(c) ==
  /\ pc[c] = "complete"
  /\ txn' = [txn EXCEPT ![KeyOf[c]] =
              [status |-> "COMPLETED", holdPlaced |-> FALSE, linked |-> @.linked]]
  /\ Advance(c, "done")
  /\ UNCHANGED <<local, acct, status, saves, booked, posted, reversed>>

-----------------------------------------------------------------------------
(* compensate                                                              *)

AfterReverse(holdPlaced) == IF holdPlaced THEN "unholdRead" ELSE "markFailed"

(* Mutant: the hold is released first and only a hold leads to a reversal. *)
CompensateHoldOnly(c) ==
  LET t == txn[KeyOf[c]] IN
  /\ pc[c] = "compensate"
  /\ local' = [local EXCEPT ![c].holdPlaced = t.holdPlaced]
  /\ Goto(c, AfterReverse(t.holdPlaced))
  /\ UNCHANGED <<txn, acct, status, saves, booked, posted, reversed, spent>>

(* Reads the transactions row; what to undo is decided from this snapshot. *)
Compensate(c) ==
  LET t == txn[KeyOf[c]] IN
  /\ pc[c] = "compensate"
  /\ local' = [local EXCEPT ![c].holdPlaced = t.holdPlaced]
  /\ Goto(c, IF t.linked THEN "reverse" ELSE AfterReverse(t.holdPlaced))
  /\ UNCHANGED <<txn, acct, status, saves, booked, posted, reversed, spent>>

(* reverseJournal throws when the journal is already REVERSED.             *)
Reverse(c) ==
  LET k == KeyOf[c] IN
  /\ pc[c] = "reverse"
  /\ IF reversed[k] # 0
     THEN Throw(c) /\ UNCHANGED <<acct, booked, reversed>>
     ELSE /\ PostLegs(D(c).source, D(c).amount, D(c).dest, -D(c).amount)
          /\ reversed' = [reversed EXCEPT ![k] = 1]
          /\ Advance(c, AfterReverse(local[c].holdPlaced))
  /\ UNCHANGED <<local, txn, status, saves, posted>>

(* Executed whether or not the compensation above succeeded; execute then  *)
(* rethrows the error.                                                     *)
MarkFailed(c) ==
  /\ pc[c] = "markFailed"
  /\ txn' = [txn EXCEPT ![KeyOf[c]] =
              [status |-> "FAILED", holdPlaced |-> FALSE, linked |-> @.linked]]
  /\ Advance(c, "error")
  /\ UNCHANGED <<local, acct, status, saves, booked, posted, reversed>>

-----------------------------------------------------------------------------
(* The environment.                                                        *)

(* A statement fails without effect (the connection is gone, a timeout).   *)
Fault(c) ==
  /\ pc[c] \notin Ended
  /\ spent.faults < MaxFaults
  /\ spent' = [spent EXCEPT !.faults = @ + 1]
  /\ Goto(c, Handler(pc[c]))
  /\ UNCHANGED <<local, txn, acct, status, saves, booked, posted, reversed>>

(* The process dies; nothing resumes the saga.                             *)
Crash(c) ==
  /\ pc[c] \notin Ended
  /\ spent.crashes < MaxCrashes
  /\ spent' = [spent EXCEPT !.crashes = @ + 1]
  /\ Goto(c, "crashed")
  /\ UNCHANGED <<local, txn, acct, status, saves, booked, posted, reversed>>

(* updateStatus reads the account and validates the transition (FROZEN     *)
(* stands for every status but ACTIVE) ...                                 *)
StatusRead(a, to) ==
  /\ to # status[a]
  /\ spent.freezes < MaxFreezes
  /\ spent' = [spent EXCEPT !.freezes = @ + 1]
  /\ saves' = saves \cup {[account |-> a, row |-> acct[a], to |-> to]}
  /\ UNCHANGED <<pc, local, txn, acct, status, booked, posted, reversed>>

(* ... and saves the entity it read: save() writes every column that now   *)
(* differs from that entity, the balances and the hold included.           *)
StatusSave(s) ==
  /\ acct' = [acct EXCEPT ![s.account] = s.row]
  /\ status' = [status EXCEPT ![s.account] = s.to]
  /\ saves' = saves \ {s}
  /\ UNCHANGED <<pc, local, txn, booked, posted, reversed, spent>>

Step(c) ==
  \/ Lookup(c) \/ Create(c) \/ Begin(c) \/ Validate(c) \/ HoldRead(c) \/ HoldWrite(c)
  \/ HoldMark(c) \/ PostJournal(c) \/ LinkJournal(c) \/ ReleaseRead(c) \/ ReleaseWrite(c)
  \/ Complete(c) \/ Compensate(c) \/ Reverse(c) \/ MarkFailed(c)

Finished == (\A c \in Calls : pc[c] \in Ended) /\ UNCHANGED vars

Next ==
  \/ \E c \in Calls : Step(c) \/ Fault(c) \/ Crash(c)
  \/ \E a \in Accounts, to \in Statuses : StatusRead(a, to)
  \/ \E s \in saves : StatusSave(s)
  \/ Finished

Spec == Init /\ [][Next]_vars

(* An await that is not cut off by a crash or a fault eventually returns.  *)
FairSpec == Spec /\ \A c \in Calls : WF_vars(Step(c))

-----------------------------------------------------------------------------
(* Properties.                                                             *)

(* Every variable has its type, and the row of a transfer exists once a    *)
(* call has got past the insert.                                           *)
TypeOK ==
  /\ pc \in [Calls -> Statements \cup Ended]
  /\ local \in [Calls -> [hold : Int, holdPlaced : BOOLEAN]]
  /\ txn \in [Keys -> [status : {"none", "PENDING", "PROCESSING", "COMPLETED", "FAILED"},
                       holdPlaced : BOOLEAN, linked : BOOLEAN]]
  /\ acct \in [Accounts -> Row]
  /\ status \in [Accounts -> Statuses]
  /\ saves \subseteq [account : Accounts, row : Row, to : Statuses]
  /\ booked \in [Accounts -> Int]
  /\ posted \in [Keys -> 0..1] /\ reversed \in [Keys -> 0..1]
  /\ spent \in [faults : 0..MaxFaults, acks : 0..MaxLostAcks,
                crashes : 0..MaxCrashes, freezes : 0..MaxFreezes]
  /\ \A c \in Running : txn[KeyOf[c]].status # "none"

(* However calls with one key interleave and whatever is lost, at most one *)
(* of them runs the saga (the lookup and the insert are two statements;    *)
(* only the unique index is between them).                                 *)
OneSagaPerKey == \A c, d \in Running : KeyOf[c] = KeyOf[d] => c = d

(* A COMPLETED transfer has moved its money: the journal is posted and not *)
(* reversed, although statements fail, retries with the same key run       *)
(* alongside and processes die (execute reaches its last update only       *)
(* through postJournal, and compensate never runs after it), as long as    *)
(* every statement that took effect has been acknowledged.                 *)
CompletedMovedMoney ==
  spent.acks = 0 =>
    \A k \in Keys : txn[k].status = "COMPLETED" => posted[k] = 1 /\ reversed[k] = 0

(* A journal is only reversed on the way to FAILED, and the final status   *)
(* of a transfer never changes, whoever retries it, up to the first lost   *)
(* acknowledgement.                                                        *)
FinalStatus ==
  [][spent'.acks = 0 =>
       \A k \in Keys :
         /\ txn[k].status \in {"COMPLETED", "FAILED"} => txn'[k].status = txn[k].status
         /\ reversed'[k] # reversed[k] => posted[k] = 1 /\ txn[k].status = "PROCESSING"]_vars

(* Once every call has ended, no account keeps a hold of a transfer (the   *)
(* class comment: step 5 or compensation releases it), provided nothing    *)
(* failed, crashed or was saved over.                                      *)
Undisturbed == \A n \in {spent.faults, spent.acks, spent.crashes, spent.freezes} : n = 0
HoldsReleased ==
  Undisturbed /\ (\A c \in Calls : pc[c] \in Ended) => \A a \in Accounts : acct[a].hold = 0

(* Claimed by the class comment: on any failure compensation releases the  *)
(* hold, reverses the journal and marks the transaction FAILED.  A row     *)
(* whose call ended without a crash is then final, and FAILED means that   *)
(* nothing is moved or held.  The code does not keep it when the statement *)
(* that records an effect fails, so no run checks it.                      *)
FailureCompensated ==
  \A k \in Keys :
    /\ (\A c \in Calls : KeyOf[c] = k => pc[c] \in {"done", "error"})
         => txn[k].status \in {"none", "COMPLETED", "FAILED"}
    /\ txn[k].status = "FAILED" => posted[k] = reversed[k] /\ acct[Dto[k].source].hold = 0

(* Every accepted transfer reaches COMPLETED or FAILED unless its process  *)
(* dies, even when sagas break each other's holds.                         *)
TransfersSettle ==
  \A k \in Keys :
    txn[k].status # "none" ~> \/ txn[k].status \in {"COMPLETED", "FAILED"}
                             \/ \E c \in Calls : KeyOf[c] = k /\ pc[c] = "crashed"

-----------------------------------------------------------------------------
(* What a caller can observe of a transfer: its status, and whether money  *)
(* has moved once the status is final.                                     *)
T == INSTANCE Transfer WITH
       state <- [k \in Keys |-> IF txn[k].status \in {"PENDING", "PROCESSING"}
                                THEN "accepted" ELSE txn[k].status],
       moved <- [k \in Keys |-> IF txn[k].status \in {"COMPLETED", "FAILED"}
                                THEN posted[k] - reversed[k] ELSE 0]

(* As long as no statement fails, the saga implements an atomic transfer,  *)
(* even when processes die half-way.                                       *)
ImplementsTransfer == T!Spec
=============================================================================
