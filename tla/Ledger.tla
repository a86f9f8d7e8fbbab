------------------------------- MODULE Ledger -------------------------------
(***************************************************************************)
(* JournalService over PostgreSQL (READ COMMITTED), one step per statement *)
(* that another transaction can observe or block.  A request is one call   *)
(* of postJournal or reverseJournal; the journal it inserts is named by    *)
(* the request, so a journal id is a request.                              *)
(*                                                                         *)
(* The rows a transaction has written stay private until Commit: row[r] is *)
(* the committed status of the journals row inserted by r, wip[a] the      *)
(* uncommitted version of account row a held under the row lock of         *)
(* owner[a].                                                               *)
(***************************************************************************)
EXTENDS Postings, FiniteSets

CONSTANTS
  Requests,       \* calls of postJournal / reverseJournal; also journal ids
  Accounts,       \* ids present in the accounts table
  Keys,           \* idempotency keys
  NoKey,          \* the call carries no idempotency key
  NoJournal,      \* no journal / nobody holds the lock
  Dtos,           \* entry lists a caller may post
  Overdraft,      \* accounts.overdraft_limit, which no code changes
  Holds,          \* per account, what other requests write to its hold_amount
  MaxConcurrent   \* bound: requests in progress at the same time

LegsOf(dtos) == UNION {{d[i] : i \in DOMAIN d} : d \in dtos}

Leg == [account : {leg.account : leg \in LegsOf(Dtos)}, type : EntryTypes,
        amount : Nat, currency : {leg.currency : leg \in LegsOf(Dtos)}]

ASSUME LedgerConstants ==
  /\ NoJournal \notin Requests
  /\ NoKey \notin Keys
  /\ Dtos \subseteq Seq(Leg) \ {<<>>}
  /\ Overdraft \in [Accounts -> Nat]
  /\ Holds \in [Accounts -> SUBSET Nat]

VARIABLES
  pc,        \* where each request is
  req,       \* what it was asked to do: kind, legs to insert, key, target
  row,       \* committed journals rows: "absent", "POSTED" or "REVERSED"
  inserted,  \* how many of its legs a request has inserted
  sum,       \* v_new_balance of the trigger that is running
  acct,      \* committed accounts rows
  owner,     \* which transaction holds the row lock of an account
  wip,       \* the version of an account row its lock holder has written
  answer     \* what the caller was told: outcome and journal

vars == <<pc, req, row, inserted, sum, acct, owner, wip, answer>>

InTransaction == {"sum", "apply", "commit"}
Outcomes == {"none", "Posted", "Replayed", "Unbalanced", "NotFound",
             "AlreadyReversed", "DuplicateKey", "CheckViolation",
             "ForeignKey", "Deadlock", "ConnectionLost"}
NoRequest == [kind |-> "none", legs |-> <<>>, key |-> NoKey, target |-> NoJournal]
NoAnswer == [outcome |-> "none", journal |-> NoJournal]

Init ==
  /\ pc = [r \in Requests |-> "idle"]
  /\ req = [r \in Requests |-> NoRequest]
  /\ row = [r \in Requests |-> "absent"]
  /\ inserted = [r \in Requests |-> 0]
  /\ sum = [r \in Requests |-> 0]
  /\ acct = [a \in Accounts |->
               [balance |-> 0, avail |-> Overdraft[a], hold |-> 0,
                overdraft |-> Overdraft[a]]]
  /\ owner = [a \in Accounts |-> NoJournal]
  /\ wip = acct
  /\ answer = [r \in Requests |-> NoAnswer]

-----------------------------------------------------------------------------
(* State functions.                                                        *)

Committed == {j \in Requests : row[j] # "absent"}
Open == {r \in Requests : pc[r] \in InTransaction}

(* The ledger_entries rows of journal j, in insertion order.               *)
Entries(j) == [i \in 1..inserted[j] |-> req[j].legs[i]]

(* What a SELECT of transaction r sums up: committed rows and its own.     *)
VisibleSum(r, a) ==
  SumOf([j \in Committed \cup {r} |-> Effect(Entries(j), a)])

LedgerSum(a) == SumOf([j \in Committed |-> Effect(Entries(j), a)])

NextLeg(r) == req[r].legs[inserted[r] + 1]

(* Row and index locks: the transactions r has to wait for.                *)
BlockedBy(r) ==
  CASE pc[r] = "insertJournal" ->
         {q \in Open \ {r} : req[q].key = req[r].key /\ req[r].key # NoKey}
    [] pc[r] = "markReversed" ->
         {q \in Open \ {r} : req[q].kind = "reverse" /\ req[q].target = req[r].target}
    [] pc[r] = "apply" /\ NextLeg(r).account \in Accounts ->
         {owner[NextLeg(r).account]} \ {r, NoJournal}
    [] OTHER -> {}

(* r lies on a cycle of waiting transactions.                              *)
Deadlocked(r) ==
  \E D \in SUBSET Requests :
    /\ r \in D
    /\ \A q \in D : /\ \E p \in D : p \in BlockedBy(q)
                    /\ \E p \in D : q \in BlockedBy(p)

-----------------------------------------------------------------------------
Reply(r, outcome, journal) ==
  /\ pc' = [pc EXCEPT ![r] = "done"]
  /\ answer' = [answer EXCEPT ![r] = [outcome |-> outcome, journal |-> journal]]

(* ROLLBACK: everything the transaction wrote disappears, locks are freed. *)
Rollback(r, outcome) ==
  /\ Reply(r, outcome, NoJournal)
  /\ inserted' = [inserted EXCEPT ![r] = 0]
  /\ owner' = [a \in Accounts |-> IF owner[a] = r THEN NoJournal ELSE owner[a]]
  /\ wip' = [a \in Accounts |-> IF owner[a] = r THEN acct[a] ELSE wip[a]]
  /\ UNCHANGED <<req, row, sum, acct>>

(* postJournal: validateBalance, then the lookup of the idempotency key.   *)
Post(r, legs, key) ==
  /\ pc[r] = "idle"
  /\ Cardinality({q \in Requests : pc[q] \notin {"idle", "done"}}) < MaxConcurrent
  /\ req' = [req EXCEPT ![r] = [kind |-> "post", legs |-> legs, key |-> key,
                                target |-> NoJournal]]
  /\ \/ /\ ~Balanced(legs)
        /\ Reply(r, "Unbalanced", NoJournal)
     \/ /\ Balanced(legs)
        /\ \E j \in Committed : /\ req[j].key = key
                                /\ key # NoKey
                                /\ Reply(r, "Replayed", j)
     \/ /\ Balanced(legs)
        /\ \A j \in Committed : req[j].key = key => key = NoKey
        /\ pc' = [pc EXCEPT ![r] = "insertJournal"]
        /\ UNCHANGED answer
  /\ UNCHANGED <<row, inserted, sum, acct, owner, wip>>

(* Mutant: nothing but the earlier lookup protects the key.                *)
InsertUnchecked(r) ==
  /\ pc[r] = "insertJournal"
  /\ pc' = [pc EXCEPT ![r] = "sum"]
  /\ UNCHANGED <<req, row, inserted, sum, acct, owner, wip, answer>>

(* Mutant: the INSERT is tried until the key is free.                      *)
InsertRetried(r) ==
  /\ pc[r] = "insertJournal"
  /\ BlockedBy(r) = {}
  /\ \A j \in Committed : req[j].key = req[r].key => req[r].key = NoKey
  /\ pc' = [pc EXCEPT ![r] = "sum"]
  /\ UNCHANGED <<req, row, inserted, sum, acct, owner, wip, answer>>

(* INSERT INTO journals: the unique index on idempotency_key makes the     *)
(* statement wait for an open transaction that inserted the same key and   *)
(* fail when the key is committed.                                         *)
InsertJournal(r) ==
  /\ pc[r] = "insertJournal"
  /\ BlockedBy(r) = {}
  /\ \/ /\ \E j \in Committed : req[j].key = req[r].key /\ req[r].key # NoKey
        /\ Rollback(r, "DuplicateKey")
     \/ /\ \A j \in Committed : req[j].key = req[r].key => req[r].key = NoKey
        /\ pc' = [pc EXCEPT ![r] = "sum"]
        /\ UNCHANGED <<req, row, inserted, sum, acct, owner, wip, answer>>

(* reverseJournal: reads the original and checks its status outside the    *)
(* transaction, and builds the mirrored legs from what it read.            *)
ReadOriginal(r, j) ==
  /\ pc[r] = "idle"
  /\ Cardinality({q \in Requests : pc[q] \notin {"idle", "done"}}) < MaxConcurrent
  /\ req' = [req EXCEPT ![r] = [kind |-> "reverse", legs |-> Mirror(Entries(j)),
                                key |-> NoKey, target |-> j]]
  /\ \/ row[j] = "absent" /\ Reply(r, "NotFound", NoJournal)
     \/ row[j] = "REVERSED" /\ Reply(r, "AlreadyReversed", NoJournal)
     \/ row[j] = "POSTED" /\ pc' = [pc EXCEPT ![r] = "markReversed"] /\ UNCHANGED answer
  /\ UNCHANGED <<row, inserted, sum, acct, owner, wip>>

(* UPDATE journals SET status = 'REVERSED' WHERE id = j, without looking   *)
(* at the status, then INSERT of the reversal row (which cannot wait).     *)
MarkReversed(r) ==
  /\ pc[r] = "markReversed"
  /\ BlockedBy(r) = {}
  /\ pc' = [pc EXCEPT ![r] = "sum"]
  /\ UNCHANGED <<req, row, inserted, sum, acct, owner, wip, answer>>

(* The trigger runs BEFORE INSERT of the next leg: its SELECT SUM sees the *)
(* committed entries and the legs this statement has inserted before.      *)
TriggerSum(r) ==
  /\ pc[r] = "sum"
  /\ sum' = [sum EXCEPT ![r] = VisibleSum(r, NextLeg(r).account)]
  /\ pc' = [pc EXCEPT ![r] = "apply"]
  /\ UNCHANGED <<req, row, inserted, acct, owner, wip, answer>>

(* SELECT ... FOR UPDATE, UPDATE accounts, then the row itself, which the  *)
(* CHECK (amount > 0) may refuse.  An unknown account has no row to lock.  *)
TriggerApply(r) ==
  LET leg == NextLeg(r) IN
  /\ pc[r] = "apply"
  /\ BlockedBy(r) = {}
  /\ \/ /\ leg.amount = 0
        /\ Rollback(r, "CheckViolation")
     \/ /\ leg.amount # 0
        /\ inserted' = [inserted EXCEPT ![r] = @ + 1]
        /\ IF leg.account \in Accounts
           THEN /\ owner' = [owner EXCEPT ![leg.account] = r]
                /\ wip' = [wip EXCEPT ![leg.account] = AfterLedgerEntry(@, sum[r])]
           ELSE UNCHANGED <<owner, wip>>
        /\ pc' = [pc EXCEPT ![r] = IF inserted[r] + 1 = Len(req[r].legs)
                                   THEN "commit" ELSE "sum"]
        /\ UNCHANGED <<req, row, sum, acct, answer>>

(* Mutant: the original is not marked in the transaction of its reversal.  *)
CommitUnmarked(r) ==
  /\ pc[r] = "commit"
  /\ row' = [row EXCEPT ![r] = "POSTED"]
  /\ acct' = [a \in Accounts |-> IF owner[a] = r THEN wip[a] ELSE acct[a]]
  /\ owner' = [a \in Accounts |-> IF owner[a] = r THEN NoJournal ELSE owner[a]]
  /\ Reply(r, "Posted", r)
  /\ UNCHANGED <<req, inserted, sum, wip>>

(* Mutant: the caller is answered and the transaction never committed.     *)
CommitForgotten(r) ==
  /\ pc[r] = "commit"
  /\ Reply(r, "Posted", r)
  /\ UNCHANGED <<req, row, inserted, sum, acct, owner, wip>>

(* The foreign keys are checked at the end of the INSERT statement; COMMIT *)
(* publishes journal, entries, account rows and the REVERSED mark at once. *)
(* The acknowledgement may be lost: then the caller sees an error.         *)
Commit(r) ==
  /\ pc[r] = "commit"
  /\ \/ /\ \E i \in DOMAIN req[r].legs : req[r].legs[i].account \notin Accounts
        /\ Rollback(r, "ForeignKey")
     \/ /\ \A i \in DOMAIN req[r].legs : req[r].legs[i].account \in Accounts
        /\ row' = [j \in Requests |->
                     IF j = r THEN "POSTED"
                     ELSE IF j = req[r].target THEN "REVERSED" ELSE row[j]]
        /\ acct' = [a \in Accounts |-> IF owner[a] = r THEN wip[a] ELSE acct[a]]
        /\ owner' = [a \in Accounts |-> IF owner[a] = r THEN NoJournal ELSE owner[a]]
        /\ \/ Reply(r, "Posted", r)
           \/ Reply(r, "ConnectionLost", NoJournal)
        /\ UNCHANGED <<req, inserted, sum, wip>>

(* PostgreSQL breaks a cycle of waiting transactions by aborting one.      *)
DeadlockAbort(r) == Deadlocked(r) /\ Rollback(r, "Deadlock")

(* The connection or the process dies: the server rolls back.              *)
LoseConnection(r) ==
  /\ pc[r] \notin {"idle", "done"}
  /\ Rollback(r, "ConnectionLost")

(* Another service updates hold_amount in a single-statement transaction,  *)
(* which waits for the row lock.                                           *)
UpdateHold(a, h) ==
  /\ owner[a] = NoJournal
  /\ acct' = [acct EXCEPT ![a] = AfterHoldUpdate(@, h)]
  /\ wip' = [wip EXCEPT ![a] = AfterHoldUpdate(@, h)]
  /\ UNCHANGED <<pc, req, row, inserted, sum, owner, answer>>

Step(r) ==
  \/ InsertJournal(r) \/ MarkReversed(r) \/ TriggerSum(r) \/ TriggerApply(r)
  \/ Commit(r) \/ DeadlockAbort(r)

Next ==
  \/ \E r \in Requests : \/ Step(r)
                         \/ LoseConnection(r)
                         \/ \E legs \in Dtos, key \in Keys \cup {NoKey} : Post(r, legs, key)
                         \/ \E j \in Requests : ReadOriginal(r, j)
  \/ \E a \in Accounts : \E h \in Holds[a] : UpdateHold(a, h)

Spec == Init /\ [][Next]_vars

(* A statement that is not waiting runs, and the deadlock detector fires;  *)
(* nobody is obliged to send a request.                                    *)
FairSpec == Spec /\ \A r \in Requests : WF_vars(Step(r))

-----------------------------------------------------------------------------
(* Properties.                                                             *)

(* The control part of the type invariant: who is where, what it is doing, *)
(* which journal rows are visible and who holds which row lock.            *)
ControlOK ==
  /\ pc \in [Requests -> {"idle", "insertJournal", "markReversed", "sum",
                          "apply", "commit", "done"}]
  /\ req \in [Requests -> [kind : {"none", "post", "reverse"},
                           legs : Seq(Leg),
                           key : Keys \cup {NoKey},
                           target : Requests \cup {NoJournal}]]
  /\ row \in [Requests -> {"absent", "POSTED", "REVERSED"}]
  /\ inserted \in [Requests -> Nat]
  /\ owner \in [Accounts -> Requests \cup {NoJournal}]
  /\ answer \in [Requests -> [outcome : Outcomes,
                              journal : Requests \cup {NoJournal}]]

(* Every variable has its type; account columns are numbers, and a row is  *)
(* locked only by an open transaction.                                     *)
TypeOK ==
  /\ ControlOK
  /\ sum \in [Requests -> Int]
  /\ \A rows \in {acct, wip} :
       rows \in [Accounts -> [balance : Int, avail : Int, hold : Nat, overdraft : Nat]]
  /\ \A a \in Accounts : owner[a] \in Open \cup {NoJournal}

(* The books balance: whatever transactions abort, deadlock or lose their  *)
(* connection, the entries of a visible journal have equal debits and      *)
(* credits in every currency (postJournal's validateBalance, the mirrored  *)
(* legs of reverseJournal, and one DB transaction around both inserts).    *)
JournalsBalanced == \A j \in Committed : Balanced(Entries(j))

(* Idempotent posting: an idempotency key names at most one journal, even  *)
(* when calls with the same key race past the lookup, and every call with  *)
(* that key that was answered with a journal was answered with that one.   *)
KeyNamesOneJournal ==
  /\ \A j, k \in Committed : req[j].key = req[k].key /\ j # k => req[j].key = NoKey
  /\ \A r \in Requests : answer[r].outcome \in {"Posted", "Replayed"} =>
       /\ answer[r].journal \in Committed
       /\ req[answer[r].journal].key = req[r].key

(* A journal is REVERSED exactly when a visible journal reverses it, and   *)
(* that one undoes it leg by leg (the UPDATE of the original and the       *)
(* inserts of the reversal are one transaction in reverseJournal).         *)
ReversalsPaired ==
  /\ \A j \in Committed :
       row[j] = "REVERSED" <=> \E k \in Committed : req[k].target = j
  /\ \A k \in Committed : req[k].kind = "reverse" =>
       /\ req[k].target \in Committed
       /\ Entries(k) = Mirror(Entries(req[k].target))

(* available_balance = balance - hold_amount + overdraft_limit in every    *)
(* committed account row, although the two triggers compute it from        *)
(* different columns and hold updates land between a trigger's SUM and its *)
(* FOR UPDATE read.                                                        *)
AvailableFollowsColumns ==
  \A a \in Accounts : AvailableAgrees(acct[a]) /\ AvailableAgrees(wip[a])

(* Claimed by account.entity.ts (line 85) and the comment of the migration *)
(* (line 267), and asserted by account.ledger.spec.ts (lines 155-156): the *)
(* balance of an account is sum(CREDIT) - sum(DEBIT) of all its entries.   *)
BalanceIsLedgerSum == \A a \in Accounts : acct[a].balance = LedgerSum(a)

(* How far off the column is when requests do not overlap: it misses       *)
(* exactly one entry, because the trigger runs before the row it fires for *)
(* exists.                                                                 *)
OneEntryBehind ==
  \A a \in Accounts :
    LET mine == {e \in UNION {{<<j, i>> : i \in 1..inserted[j]} : j \in Committed} :
                   req[e[1]].legs[e[2]].account = a}
    IN IF mine = {} THEN acct[a].balance = 0
       ELSE \E e \in mine :
              acct[a].balance = LedgerSum(a) - Signed(req[e[1]].legs[e[2]])

(* Claimed by the comment on the trigger: summing makes it correct even    *)
(* under concurrent inserts.  Granting the one entry the trigger cannot    *)
(* see, nothing else may be missing when no transaction is open.           *)
ConcurrentInsertsCounted == Open = {} => OneEntryBehind

(* Claimed by JournalAlreadyReversedError: a journal is reversed once.     *)
ReversedOnce ==
  \A k, m \in Committed :
    req[k].kind = "reverse" /\ req[m].kind = "reverse"
      /\ req[k].target = req[m].target => k = m

(* Every request is answered: locks are always released, and a deadlock is *)
(* always broken (opposite transfers lock the same accounts in opposite    *)
(* orders).  Requests start once each, so from some moment on none is open *)
(* or waiting.                                                             *)
RequestsAnswered == <>[](\A r \in Requests : pc[r] \in {"idle", "done"})

-----------------------------------------------------------------------------
(* The journals a reader of the database sees, as the books they make up.  *)
Shelf ==
  [j \in Requests |->
     IF row[j] = "absent"
     THEN [legs |-> <<>>, key |-> NoKey, reverses |-> NoJournal, status |-> "absent"]
     ELSE [legs |-> Entries(j), key |-> req[j].key, reverses |-> req[j].target,
           status |-> row[j]]]

B == INSTANCE Books WITH Ids <- Requests, book <- Shelf

(* The ledger implements Books: journals appear whole, balanced and in one *)
(* step, whatever their inserts were interleaved with.                     *)
ImplementsBooks == B!Spec
=============================================================================
