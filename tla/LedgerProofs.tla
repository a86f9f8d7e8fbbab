---------------------------- MODULE LedgerProofs ----------------------------
(***************************************************************************)
(* Theorems about Ledger, for every set of requests, accounts, keys and    *)
(* entry lists.  The balance of a mirrored journal follows because its two *)
(* sides are sums of the same functions; what the balance columns hold     *)
(* rests on the lemmas of Sums.                                            *)
(***************************************************************************)
EXTENDS Ledger, Sums, TLAPS

(* Mirroring exchanges the two totals of a journal.                        *)
LEMMA MirrorTotals ==
  ASSUME NEW legs \in Seq(Leg), NEW c
  PROVE  /\ Debits(Mirror(legs), c) = Credits(legs, c)
         /\ Credits(Mirror(legs), c) = Debits(legs, c)
<1>1. DOMAIN Mirror(legs) = DOMAIN legs
  BY DEF Mirror
<1>2. ASSUME NEW i \in DOMAIN legs
      PROVE  /\ Mirror(legs)[i].type = Opposite(legs[i].type)
             /\ Mirror(legs)[i].currency = legs[i].currency
             /\ Mirror(legs)[i].amount = legs[i].amount
             /\ legs[i].type \in EntryTypes
  <2>1. legs[i] \in Leg
    OBVIOUS
  <2>2. Mirror(legs)[i] = [legs[i] EXCEPT !.type = Opposite(legs[i].type)]
    BY DEF Mirror
  <2> QED
    BY <2>1, <2>2 DEF Leg
<1>3. [i \in DOMAIN Mirror(legs) |->
         IF Mirror(legs)[i].type = "DEBIT" /\ Mirror(legs)[i].currency = c
         THEN Mirror(legs)[i].amount ELSE 0]
      = [i \in DOMAIN legs |->
         IF legs[i].type = "CREDIT" /\ legs[i].currency = c
         THEN legs[i].amount ELSE 0]
  BY <1>1, <1>2 DEF Opposite, EntryTypes
<1>4. [i \in DOMAIN Mirror(legs) |->
         IF Mirror(legs)[i].type = "CREDIT" /\ Mirror(legs)[i].currency = c
         THEN Mirror(legs)[i].amount ELSE 0]
      = [i \in DOMAIN legs |->
         IF legs[i].type = "DEBIT" /\ legs[i].currency = c
         THEN legs[i].amount ELSE 0]
  BY <1>1, <1>2 DEF Opposite, EntryTypes
<1> QED
  BY <1>3, <1>4 DEF Debits, Credits

(* The reversal of a list of legs is a list of legs.                       *)
LEMMA MirrorTyped ==
  ASSUME NEW legs \in Seq(Leg)
  PROVE  Mirror(legs) \in Seq(Leg)
<1>1. DOMAIN Mirror(legs) = DOMAIN legs /\ DOMAIN legs = 1..Len(legs)
  BY DEF Mirror
<1>2. ASSUME NEW i \in DOMAIN legs PROVE Mirror(legs)[i] \in Leg
  <2>1. legs[i] \in Leg
    BY <1>1
  <2> QED
    BY <2>1 DEF Mirror, Leg, Opposite, EntryTypes
<1>3. Mirror(legs) = [i \in 1..Len(legs) |-> Mirror(legs)[i]]
  BY <1>1 DEF Mirror
<1> QED
  BY <1>1, <1>2, <1>3

(* The reversal of a balanced journal is a balanced list of legs.          *)
LEMMA MirrorBalanced ==
  ASSUME NEW legs \in Seq(Leg), Balanced(legs)
  PROVE  Balanced(Mirror(legs))
<1>1. ASSUME NEW i \in DOMAIN legs
      PROVE  Mirror(legs)[i].currency = legs[i].currency
  <2>1. legs[i] \in Leg
    OBVIOUS
  <2> QED
    BY <2>1 DEF Mirror, Leg
<1>2. Currencies(Mirror(legs)) = Currencies(legs)
  BY <1>1 DEF Currencies, Mirror
<1> QED
  BY <1>2, MirrorTotals DEF Balanced

-----------------------------------------------------------------------------
(* The inductive invariant.                                                *)

(* A request that may still commit, or has committed.                      *)
Live(r) == pc[r] \in {"insertJournal", "markReversed"} \cup InTransaction \/ row[r] # "absent"

(* Where a request is tells how many of its legs are inserted.             *)
Progress ==
  \A r \in Requests :
    /\ inserted[r] <= Len(req[r].legs)
    /\ pc[r] \in {"idle", "insertJournal", "markReversed"} => inserted[r] = 0
    /\ pc[r] \in {"sum", "apply"} => inserted[r] < Len(req[r].legs)
    /\ pc[r] = "commit" => inserted[r] = Len(req[r].legs)
    /\ row[r] # "absent" => pc[r] = "done" /\ inserted[r] = Len(req[r].legs)

(* What a live request inserts is balanced; a reversal mirrors a journal   *)
(* that is committed and stays so.                                         *)
Purpose ==
  \A r \in Requests :
    /\ pc[r] = "insertJournal" => req[r].kind = "post"
    /\ pc[r] = "markReversed" => req[r].kind = "reverse"
    /\ Live(r) =>
         /\ req[r].legs # <<>>
         /\ Balanced(req[r].legs)
         /\ \/ /\ req[r].kind = "post"
               /\ req[r].target = NoJournal
               /\ req[r].legs \in Dtos
            \/ /\ req[r].kind = "reverse"
               /\ req[r].key = NoKey
               /\ req[r].target # r
               /\ req[r].target \in Committed
               /\ req[r].legs = Mirror(req[req[r].target].legs)

(* The unique index: among open and committed inserts a key occurs once.   *)
KeysDistinct ==
  \A q, r \in Open \cup Committed :
    req[q].key = req[r].key /\ req[r].key # NoKey => q = r

Marked ==
  \A j \in Committed :
    row[j] = "REVERSED" <=> \E k \in Committed : req[k].target = j

AnswersStand ==
  \A r \in Requests : answer[r].outcome \in {"Posted", "Replayed"} =>
    /\ pc[r] = "done"
    /\ answer[r].journal \in Committed
    /\ req[answer[r].journal].key = req[r].key

IInv == ControlOK /\ Progress /\ Purpose /\ KeysDistinct /\ Marked /\ AnswersStand

-----------------------------------------------------------------------------
(* Control types.                                                          *)

(* No request has been sent, no journal exists and no row is locked.       *)
LEMMA ControlInit == Init => ControlOK
<1> SUFFICES ASSUME Init PROVE ControlOK
  OBVIOUS
<1>1. NoRequest \in [kind : {"none", "post", "reverse"}, legs : Seq(Leg),
                     key : Keys \cup {NoKey}, target : Requests \cup {NoJournal}]
  BY DEF NoRequest
<1>2. NoAnswer \in [outcome : Outcomes, journal : Requests \cup {NoJournal}]
  BY DEF NoAnswer, Outcomes
<1> QED
  BY <1>1, <1>2 DEF Init, ControlOK

(* The rows of a journal are legs of the request that inserts it.          *)
LEMMA EntriesTyped ==
  ASSUME ControlOK, Progress, NEW j \in Requests
  PROVE  /\ Entries(j) \in Seq(Leg)
         /\ inserted[j] = Len(req[j].legs) => Entries(j) = req[j].legs
<1>1. /\ req[j].legs \in Seq(Leg)
      /\ inserted[j] \in Nat
      /\ inserted[j] <= Len(req[j].legs)
  BY DEF ControlOK, Progress
<1>2. Entries(j) = SubSeq(req[j].legs, 1, inserted[j])
  BY <1>1 DEF Entries
<1>3. req[j].legs = [i \in 1..Len(req[j].legs) |-> req[j].legs[i]]
  BY <1>1
<1>4. Entries(j) \in Seq(Leg)
  BY <1>1, <1>2
<1> QED
  BY <1>3, <1>4 DEF Entries

(* What Reply records is a well-typed answer of a request that is done.    *)
LEMMA ReplyControl ==
  ASSUME ControlOK, NEW r \in Requests, NEW o \in Outcomes,
         NEW j \in Requests \cup {NoJournal}, Reply(r, o, j)
  PROVE  /\ pc' \in [Requests -> {"idle", "insertJournal", "markReversed", "sum",
                                  "apply", "commit", "done"}]
         /\ answer' \in [Requests -> [outcome : Outcomes, journal : Requests \cup {NoJournal}]]
BY DEF ControlOK, Reply

(* A rollback leaves no trace among the journals.                          *)
LEMMA RollbackKeeps ==
  ASSUME IInv, NEW r \in Requests, pc[r] \notin {"idle", "done"},
         NEW o \in Outcomes \ {"Posted", "Replayed"}, Rollback(r, o)
  PROVE  IInv'
<1>1. ControlOK'
  <2>1. /\ pc' \in [Requests -> {"idle", "insertJournal", "markReversed", "sum",
                                  "apply", "commit", "done"}]
        /\ answer' \in [Requests -> [outcome : Outcomes, journal : Requests \cup {NoJournal}]]
    BY ReplyControl DEF Rollback, IInv
  <2>2. owner' \in [Accounts -> Requests \cup {NoJournal}]
    BY DEF ControlOK, Rollback, IInv
  <2> QED
    BY <2>1, <2>2 DEF ControlOK, Rollback, IInv
<1>2. Committed' = Committed /\ row[r] = "absent" /\ Open' \subseteq Open
  BY DEF IInv, ControlOK, Progress, Committed, Open, Rollback, Reply, InTransaction
<1>3. Progress'
  BY DEF IInv, ControlOK, Progress, Rollback, Reply
<1>4. Purpose'
  BY <1>2 DEF IInv, ControlOK, Purpose, Live, Rollback, Reply, InTransaction
<1>5. KeysDistinct'
  BY <1>2 DEF IInv, KeysDistinct, Rollback
<1>6. Marked'
  BY <1>2 DEF IInv, Marked, Rollback
<1>7. AnswersStand'
  BY <1>2 DEF IInv, ControlOK, AnswersStand, Rollback, Reply
<1> QED
  BY <1>1, <1>3, <1>4, <1>5, <1>6, <1>7 DEF IInv

(* Accepting a call: r leaves "idle" with a request of its own; nothing    *)
(* else changes but r's answer.                                            *)
LEMMA PostKeeps ==
  ASSUME IInv, NEW r \in Requests, NEW legs \in Dtos, NEW key \in Keys \cup {NoKey},
         Post(r, legs, key)
  PROVE  IInv'
<1> USE DEF IInv
<1>0. legs \in Seq(Leg) /\ legs # <<>> /\ pc[r] = "idle" /\ row[r] = "absent"
      /\ inserted[r] = 0 /\ Len(legs) \in Nat
  BY LedgerConstants DEF Post, ControlOK, Progress
<1>1. ControlOK'
  <2>2. req' \in [Requests -> [kind : {"none", "post", "reverse"}, legs : Seq(Leg),
                               key : Keys \cup {NoKey}, target : Requests \cup {NoJournal}]]
    BY <1>0 DEF Post, ControlOK
  <2>3. pc' \in [Requests -> {"idle", "insertJournal", "markReversed", "sum",
                              "apply", "commit", "done"}]
    BY DEF Post, Reply, ControlOK
  <2>4. answer' \in [Requests -> [outcome : Outcomes, journal : Requests \cup {NoJournal}]]
    BY DEF Post, Reply, Outcomes, Committed, ControlOK
  <2> QED
    BY <2>2, <2>3, <2>4 DEF Post, ControlOK
<1>2. /\ Committed' = Committed /\ Open' = Open
      /\ r \notin Committed /\ r \notin Open
      /\ \A q \in Requests \ {r} : req'[q] = req[q] /\ pc'[q] = pc[q]
      /\ req'[r] = [kind |-> "post", legs |-> legs, key |-> key, target |-> NoJournal]
      /\ pc'[r] \in {"insertJournal", "done"}
      /\ pc'[r] = "insertJournal" => Balanced(legs)
  BY <1>0 DEF Post, ControlOK, Committed, Open, InTransaction, Reply
<1>3. Progress'
  BY <1>0, <1>2 DEF Progress, Post, ControlOK
<1>4. Purpose'
  <2> SUFFICES ASSUME NEW q \in Requests PROVE Purpose!(q)'
    BY DEF Purpose
  <2> QED
    BY <1>0, <1>2 DEF Purpose, Live, Post, ControlOK, InTransaction, Committed
<1>5. KeysDistinct'
  BY <1>2 DEF KeysDistinct, Committed, Open
<1>6. Marked'
  BY <1>2 DEF Marked, Post, Committed
<1>7. AnswersStand'
  BY <1>0, <1>2 DEF AnswersStand, Post, Reply, ControlOK, Committed, Outcomes
<1> QED
  BY <1>1, <1>3, <1>4, <1>5, <1>6, <1>7

(* reverseJournal's read starts a reversal of a journal it saw POSTED, or  *)
(* answers at once.                                                        *)
LEMMA ReadOriginalKeeps ==
  ASSUME IInv, NEW r \in Requests, NEW j \in Requests, ReadOriginal(r, j)
  PROVE  IInv'
<1> USE DEF IInv
<1>0. /\ pc[r] = "idle" /\ row[r] = "absent" /\ inserted[r] = 0
      /\ Entries(j) \in Seq(Leg)
      /\ Mirror(Entries(j)) \in Seq(Leg)
      /\ row[j] # "absent" => /\ j # r
                              /\ Entries(j) = req[j].legs
                              /\ Mirror(Entries(j)) # <<>>
                              /\ Balanced(Mirror(Entries(j)))
  <2>1. pc[r] = "idle" /\ row[r] = "absent" /\ inserted[r] = 0
    BY DEF ReadOriginal, ControlOK, Progress
  <2>2. Entries(j) \in Seq(Leg)
    BY EntriesTyped
  <2>3. DOMAIN Mirror(Entries(j)) = DOMAIN Entries(j)
    BY DEF Mirror
  <2>4. Mirror(Entries(j)) \in Seq(Leg)
    BY <2>2, MirrorTyped
  <2>5. ASSUME row[j] # "absent"
        PROVE  /\ j # r /\ Entries(j) = req[j].legs
               /\ Entries(j) # <<>> /\ Balanced(Entries(j))
    BY <2>1, <2>5, EntriesTyped DEF Progress, Purpose, Live
  <2> QED
    BY <2>1, <2>2, <2>3, <2>4, <2>5, MirrorBalanced
<1>1. ControlOK'
  <2>2. req' \in [Requests -> [kind : {"none", "post", "reverse"}, legs : Seq(Leg),
                               key : Keys \cup {NoKey}, target : Requests \cup {NoJournal}]]
    BY <1>0 DEF ReadOriginal, ControlOK
  <2>3. pc' \in [Requests -> {"idle", "insertJournal", "markReversed", "sum",
                              "apply", "commit", "done"}]
    BY DEF ReadOriginal, Reply, ControlOK
  <2>4. answer' \in [Requests -> [outcome : Outcomes, journal : Requests \cup {NoJournal}]]
    BY DEF ReadOriginal, Reply, Outcomes, ControlOK
  <2> QED
    BY <2>2, <2>3, <2>4 DEF ReadOriginal, ControlOK
<1>2. /\ Committed' = Committed /\ Open' = Open
      /\ r \notin Committed /\ r \notin Open
      /\ \A q \in Requests \ {r} : req'[q] = req[q] /\ pc'[q] = pc[q]
      /\ req'[r] = [kind |-> "reverse", legs |-> Mirror(Entries(j)), key |-> NoKey, target |-> j]
      /\ pc'[r] \in {"markReversed", "done"}
      /\ pc'[r] = "markReversed" => row[j] = "POSTED"
  BY <1>0 DEF ReadOriginal, ControlOK, Committed, Open, InTransaction, Reply
<1>3. Progress'
  BY <1>0, <1>2 DEF Progress, ReadOriginal, ControlOK
<1>4. Purpose'
  <2> SUFFICES ASSUME NEW q \in Requests PROVE Purpose!(q)'
    BY DEF Purpose
  <2>1. CASE q = r
    BY <1>0, <1>2, <2>1 DEF Purpose, Live, ReadOriginal, ControlOK, InTransaction, Committed
  <2>2. CASE q # r
    BY <1>0, <1>2, <2>2 DEF Purpose, Live, ReadOriginal, ControlOK, InTransaction, Committed
  <2> QED
    BY <2>1, <2>2
<1>5. KeysDistinct'
  BY <1>2 DEF KeysDistinct, Committed, Open
<1>6. Marked'
  BY <1>2 DEF Marked, ReadOriginal, Committed
<1>7. AnswersStand'
  BY <1>0, <1>2 DEF AnswersStand, ReadOriginal, Reply, ControlOK, Committed, Outcomes
<1> QED
  BY <1>1, <1>3, <1>4, <1>5, <1>6, <1>7

(* The unique index is what keeps keys distinct: the insert went through   *)
(* because neither an open nor a committed journal has the key.            *)
LEMMA InsertJournalKeeps ==
  ASSUME IInv, NEW r \in Requests, InsertJournal(r)
  PROVE  IInv'
<1> USE DEF IInv
<1>1. CASE Rollback(r, "DuplicateKey")
  BY <1>1, RollbackKeeps DEF InsertJournal, Outcomes
<1>2. CASE ~ Rollback(r, "DuplicateKey")
  <2>0. /\ pc[r] = "insertJournal" /\ pc' = [pc EXCEPT ![r] = "sum"]
        /\ UNCHANGED <<req, row, inserted, sum, acct, owner, wip, answer>>
        /\ \A j \in Committed : req[j].key = req[r].key => req[r].key = NoKey
        /\ \A q \in Open \ {r} : req[q].key = req[r].key => req[r].key = NoKey
    BY <1>2 DEF InsertJournal, BlockedBy
  <2>1. ControlOK'
    BY <2>0 DEF ControlOK
  <2>2. Committed' = Committed /\ Open' = Open \cup {r} /\ row[r] = "absent"
    BY <2>0 DEF ControlOK, Committed, Open, InTransaction, Progress
  <2>3. Progress'
    BY <2>0 DEF Progress, Purpose, Live, ControlOK
  <2>4. Purpose'
    BY <2>0, <2>2 DEF Purpose, Live, ControlOK, InTransaction
  <2>5. KeysDistinct'
    BY <2>0, <2>2 DEF KeysDistinct, Committed, Open
  <2>6. Marked' /\ AnswersStand'
    BY <2>0, <2>2 DEF Marked, AnswersStand, ControlOK
  <2> QED
    BY <2>1, <2>3, <2>4, <2>5, <2>6
<1> QED
  BY <1>1, <1>2

(* The UPDATE of the original becomes visible only with the reversal.      *)
LEMMA MarkReversedKeeps ==
  ASSUME IInv, NEW r \in Requests, MarkReversed(r)
  PROVE  IInv'
<1> USE DEF IInv
<1>0. /\ pc[r] = "markReversed" /\ pc' = [pc EXCEPT ![r] = "sum"]
      /\ UNCHANGED <<req, row, inserted, sum, acct, owner, wip, answer>>
  BY DEF MarkReversed
<1>1. ControlOK'
  BY <1>0 DEF ControlOK
<1>2. /\ Committed' = Committed /\ Open' = Open \cup {r} /\ row[r] = "absent"
      /\ req[r].key = NoKey
  BY <1>0 DEF ControlOK, Committed, Open, InTransaction, Progress, Purpose, Live
<1>3. Progress'
  BY <1>0 DEF Progress, Purpose, Live, ControlOK
<1>4. Purpose'
  BY <1>0, <1>2 DEF Purpose, Live, ControlOK, InTransaction
<1>5. KeysDistinct'
  BY <1>0, <1>2 DEF KeysDistinct, Committed, Open
<1>6. Marked' /\ AnswersStand'
  BY <1>0, <1>2 DEF Marked, AnswersStand, ControlOK
<1> QED
  BY <1>1, <1>3, <1>4, <1>5, <1>6

(* The trigger's SELECT SUM changes nothing that others see.               *)
LEMMA TriggerSumKeeps ==
  ASSUME IInv, NEW r \in Requests, TriggerSum(r)
  PROVE  IInv'
<1> USE DEF IInv
<1>0. /\ pc[r] = "sum" /\ pc' = [pc EXCEPT ![r] = "apply"]
      /\ UNCHANGED <<req, row, inserted, acct, owner, wip, answer>>
  BY DEF TriggerSum
<1>1. ControlOK'
  BY <1>0 DEF ControlOK
<1>2. Committed' = Committed /\ Open' = Open
  BY <1>0 DEF ControlOK, Committed, Open, InTransaction
<1>3. Progress'
  BY <1>0 DEF Progress, ControlOK
<1>4. Purpose'
  BY <1>0, <1>2 DEF Purpose, Live, ControlOK, InTransaction
<1>5. KeysDistinct'
  BY <1>0, <1>2 DEF KeysDistinct
<1>6. Marked' /\ AnswersStand'
  BY <1>0, <1>2 DEF Marked, AnswersStand, ControlOK
<1> QED
  BY <1>1, <1>3, <1>4, <1>5, <1>6

(* Inserting a leg extends the private entries of its own journal.         *)
LEMMA TriggerApplyKeeps ==
  ASSUME IInv, NEW r \in Requests, TriggerApply(r)
  PROVE  IInv'
<1> USE DEF IInv
<1>1. CASE Rollback(r, "CheckViolation")
  BY <1>1, RollbackKeeps DEF TriggerApply, Outcomes
<1>2. CASE ~ Rollback(r, "CheckViolation")
  <2>0. /\ pc[r] = "apply"
        /\ inserted' = [inserted EXCEPT ![r] = inserted[r] + 1]
        /\ pc' = [pc EXCEPT ![r] = IF inserted[r] + 1 = Len(req[r].legs)
                                   THEN "commit" ELSE "sum"]
        /\ UNCHANGED <<req, row, sum, acct, answer>>
    BY <1>2 DEF TriggerApply
  <2>1. ControlOK'
    <3>1. owner' \in [Accounts -> Requests \cup {NoJournal}]
      BY <1>2 DEF TriggerApply, ControlOK
    <3> QED
      BY <2>0, <3>1 DEF ControlOK
  <2>2. Committed' = Committed /\ Open' = Open
    BY <2>0 DEF ControlOK, Committed, Open, InTransaction
  <2>3. Progress'
    <3>1. \A q \in Requests : Len(req[q].legs) \in Nat /\ inserted[q] \in Nat
      BY DEF ControlOK
    <3> QED
      BY <2>0, <3>1 DEF Progress, ControlOK
  <2>4. Purpose'
    BY <2>0, <2>2 DEF Purpose, Live, ControlOK, InTransaction
  <2>5. KeysDistinct'
    BY <2>0, <2>2 DEF KeysDistinct
  <2>6. Marked' /\ AnswersStand'
    BY <2>0, <2>2 DEF Marked, AnswersStand, ControlOK
  <2> QED
    BY <2>1, <2>3, <2>4, <2>5, <2>6
<1> QED
  BY <1>1, <1>2

(* Commit publishes a balanced journal under a key nobody else has, and    *)
(* marks the original of a reversal in the same step.                      *)
LEMMA CommitKeeps ==
  ASSUME IInv, NEW r \in Requests, Commit(r)
  PROVE  IInv'
<1> USE DEF IInv
<1>1. CASE Rollback(r, "ForeignKey")
  BY <1>1, RollbackKeeps DEF Commit, Outcomes
<1>2. CASE ~ Rollback(r, "ForeignKey")
  <2>0. /\ pc[r] = "commit"
        /\ pc' = [pc EXCEPT ![r] = "done"]
        /\ row' = [j \in Requests |->
                     IF j = r THEN "POSTED"
                     ELSE IF j = req[r].target THEN "REVERSED" ELSE row[j]]
        /\ UNCHANGED <<req, inserted, sum, wip>>
        /\ Reply(r, "Posted", r) \/ Reply(r, "ConnectionLost", NoJournal)
        /\ row[r] = "absent" /\ inserted[r] = Len(req[r].legs)
    BY <1>2 DEF Commit, Reply, Progress
  <2>1. ControlOK'
    <3>1. owner' \in [Accounts -> Requests \cup {NoJournal}]
      BY <1>2 DEF Commit, ControlOK
    <3>2. answer' \in [Requests -> [outcome : Outcomes, journal : Requests \cup {NoJournal}]]
      BY <2>0, ReplyControl DEF Outcomes
    <3>3. row' \in [Requests -> {"absent", "POSTED", "REVERSED"}]
      BY <2>0 DEF ControlOK
    <3> QED
      BY <2>0, <3>1, <3>2, <3>3 DEF ControlOK
  <2>2. /\ req[r].target \in Committed \cup {NoJournal}
        /\ req[r].target # r
    BY <2>0, LedgerConstants DEF Purpose, Live, InTransaction
  <2>9. ASSUME NEW q \in Requests
        PROVE  /\ row'[q] # "absent" <=> row[q] # "absent" \/ q = r
               /\ pc'[q] = IF q = r THEN "done" ELSE pc[q]
    BY <2>0, <2>2, LedgerConstants DEF ControlOK, Committed
  <2>3. /\ Committed' = Committed \cup {r}
        /\ Open' = Open \ {r}
        /\ r \in Open
    BY <2>0, <2>9 DEF Committed, Open, InTransaction
  <2>4. Progress'
    BY <2>0, <2>9 DEF Progress
  <2>5. Purpose'
    <3> SUFFICES ASSUME NEW q \in Requests PROVE Purpose!(q)'
      BY DEF Purpose
    <3>1. Live(q)' => Live(q)
      BY <2>0, <2>9 DEF Live, InTransaction
    <3> QED
      BY <2>0, <2>3, <2>9, <3>1 DEF Purpose
  <2>6. KeysDistinct'
    BY <2>0, <2>3 DEF KeysDistinct
  <2>7. Marked'
    <3> SUFFICES ASSUME NEW j \in Committed'
                 PROVE  row'[j] = "REVERSED" <=> \E k \in Committed' : req[k].target = j
      BY <2>0 DEF Marked
    <3>1. CASE j = r
      <4>1. \A k \in Committed : req[k].target # r
        BY <2>0, LedgerConstants DEF Purpose, Live, Committed
      <4> QED
        BY <2>0, <2>2, <2>3, <3>1, <4>1 DEF Committed
    <3>2. CASE j # r
      BY <2>0, <2>3, <3>2 DEF Marked, Committed
    <3> QED
      BY <3>1, <3>2
  <2>8. AnswersStand'
    BY <2>0, <2>3 DEF AnswersStand, Reply, ControlOK, Outcomes
  <2> QED
    BY <2>1, <2>4, <2>5, <2>6, <2>7, <2>8
<1> QED
  BY <1>1, <1>2

(* The invariant holds in the empty ledger.                                *)
LEMMA IInvInit == Init => IInv
<1> SUFFICES ASSUME Init PROVE IInv
  OBVIOUS
<1>1. ControlOK
  BY ControlInit
<1>2. Committed = {} /\ Open = {}
  BY DEF Init, Committed, Open, InTransaction
<1>3. Progress /\ Purpose
  BY DEF Init, Progress, Purpose, Live, InTransaction, NoRequest
<1>4. KeysDistinct /\ Marked
  BY <1>2 DEF KeysDistinct, Marked
<1>5. AnswersStand
  BY DEF Init, AnswersStand, NoAnswer
<1> QED
  BY <1>1, <1>3, <1>4, <1>5 DEF IInv

(* Every statement of every request preserves the invariant.               *)
LEMMA IInvStep == IInv /\ [Next]_vars => IInv'
<1> SUFFICES ASSUME IInv, [Next]_vars PROVE IInv'
  OBVIOUS
<1>1. ASSUME NEW r \in Requests, DeadlockAbort(r) PROVE IInv'
  <2>1. pc[r] \notin {"idle", "done"}
    BY <1>1 DEF DeadlockAbort, Deadlocked, BlockedBy
  <2> QED
    BY <1>1, <2>1, RollbackKeeps DEF DeadlockAbort, Outcomes
<1>2. ASSUME NEW r \in Requests, LoseConnection(r) PROVE IInv'
  BY <1>2, RollbackKeeps DEF LoseConnection, Outcomes
<1>3. ASSUME NEW r \in Requests, Step(r) PROVE IInv'
  BY <1>1, <1>3, InsertJournalKeeps, MarkReversedKeeps, TriggerSumKeeps,
     TriggerApplyKeeps, CommitKeeps DEF Step
<1>4. CASE UNCHANGED <<pc, req, row, inserted, owner, answer>>
  BY <1>4 DEF IInv, ControlOK, Progress, Purpose, KeysDistinct, Marked,
     AnswersStand, Live, Committed, Open
<1> QED
  BY <1>2, <1>3, <1>4, PostKeeps, ReadOriginalKeeps DEF Next, UpdateHold, vars

(* The invariant holds in every reachable state.                           *)
LEMMA LedgerInvariant == Spec => []IInv
<1> QED
  BY IInvInit, IInvStep, PTL DEF Spec

-----------------------------------------------------------------------------
(* The safety properties.                                                  *)

(* The books balance in every reachable state of every ledger: no          *)
(* interleaving, abort or lost connection leaves the entries of a visible  *)
(* journal unbalanced or incomplete.                                       *)
THEOREM BooksBalance == Spec => []JournalsBalanced
<1>1. IInv => JournalsBalanced
  BY EntriesTyped DEF IInv, JournalsBalanced, Progress, Purpose, Live, Committed
<1> QED
  BY <1>1, LedgerInvariant, PTL

(* An idempotency key names at most one journal, and every call with the   *)
(* key that is answered with a journal is answered with that journal.      *)
THEOREM IdempotentPosting == Spec => []KeyNamesOneJournal
<1>1. IInv => KeyNamesOneJournal
  BY DEF IInv, KeyNamesOneJournal, KeysDistinct, AnswersStand, Committed
<1> QED
  BY <1>1, LedgerInvariant, PTL

(* A journal is marked REVERSED exactly when a journal in the books        *)
(* reverses it, and the reversal mirrors it leg by leg.                    *)
THEOREM ReversalsArePaired == Spec => []ReversalsPaired
<1>1. IInv => ReversalsPaired
  BY EntriesTyped DEF IInv, ReversalsPaired, Marked, Purpose, Progress, Live, Committed
<1> QED
  BY <1>1, LedgerInvariant, PTL

-----------------------------------------------------------------------------
(* available_balance.                                                      *)

(* A row has the four columns, and its available balance agrees with them. *)
GoodRow(r) ==
  /\ r = [balance |-> r.balance, avail |-> r.avail, hold |-> r.hold, overdraft |-> r.overdraft]
  /\ AvailableAgrees(r)

RowsInv ==
  /\ acct = [a \in Accounts |-> acct[a]]
  /\ wip = [a \in Accounts |-> wip[a]]
  /\ \A a \in Accounts : GoodRow(acct[a]) /\ GoodRow(wip[a])

(* Each trigger on its own restores the relation between the columns.      *)
LEMMA TriggersAgree ==
  ASSUME NEW r, GoodRow(r), NEW n
  PROVE  GoodRow(AfterLedgerEntry(r, n)) /\ GoodRow(AfterHoldUpdate(r, n))
BY DEF GoodRow, AvailableAgrees, AfterLedgerEntry, AfterHoldUpdate

(* In every reachable state, committed or not, an account row's available  *)
(* balance is balance - hold + overdraft.                                  *)
THEOREM AvailableBalance == Spec => []AvailableFollowsColumns
<1>1. Init => RowsInv
  <2> SUFFICES ASSUME Init PROVE RowsInv
    OBVIOUS
  <2>1. acct = [a \in Accounts |-> [balance |-> 0, avail |-> Overdraft[a], hold |-> 0,
                                    overdraft |-> Overdraft[a]]] /\ wip = acct
    BY DEF Init
  <2>2. ASSUME NEW n \in Nat
        PROVE  GoodRow([balance |-> 0, avail |-> n, hold |-> 0, overdraft |-> n])
    BY DEF GoodRow, AvailableAgrees
  <2>3. \A a \in Accounts : Overdraft[a] \in Nat
    BY LedgerConstants
  <2> QED
    BY <2>1, <2>2, <2>3 DEF RowsInv
<1>2. RowsInv /\ [Next]_vars => RowsInv'
  <2> SUFFICES ASSUME RowsInv, [Next]_vars PROVE RowsInv'
    OBVIOUS
  <2>1. CASE UNCHANGED <<acct, wip>>
    BY <2>1 DEF RowsInv
  <2>2. ASSUME NEW r \in Requests, NEW o, Rollback(r, o) PROVE RowsInv'
    BY <2>2 DEF RowsInv, Rollback
  <2>3. ASSUME NEW r \in Requests, TriggerApply(r) PROVE RowsInv'
    <3>1. CASE ~ Rollback(r, "CheckViolation") /\ ~ UNCHANGED wip
      <4> DEFINE x == NextLeg(r).account
      <4>1. /\ acct' = acct /\ x \in Accounts
            /\ wip' = [wip EXCEPT ![x] = AfterLedgerEntry(wip[x], sum[r])]
        BY <2>3, <3>1 DEF TriggerApply
      <4>2. GoodRow(AfterLedgerEntry(wip[x], sum[r]))
        BY <4>1, TriggersAgree DEF RowsInv
      <4> HIDE DEF x
      <4> QED
        BY <4>1, <4>2 DEF RowsInv
    <3> QED
      BY <2>1, <2>2, <2>3, <3>1 DEF TriggerApply, Rollback
  <2>4. ASSUME NEW r \in Requests, Commit(r) PROVE RowsInv'
    BY <2>2, <2>4 DEF RowsInv, Commit
  <2>5. ASSUME NEW a \in Accounts, NEW h \in Holds[a], UpdateHold(a, h) PROVE RowsInv'
    <3>1. GoodRow(AfterHoldUpdate(acct[a], h)) /\ GoodRow(AfterHoldUpdate(wip[a], h))
      BY TriggersAgree DEF RowsInv
    <3>2. /\ acct' = [acct EXCEPT ![a] = AfterHoldUpdate(acct[a], h)]
          /\ wip' = [wip EXCEPT ![a] = AfterHoldUpdate(wip[a], h)]
      BY <2>5 DEF UpdateHold
    <3> QED
      BY <3>1, <3>2 DEF RowsInv
  <2>6. ASSUME NEW r \in Requests, Step(r) \/ LoseConnection(r) PROVE RowsInv'
    BY <2>1, <2>2, <2>3, <2>4, <2>6
       DEF Step, InsertJournal, MarkReversed, TriggerSum, DeadlockAbort, LoseConnection
  <2>7. ASSUME NEW r \in Requests, NEW legs, NEW key, Post(r, legs, key) PROVE RowsInv'
    BY <2>1, <2>7 DEF Post
  <2>8. ASSUME NEW r \in Requests, NEW j, ReadOriginal(r, j) PROVE RowsInv'
    BY <2>1, <2>8 DEF ReadOriginal
  <2> QED
    BY <2>1, <2>5, <2>6, <2>7, <2>8 DEF Next, vars
<1>3. RowsInv => AvailableFollowsColumns
  BY DEF RowsInv, GoodRow, AvailableFollowsColumns
<1> QED
  BY <1>1, <1>2, <1>3, PTL DEF Spec

-----------------------------------------------------------------------------
(* Refinement.                                                             *)

(* A step that leaves the committed journals and their entries alone is a  *)
(* stutter of the books.                                                   *)
LEMMA QuietStep ==
  ASSUME row' = row, \A j \in Committed : req'[j] = req[j] /\ inserted'[j] = inserted[j]
  PROVE  UNCHANGED Shelf
BY DEF Shelf, Entries, Committed

(* A Commit is a Post or a Reverse of the books, or fails on a foreign key *)
(* and is a stutter.                                                       *)
LEMMA CommitMaps ==
  ASSUME IInv, NEW r \in Requests, Commit(r)
  PROVE  [B!Next]_Shelf
<1> USE DEF IInv
<1>1. CASE Rollback(r, "ForeignKey")
  <2>1. r \notin Committed
    BY DEF Commit, Progress, Committed
  <2> QED
    BY <1>1, <2>1, QuietStep DEF Rollback, Committed, ControlOK
<1>2. CASE ~ Rollback(r, "ForeignKey")
  <2>0. /\ pc[r] = "commit"
        /\ row' = [j \in Requests |->
                     IF j = r THEN "POSTED"
                     ELSE IF j = req[r].target THEN "REVERSED" ELSE row[j]]
        /\ UNCHANGED <<req, inserted>>
        /\ row[r] = "absent" /\ inserted[r] = Len(req[r].legs)
    BY <1>2 DEF Commit, Progress
  <2> DEFINE new == [legs |-> req[r].legs, key |-> req[r].key,
                     reverses |-> req[r].target, status |-> "POSTED"]
  <2>1. Entries(r) = req[r].legs /\ \A j \in Requests : Entries(j)' = Entries(j)
    BY <2>0, EntriesTyped DEF Entries
  <2>2. Live(r)
    BY <2>0 DEF Live, InTransaction
  <2>3. Shelf' = [j \in Requests |->
                   IF row'[j] = "absent"
                   THEN [legs |-> <<>>, key |-> NoKey, reverses |-> NoJournal, status |-> "absent"]
                   ELSE [legs |-> Entries(j), key |-> req[j].key, reverses |-> req[j].target,
                         status |-> row'[j]]]
    BY <2>0, <2>1 DEF Shelf
  <2>4. Shelf[r] = B!Absent /\ Shelf'[r] = new
    BY <2>0, <2>1, <2>3 DEF Shelf, B!Absent
  <2>5. CASE req[r].kind = "post"
    <3>1. req[r].target = NoJournal /\ req[r].legs \in Dtos
          /\ req[r].legs # <<>> /\ Balanced(req[r].legs)
          /\ req[r].key \in Keys \cup {NoKey}
      BY <2>2, <2>5 DEF Purpose, ControlOK
    <3>2. \A j \in Requests \ {r} : Shelf'[j] = Shelf[j]
      BY <2>0, <2>3, <3>1, LedgerConstants DEF Shelf
    <3>3. Shelf' = [Shelf EXCEPT ![r] = new]
      BY <2>3, <2>4, <3>2 DEF Shelf
    <3>4. req[r].key # NoKey => \A k \in Requests : Shelf[k].key # req[r].key
      <4>1. \A k \in Requests : Shelf[k].key = IF row[k] = "absent" THEN NoKey ELSE req[k].key
        BY DEF Shelf
      <4>2. r \in Open
        BY <2>0 DEF Open, InTransaction
      <4> QED
        BY <2>0, <4>1, <4>2 DEF KeysDistinct, Committed
    <3>5. B!Post(r, req[r].legs, req[r].key)
      BY <2>4, <3>1, <3>3, <3>4 DEF B!Post
    <3> QED
      BY <3>1, <3>5 DEF B!Next
  <2>6. CASE req[r].kind = "reverse"
    <3> DEFINE t == req[r].target
    <3>1. /\ t \in Committed /\ t # r /\ req[r].key = NoKey
          /\ req[r].legs = Mirror(req[t].legs)
      BY <2>2, <2>6 DEF Purpose
    <3>2. Live(t) /\ t \in Requests /\ row[t] # "absent"
      BY <3>1 DEF Live, Committed
    <3>3. Entries(t) = req[t].legs /\ req[t].legs # <<>>
      BY <3>2, EntriesTyped DEF Progress, Purpose
    <3>4. Shelf[t] = [legs |-> req[t].legs, key |-> req[t].key, reverses |-> req[t].target,
                      status |-> row[t]]
      BY <3>2, <3>3 DEF Shelf
    <3>5. Shelf'[t] = [legs |-> req[t].legs, key |-> req[t].key, reverses |-> req[t].target,
                       status |-> "REVERSED"]
      BY <2>0, <2>3, <3>1, <3>2, <3>3
    <3>6. \A j \in Requests \ {r, t} : Shelf'[j] = Shelf[j]
      BY <2>0, <2>3 DEF Shelf
    <3>7. Shelf[t] # B!Absent
      BY <3>3, <3>4 DEF B!Absent
    <3>8. Shelf'[t] = [Shelf[t] EXCEPT !.status = "REVERSED"]
      <4>1. ASSUME NEW a, NEW b, NEW c, NEW d
            PROVE  [[legs |-> a, key |-> b, reverses |-> c, status |-> d]
                      EXCEPT !.status = "REVERSED"]
                   = [legs |-> a, key |-> b, reverses |-> c, status |-> "REVERSED"]
        OBVIOUS
      <4> HIDE DEF t
      <4> QED
        BY <3>4, <3>5, <4>1
    <3>11. Shelf'[r] = [legs |-> Mirror(Shelf[t].legs), key |-> NoKey,
                        reverses |-> t, status |-> "POSTED"]
      BY <2>4, <3>1, <3>4
    <3>9. Shelf' = [i \in Requests |->
                     IF i = r THEN [legs |-> Mirror(Shelf[t].legs), key |-> NoKey,
                                    reverses |-> t, status |-> "POSTED"]
                     ELSE IF i = t THEN [Shelf[t] EXCEPT !.status = "REVERSED"] ELSE Shelf[i]]
      <4>1. Shelf' = [i \in Requests |-> Shelf'[i]]
        BY <2>3
      <4> HIDE DEF t
      <4> QED
        BY <4>1, <3>6, <3>8, <3>11
    <3>10. B!Reverse(r, t)
      BY <2>4, <3>1, <3>7, <3>9 DEF B!Reverse
    <3> QED
      BY <3>2, <3>10 DEF B!Next
  <2> QED
    BY <2>2, <2>5, <2>6 DEF Purpose
<1> QED
  BY <1>1, <1>2

(* Every behaviour of the ledger is a behaviour of the books: a Commit is  *)
(* a Post or a Reverse, every other step changes nothing a reader sees.    *)
THEOREM Refinement == Spec => ImplementsBooks
<1>1. Init => B!Init
  BY DEF Init, B!Init, B!Absent, Shelf
<1>2. IInv /\ [Next]_vars => [B!Next]_Shelf
  <2> SUFFICES ASSUME IInv, [Next]_vars PROVE [B!Next]_Shelf
    OBVIOUS
  <2> USE DEF IInv
  <2>0. \A r \in Requests : pc[r] # "done" => r \notin Committed
    BY DEF Progress, Committed
  <2>1. ASSUME NEW r \in Requests, Rollback(r, "Deadlock") \/ Rollback(r, "ConnectionLost")
                                   \/ Rollback(r, "DuplicateKey") \/ Rollback(r, "CheckViolation"),
               r \notin Committed
        PROVE  UNCHANGED Shelf
    BY <2>1, QuietStep DEF Rollback, Committed, ControlOK
  <2>2. ASSUME NEW r \in Requests, NEW legs, NEW key, Post(r, legs, key) PROVE UNCHANGED Shelf
    BY <2>2, <2>0, QuietStep DEF Post, Committed, ControlOK
  <2>3. ASSUME NEW r \in Requests, NEW j, ReadOriginal(r, j) PROVE UNCHANGED Shelf
    BY <2>3, <2>0, QuietStep DEF ReadOriginal, Committed, ControlOK
  <2>4. ASSUME NEW r \in Requests, InsertJournal(r) PROVE UNCHANGED Shelf
    BY <2>4, <2>0, <2>1, QuietStep DEF InsertJournal
  <2>5. ASSUME NEW r \in Requests, MarkReversed(r) \/ TriggerSum(r) PROVE UNCHANGED Shelf
    BY <2>5, QuietStep DEF MarkReversed, TriggerSum
  <2>6. ASSUME NEW r \in Requests, TriggerApply(r) PROVE UNCHANGED Shelf
    BY <2>6, <2>0, <2>1, QuietStep DEF TriggerApply, Committed, ControlOK
  <2>7. ASSUME NEW r \in Requests, DeadlockAbort(r) \/ LoseConnection(r) PROVE UNCHANGED Shelf
    BY <2>7, <2>0, <2>1 DEF DeadlockAbort, Deadlocked, BlockedBy, LoseConnection
  <2>8. CASE UNCHANGED <<row, req, inserted>>
    BY <2>8, QuietStep
  <2> QED
    BY <2>2, <2>3, <2>4, <2>5, <2>6, <2>7, <2>8, CommitMaps DEF Next, Step, UpdateHold, vars
<1> QED
  BY <1>1, <1>2, LedgerInvariant, PTL DEF Spec, ImplementsBooks, B!Spec
-----------------------------------------------------------------------------
(* Sums of entries.                                                        *)

(* A sum of the ledger is one of the sums the library reasons about.       *)
LEMMA LedgerSums == \A f : SumOf(f) = IntegerSum(f)
BY DEF SumOf, IntegerSum

(* What one leg does to an account.                                        *)
Share(legs, a) == [i \in DOMAIN legs |-> IF legs[i].account = a THEN Signed(legs[i]) ELSE 0]

(* What legs do to an account is a finite sum of integers, and zero when   *)
(* none of them is on the account.                                         *)
LEMMA EffectType ==
  ASSUME NEW legs \in Seq(Leg), NEW a
  PROVE  /\ IsFiniteSet(DOMAIN legs)
         /\ \A i \in DOMAIN legs : Signed(legs[i]) \in Int /\ Share(legs, a)[i] \in Int
         /\ Effect(legs, a) = IntegerSum(Share(legs, a))
         /\ Effect(legs, a) \in Int
         /\ (\A i \in DOMAIN legs : legs[i].account # a) => Effect(legs, a) = 0
<1>1. DOMAIN legs = 1..Len(legs) /\ Len(legs) \in Nat
  OBVIOUS
<1>2. IsFiniteSet(DOMAIN legs)
  BY <1>1, FS_Interval
<1>3. \A i \in DOMAIN legs : Signed(legs[i]) \in Int
  <2>1. \A i \in DOMAIN legs : legs[i] \in Leg
    OBVIOUS
  <2> QED
    BY <2>1 DEF Leg, Signed
<1>4. DOMAIN Share(legs, a) = DOMAIN legs /\ \A i \in DOMAIN legs : Share(legs, a)[i] \in Int
  BY <1>3 DEF Share
<1>5. Effect(legs, a) = IntegerSum(Share(legs, a))
  BY LedgerSums DEF Effect, Share
<1>6. IntegerSum(Share(legs, a)) \in Int
  BY <1>2, <1>4, SumType
<1>7. ASSUME \A i \in DOMAIN legs : legs[i].account # a
      PROVE  IntegerSum(Share(legs, a)) = 0
  <2>1. \A i \in DOMAIN Share(legs, a) : Share(legs, a)[i] = 0
    BY <1>7 DEF Share
  <2>2. \A i \in DOMAIN Share(legs, a) : Share(legs, a)[i] \in Nat
    BY <2>1
  <2> QED
    BY <1>2, <1>4, <2>1, <2>2, SumOfNaturals
<1> QED
  BY <1>2, <1>3, <1>4, <1>5, <1>6, <1>7

(* One leg more changes the effect by that leg.                            *)
LEMMA EffectOfOneMore ==
  ASSUME NEW legs \in Seq(Leg), NEW more \in Seq(Leg), NEW a,
         Len(more) = Len(legs) + 1, \A i \in 1..Len(legs) : more[i] = legs[i]
  PROVE  Effect(more, a) = Effect(legs, a) + (IF more[Len(more)].account = a
                                              THEN Signed(more[Len(more)]) ELSE 0)
<1> DEFINE n == Len(more)
<1>1. /\ Len(legs) \in Nat /\ n \in Nat /\ n = Len(legs) + 1
      /\ DOMAIN more = 1..n /\ DOMAIN legs = 1..Len(legs)
  OBVIOUS
<1>2. n \in DOMAIN more /\ DOMAIN legs = DOMAIN more \ {n}
  BY <1>1
<1>3. /\ DOMAIN Share(more, a) = DOMAIN more /\ DOMAIN Share(legs, a) = DOMAIN legs
      /\ \A i \in DOMAIN legs : Share(legs, a)[i] = Share(more, a)[i]
      /\ Share(more, a)[n] = IF more[n].account = a THEN Signed(more[n]) ELSE 0
  BY <1>1, <1>2 DEF Share
<1>4. /\ IsFiniteSet(DOMAIN more) /\ \A i \in DOMAIN more : Share(more, a)[i] \in Int
      /\ Effect(more, a) = IntegerSum(Share(more, a))
      /\ Effect(legs, a) = IntegerSum(Share(legs, a)) /\ Effect(legs, a) \in Int
  BY EffectType
<1>5. IntegerSum(Share(more, a)) = Share(more, a)[n] + IntegerSum(Share(legs, a))
  <2> DEFINE f == Share(more, a)
             g == Share(legs, a)
  <2>1. /\ IsFiniteSet(DOMAIN f) /\ \A i \in DOMAIN f : f[i] \in Int
        /\ n \in DOMAIN f /\ DOMAIN g = DOMAIN f \ {n}
        /\ \A i \in DOMAIN g : g[i] = f[i]
    BY <1>2, <1>3, <1>4
  <2> HIDE DEF f, g, n
  <2>2. IntegerSum(f) = f[n] + IntegerSum(g)
    BY <2>1, SumWithout
  <2> QED
    BY <2>2 DEF f, g
<1>6. Share(more, a)[n] \in Int
  BY <1>2, <1>4
<1> QED
  BY <1>3, <1>4, <1>5, <1>6

(* The SELECT SUM of any transaction returns a number.                     *)
LEMMA VisibleSumType ==
  ASSUME ControlOK, Progress, IsFiniteSet(Committed), NEW r \in Requests, NEW a
  PROVE  /\ VisibleSum(r, a) \in Int
         /\ LedgerSum(a) \in Int
         /\ IsFiniteSet(Committed \cup {r})
<1>1. \A j \in Requests : Effect(Entries(j), a) \in Int
  BY EntriesTyped, EffectType
<1>2. IsFiniteSet(Committed \cup {r})
  BY FS_AddElement
<1>3. ASSUME NEW S, S \subseteq Requests, IsFiniteSet(S)
      PROVE  SumOf([j \in S |-> Effect(Entries(j), a)]) \in Int
  <2> DEFINE f == [j \in S |-> Effect(Entries(j), a)]
  <2>1. IsFiniteSet(DOMAIN f) /\ \A j \in DOMAIN f : f[j] \in Int
    BY <1>1, <1>3
  <2> HIDE DEF f
  <2>2. SumOf(f) \in Int
    BY <2>1, LedgerSums, SumType
  <2> QED
    BY <2>2 DEF f
<1>4. Committed \subseteq Requests
  BY DEF Committed
<1> QED
  BY <1>2, <1>3, <1>4 DEF VisibleSum, LedgerSum

-----------------------------------------------------------------------------
(* Types of the sums and of the account rows.                              *)

DataOK ==
  /\ IsFiniteSet(Committed)
  /\ sum \in [Requests -> Int]
  /\ acct \in [Accounts -> [balance : Int, avail : Int, hold : Nat, overdraft : Nat]]
  /\ wip \in [Accounts -> [balance : Int, avail : Int, hold : Nat, overdraft : Nat]]
  /\ \A a \in Accounts : owner[a] \in Open \cup {NoJournal}

(* The triggers leave numbers in the columns.                              *)
LEMMA ColumnsTyped ==
  ASSUME NEW x \in [balance : Int, avail : Int, hold : Nat, overdraft : Nat]
  PROVE  /\ \A n \in Int : AfterLedgerEntry(x, n) \in [balance : Int, avail : Int, hold : Nat, overdraft : Nat]
         /\ \A h \in Nat : AfterHoldUpdate(x, h) \in [balance : Int, avail : Int, hold : Nat, overdraft : Nat]
BY DEF AfterLedgerEntry, AfterHoldUpdate

(* A rollback gives the account rows back and leaves its transaction.      *)
LEMMA RollbackData ==
  ASSUME IInv, DataOK, NEW r \in Requests, NEW o, Rollback(r, o)
  PROVE  DataOK'
<1> USE DEF IInv
<1>1. Committed' = Committed /\ Open' = Open \ {r}
  BY DEF ControlOK, Committed, Open, Rollback, Reply, InTransaction
<1>2. \A a \in Accounts : owner'[a] \in Open' \cup {NoJournal}
  BY <1>1 DEF DataOK, Rollback
<1>3. wip' \in [Accounts -> [balance : Int, avail : Int, hold : Nat, overdraft : Nat]]
  BY DEF DataOK, Rollback
<1> QED
  BY <1>1, <1>2, <1>3 DEF DataOK, Rollback

(* The data stay typed whatever a request does.                            *)
LEMMA DataStep == IInv /\ DataOK /\ [Next]_vars => DataOK'
<1> SUFFICES ASSUME IInv, DataOK, [Next]_vars PROVE DataOK'
  OBVIOUS
<1> USE DEF IInv
<1>1. ASSUME NEW r \in Requests, NEW legs, NEW key, Post(r, legs, key) PROVE DataOK'
  <2>1. Committed' = Committed /\ Open' = Open
    BY <1>1 DEF Post, ControlOK, Committed, Open, InTransaction, Reply
  <2> QED
    BY <1>1, <2>1 DEF DataOK, Post
<1>2. ASSUME NEW r \in Requests, NEW j, ReadOriginal(r, j) PROVE DataOK'
  <2>1. Committed' = Committed /\ Open' = Open
    BY <1>2 DEF ReadOriginal, ControlOK, Committed, Open, InTransaction, Reply
  <2> QED
    BY <1>2, <2>1 DEF DataOK, ReadOriginal
<1>3. ASSUME NEW r \in Requests, InsertJournal(r) PROVE DataOK'
  <2>1. CASE Rollback(r, "DuplicateKey")
    BY <2>1, RollbackData
  <2>2. CASE ~ Rollback(r, "DuplicateKey")
    <3>1. Committed' = Committed /\ Open \subseteq Open'
      BY <1>3, <2>2 DEF InsertJournal, ControlOK, Committed, Open, InTransaction
    <3> QED
      BY <1>3, <2>2, <3>1 DEF DataOK, InsertJournal
  <2> QED
    BY <2>1, <2>2
<1>4. ASSUME NEW r \in Requests, MarkReversed(r) PROVE DataOK'
  <2>1. Committed' = Committed /\ Open \subseteq Open'
    BY <1>4 DEF MarkReversed, ControlOK, Committed, Open, InTransaction
  <2> QED
    BY <1>4, <2>1 DEF DataOK, MarkReversed
<1>5. ASSUME NEW r \in Requests, TriggerSum(r) PROVE DataOK'
  <2>1. Committed' = Committed /\ Open' = Open
    BY <1>5 DEF TriggerSum, ControlOK, Committed, Open, InTransaction
  <2>2. VisibleSum(r, NextLeg(r).account) \in Int
    BY VisibleSumType DEF DataOK
  <2> QED
    BY <1>5, <2>1, <2>2 DEF DataOK, TriggerSum
<1>6. ASSUME NEW r \in Requests, TriggerApply(r) PROVE DataOK'
  <2>1. CASE Rollback(r, "CheckViolation")
    BY <2>1, RollbackData
  <2>2. CASE ~ Rollback(r, "CheckViolation")
    <3> DEFINE x == NextLeg(r).account
    <3>1. Committed' = Committed /\ Open' = Open /\ r \in Open'
      BY <1>6, <2>2 DEF TriggerApply, ControlOK, Committed, Open, InTransaction
    <3>2. acct' = acct /\ sum' = sum
      BY <1>6, <2>2 DEF TriggerApply
    <3>3. UNCHANGED <<owner, wip>> \/ /\ x \in Accounts
                                      /\ owner' = [owner EXCEPT ![x] = r]
                                      /\ wip' = [wip EXCEPT ![x] = AfterLedgerEntry(wip[x], sum[r])]
      BY <1>6, <2>2 DEF TriggerApply
    <3>4. x \in Accounts => AfterLedgerEntry(wip[x], sum[r]) \in
                              [balance : Int, avail : Int, hold : Nat, overdraft : Nat]
      BY ColumnsTyped DEF DataOK
    <3> HIDE DEF x
    <3>5. wip' \in [Accounts -> [balance : Int, avail : Int, hold : Nat, overdraft : Nat]]
      BY <3>3, <3>4 DEF DataOK
    <3>6. \A a \in Accounts : owner'[a] \in Open' \cup {NoJournal}
      BY <3>1, <3>3 DEF DataOK, ControlOK
    <3> QED
      BY <3>1, <3>2, <3>5, <3>6 DEF DataOK
  <2> QED
    BY <2>1, <2>2
<1>7. ASSUME NEW r \in Requests, Commit(r) PROVE DataOK'
  <2>1. CASE Rollback(r, "ForeignKey")
    BY <2>1, RollbackData
  <2>2. CASE ~ Rollback(r, "ForeignKey")
    <3>1. Committed' = Committed \cup {r} /\ Open' = Open \ {r}
      <4>1. req[r].target \in Committed \cup {NoJournal} /\ pc' = [pc EXCEPT ![r] = "done"]
        BY <1>7, <2>2 DEF Commit, Reply, Purpose, Live, InTransaction
      <4>2. row' = [j \in Requests |->
                      IF j = r THEN "POSTED"
                      ELSE IF j = req[r].target THEN "REVERSED" ELSE row[j]]
        BY <1>7, <2>2 DEF Commit
      <4>3. \A j \in Requests : row'[j] # "absent" <=> row[j] # "absent" \/ j = r
        BY <4>1, <4>2, LedgerConstants DEF Committed
      <4> QED
        BY <4>1, <4>3 DEF Committed, Open, ControlOK, InTransaction
    <3>2. IsFiniteSet(Committed')
      BY <3>1, FS_AddElement DEF DataOK
    <3>3. \A a \in Accounts : owner'[a] \in Open' \cup {NoJournal}
      BY <1>7, <2>2, <3>1 DEF Commit, DataOK
    <3>4. /\ sum' = sum /\ wip' = wip
          /\ acct' \in [Accounts -> [balance : Int, avail : Int, hold : Nat, overdraft : Nat]]
      BY <1>7, <2>2 DEF Commit, DataOK
    <3> QED
      BY <3>2, <3>3, <3>4 DEF DataOK
  <2> QED
    BY <2>1, <2>2
<1>8. ASSUME NEW r \in Requests, DeadlockAbort(r) \/ LoseConnection(r) PROVE DataOK'
  BY <1>8, RollbackData DEF DeadlockAbort, LoseConnection
<1>9. ASSUME NEW a \in Accounts, NEW h \in Holds[a], UpdateHold(a, h) PROVE DataOK'
  <2>1. Committed' = Committed /\ Open' = Open /\ h \in Nat
    BY <1>9, LedgerConstants DEF UpdateHold, Committed, Open
  <2>2. /\ AfterHoldUpdate(acct[a], h) \in [balance : Int, avail : Int, hold : Nat, overdraft : Nat]
        /\ AfterHoldUpdate(wip[a], h) \in [balance : Int, avail : Int, hold : Nat, overdraft : Nat]
    BY <2>1, ColumnsTyped DEF DataOK
  <2>3. /\ acct' = [acct EXCEPT ![a] = AfterHoldUpdate(acct[a], h)]
        /\ wip' = [wip EXCEPT ![a] = AfterHoldUpdate(wip[a], h)]
        /\ UNCHANGED <<sum, owner>>
    BY <1>9 DEF UpdateHold
  <2> QED
    BY <2>1, <2>2, <2>3 DEF DataOK
<1>10. CASE UNCHANGED vars
  BY <1>10 DEF vars, DataOK, Committed, Open
<1> QED
  BY <1>1, <1>2, <1>3, <1>4, <1>5, <1>6, <1>7, <1>8, <1>9, <1>10 DEF Next, Step

(* Both invariants hold always.                                            *)
LEMMA DataInvariant == Spec => [](IInv /\ DataOK)
<1>1. Init => DataOK
  <2> SUFFICES ASSUME Init PROVE DataOK
    OBVIOUS
  <2>1. Committed = {}
    BY DEF Init, Committed
  <2>2. IsFiniteSet(Committed)
    BY <2>1, FS_EmptySet
  <2> QED
    BY <2>2, LedgerConstants DEF Init, DataOK
<1> QED
  BY <1>1, DataStep, LedgerInvariant, PTL DEF Spec

(* Whatever is posted, whatever fails: sums and account columns are        *)
(* numbers (the sum of any journals' entries is one), statuses, answers    *)
(* and locks have their types, and only an open transaction holds a lock.  *)
THEOREM TypeCorrect == Spec => []TypeOK
<1>1. IInv /\ DataOK => TypeOK
  BY DEF IInv, DataOK, TypeOK
<1> QED
  BY <1>1, DataInvariant, PTL

-----------------------------------------------------------------------------
(* The balances of a ledger that handles one request at a time.            *)

Running == {r \in Requests : pc[r] \notin {"idle", "done"}}

LegsOn(r, a) == {i \in 1..inserted[r] : req[r].legs[i].account = a}

(* The balance column of a, given the books: zero before the first entry,  *)
(* then the sum of all entries but one.                                    *)
Behind(a) ==
  \/ /\ \A j \in Committed : LegsOn(j, a) = {}
     /\ acct[a].balance = 0
  \/ \E j \in Committed : \E i \in LegsOn(j, a) :
       acct[a].balance = LedgerSum(a) - Signed(req[j].legs[i])

(* The same of the version a transaction has written, which it has exactly *)
(* of the accounts it has inserted a leg on.                               *)
Drafted(r, a) ==
  /\ owner[a] = r <=> LegsOn(r, a) # {}
  /\ owner[a] = r => \E i \in LegsOn(r, a) :
       wip[a].balance = VisibleSum(r, a) - Signed(req[r].legs[i])

SerialInv ==
  /\ \A q, r \in Running : q = r
  /\ \A r \in Requests : pc[r] = "apply" => sum[r] = VisibleSum(r, NextLeg(r).account)
  /\ \A a \in Accounts : /\ owner[a] = NoJournal => wip[a].balance = acct[a].balance
                         /\ Behind(a)
                         /\ \A r \in Open : Drafted(r, a)

(* The first n legs of a list are a list of legs.                          *)
LEMMA PrefixTyped ==
  ASSUME NEW legs \in Seq(Leg), NEW n \in Nat, n <= Len(legs)
  PROVE  /\ [i \in 1..n |-> legs[i]] \in Seq(Leg)
         /\ Len([i \in 1..n |-> legs[i]]) = n
<1>1. [i \in 1..n |-> legs[i]] = SubSeq(legs, 1, n)
  OBVIOUS
<1> QED
  BY <1>1

(* Journals that keep their entries keep an account one entry behind.      *)
LEMMA StaysBehind ==
  ASSUME Committed' = Committed,
         \A j \in Committed : req'[j] = req[j] /\ inserted'[j] = inserted[j],
         NEW a, acct'[a].balance = acct[a].balance, Behind(a)
  PROVE  Behind(a)'
<1>1. \A j \in Committed : Entries(j)' = Entries(j) /\ LegsOn(j, a)' = LegsOn(j, a)
  BY DEF Entries, LegsOn
<1>2. LedgerSum(a)' = LedgerSum(a)
  BY <1>1 DEF LedgerSum
<1> QED
  BY <1>1, <1>2 DEF Behind

(* A call is let in only while no other is in progress.                    *)
LEMMA OneAtATime ==
  ASSUME MaxConcurrent = 1, SerialInv,
         Cardinality({q \in Requests : pc[q] \notin {"idle", "done"}}) < MaxConcurrent
  PROVE  Running = {}
<1> SUFFICES ASSUME NEW r \in Running PROVE FALSE
  OBVIOUS
<1>1. Running = {r}
  BY DEF SerialInv
<1>2. Cardinality(Running) = 1
  BY <1>1, FS_Singleton
<1> QED
  BY <1>2 DEF Running

(* A transaction that disappears leaves the accounts as they were.         *)
LEMMA RollbackSerial ==
  ASSUME IInv, DataOK, SerialInv, NEW r \in Running, NEW o, Rollback(r, o)
  PROVE  SerialInv'
<1> USE DEF IInv
<1>1. /\ r \in Requests /\ row[r] = "absent"
      /\ \A q \in Requests : q # r => pc[q] \in {"idle", "done"}
  BY DEF Running, SerialInv, Progress
<1>2. Committed' = Committed /\ r \notin Committed
  BY <1>1 DEF Committed, Rollback
<1>3. \A q \in Requests : pc'[q] \in {"idle", "done"}
  BY <1>1 DEF Rollback, Reply, ControlOK
<1>4. Running' = {} /\ Open' = {}
  BY <1>3 DEF Running, Open, InTransaction
<1>5. ASSUME NEW a \in Accounts
      PROVE  /\ owner'[a] = NoJournal => wip'[a].balance = acct'[a].balance
             /\ Behind(a)'
  <2>1. Behind(a)'
    BY <1>2, StaysBehind DEF Rollback, SerialInv, ControlOK, Committed
  <2>2. owner'[a] = NoJournal => wip'[a].balance = acct'[a].balance
    BY DEF Rollback, SerialInv
  <2> QED
    BY <2>1, <2>2
<1> QED
  BY <1>3, <1>4, <1>5 DEF SerialInv

(* A request that starts finds no transaction and no lock.                 *)
LEMMA StartSerial ==
  ASSUME IInv, DataOK, SerialInv, Running = {}, NEW r \in Requests,
         pc[r] = "idle", pc' = [pc EXCEPT ![r] = pc'[r]],
         pc'[r] \in {"insertJournal", "markReversed", "done"},
         req' = [req EXCEPT ![r] = req'[r]],
         UNCHANGED <<row, inserted, sum, acct, owner, wip>>
  PROVE  SerialInv'
<1> USE DEF IInv
<1>1. Committed' = Committed /\ r \notin Committed
  BY DEF Committed, Progress
<1>2. \A q \in Requests : pc'[q] \notin InTransaction /\ (q # r => pc'[q] \in {"idle", "done"})
  BY DEF Running, InTransaction, ControlOK
<1>3. Open' = {} /\ \A q \in Running' : q = r
  BY <1>2 DEF Open, Running
<1>4. \A a \in Accounts : Behind(a)'
  BY <1>1, StaysBehind DEF SerialInv, ControlOK, Committed
<1> QED
  BY <1>2, <1>3, <1>4 DEF SerialInv, InTransaction

(* BEGIN: nothing is inserted and nothing locked yet.                      *)
LEMMA BeginSerial ==
  ASSUME IInv, DataOK, SerialInv, NEW r \in Requests,
         pc[r] \in {"insertJournal", "markReversed"}, pc' = [pc EXCEPT ![r] = "sum"],
         UNCHANGED <<req, row, inserted, sum, acct, owner, wip, answer>>
  PROVE  SerialInv'
<1> USE DEF IInv
<1>1. Running' = Running /\ r \in Running /\ r \notin Open /\ inserted[r] = 0
  BY DEF Running, Open, InTransaction, ControlOK, Progress
<1>2. \A q \in Requests : q # r => pc[q] \in {"idle", "done"}
  BY <1>1 DEF Running, SerialInv
<1>3. Open' = {r} /\ \A q \in Requests : pc'[q] # "apply"
  BY <1>2 DEF Open, InTransaction, ControlOK
<1>4. Committed' = Committed
  BY DEF Committed
<1>5. \A a \in Accounts : Behind(a)'
  BY <1>4, StaysBehind DEF SerialInv
<1>6. ASSUME NEW a \in Accounts PROVE Drafted(r, a)'
  <2>1. owner[a] # r
    BY <1>1, LedgerConstants DEF DataOK
  <2>2. LegsOn(r, a)' = {}
    BY <1>1 DEF LegsOn
  <2> QED
    BY <2>1, <2>2 DEF Drafted
<1> QED
  BY <1>1, <1>3, <1>5, <1>6 DEF SerialInv

(* The trigger's sum is the sum that is visible until the row is there.    *)
LEMMA SumSerial ==
  ASSUME IInv, DataOK, SerialInv, NEW r \in Requests, TriggerSum(r)
  PROVE  SerialInv'
<1> USE DEF IInv
<1>0. /\ pc[r] = "sum" /\ pc' = [pc EXCEPT ![r] = "apply"]
      /\ sum' = [sum EXCEPT ![r] = VisibleSum(r, NextLeg(r).account)]
      /\ UNCHANGED <<req, row, inserted, acct, owner, wip, answer>>
  BY DEF TriggerSum
<1>1. Running' = Running /\ Open' = Open /\ Committed' = Committed /\ r \in Running
  BY <1>0 DEF Running, Open, InTransaction, ControlOK, Committed
<1>2. \A q \in Requests : q # r => pc'[q] # "apply"
  BY <1>0, <1>1 DEF Running, SerialInv
<1>3. \A q \in Requests : Entries(q)' = Entries(q) /\ NextLeg(q)' = NextLeg(q)
  BY <1>0 DEF Entries, NextLeg
<1>4. \A q \in Requests : \A a : VisibleSum(q, a)' = VisibleSum(q, a) /\ LegsOn(q, a)' = LegsOn(q, a)
  BY <1>0, <1>1, <1>3 DEF VisibleSum, LegsOn, Committed
<1>5. sum'[r] = VisibleSum(r, NextLeg(r).account)
  BY <1>0 DEF DataOK
<1>6. \A a \in Accounts : Behind(a)'
  BY <1>0, <1>1, StaysBehind DEF SerialInv
<1>7. \A a \in Accounts : \A q \in Open : Drafted(q, a)'
  BY <1>0, <1>4 DEF SerialInv, Drafted, Open
<1> QED
  BY <1>0, <1>1, <1>2, <1>3, <1>4, <1>5, <1>6, <1>7 DEF SerialInv

(* Inserting the leg leaves its account one leg behind, this one.          *)
LEMMA ApplySerial ==
  ASSUME IInv, DataOK, SerialInv, NEW r \in Requests, TriggerApply(r)
  PROVE  SerialInv'
<1> USE DEF IInv
<1>0. r \in Running /\ pc[r] = "apply"
  BY DEF TriggerApply, Running
<1>1. CASE Rollback(r, "CheckViolation")
  BY <1>0, <1>1, RollbackSerial
<1>2. CASE ~ Rollback(r, "CheckViolation")
  <2> DEFINE n == inserted[r] + 1
             leg == NextLeg(r)
             x == leg.account
  <2>1. /\ inserted' = [inserted EXCEPT ![r] = n]
        /\ pc' = [pc EXCEPT ![r] = IF n = Len(req[r].legs) THEN "commit" ELSE "sum"]
        /\ UNCHANGED <<req, row, sum, acct, answer>>
        /\ IF x \in Accounts
           THEN /\ owner' = [owner EXCEPT ![x] = r]
                /\ wip' = [wip EXCEPT ![x] = AfterLedgerEntry(wip[x], sum[r])]
           ELSE UNCHANGED <<owner, wip>>
    BY <1>2 DEF TriggerApply
  <2>2. /\ inserted[r] \in Nat /\ n \in Nat /\ n <= Len(req[r].legs) /\ req[r].legs \in Seq(Leg)
        /\ leg = req[r].legs[n]
    BY <1>0 DEF ControlOK, Progress, NextLeg
  <2>9. Signed(leg) \in Int
    <3>1. leg \in Leg
      BY <2>2
    <3> HIDE DEF leg
    <3> QED
      BY <3>1 DEF Leg, Signed
  <2>3. /\ Running' = Running /\ Open' = Open /\ Committed' = Committed
        /\ r \in Open /\ r \notin Committed
    BY <1>0, <2>1 DEF Running, Open, InTransaction, ControlOK, Committed, Progress
  <2>4. /\ \A q \in Requests : pc'[q] # "apply"
        /\ \A q \in Open : q = r
    BY <1>0, <2>1 DEF Running, SerialInv, ControlOK, Open, InTransaction
  <2>5. \A a \in Accounts : Behind(a)'
    BY <2>1, <2>3, StaysBehind DEF SerialInv, ControlOK, Committed
  <2>6. ASSUME NEW a
        PROVE  VisibleSum(r, a)' = VisibleSum(r, a) + (IF x = a THEN Signed(leg) ELSE 0)
    <3> DEFINE f == [j \in Committed \cup {r} |-> Effect(Entries(j), a)]
               g == [j \in Committed \cup {r} |-> Effect(Entries(j)', a)]
               d == IF x = a THEN Signed(leg) ELSE 0
    <3>1. /\ Entries(r) = [i \in 1..inserted[r] |-> req[r].legs[i]]
          /\ Entries(r)' = [i \in 1..n |-> req[r].legs[i]]
      BY <2>1 DEF Entries, ControlOK
    <3>2. /\ Entries(r) \in Seq(Leg) /\ Len(Entries(r)) = inserted[r]
          /\ Entries(r)' \in Seq(Leg) /\ Len(Entries(r)') = n
      <4>1. inserted[r] <= Len(req[r].legs)
        BY <2>2
      <4> HIDE DEF n
      <4> QED
        BY <2>2, <3>1, <4>1, PrefixTyped
    <3>3. Effect(Entries(r)', a) = Effect(Entries(r), a) + d
      <4>1. \A i \in 1..Len(Entries(r)) : Entries(r)'[i] = Entries(r)[i]
        BY <2>2, <3>1, <3>2
      <4>2. Entries(r)'[n] = leg
        BY <2>2, <3>1
      <4> QED
        BY <3>2, <4>1, <4>2, EffectOfOneMore
    <3>4. /\ Effect(Entries(r)', a) \in Int /\ \A j \in Requests : Effect(Entries(j), a) \in Int
          /\ d \in Int
      <4>1. \A j \in Requests : Effect(Entries(j), a) \in Int
        BY EntriesTyped, EffectType
      <4>2. Effect(Entries(r)', a) \in Int
        BY <3>2, EffectType
      <4> QED
        BY <2>9, <4>1, <4>2
    <3>5. \A j \in Committed : Entries(j)' = Entries(j)
      BY <2>1, <2>3 DEF Entries, ControlOK, Committed
    <3>6. IsFiniteSet(Committed \cup {r})
      BY VisibleSumType DEF DataOK
    <3>7. VisibleSum(r, a) = SumOf(f) /\ VisibleSum(r, a)' = SumOf(g)
      BY <2>3 DEF VisibleSum
    <3>8. /\ IsFiniteSet(DOMAIN f) /\ DOMAIN g = DOMAIN f /\ r \in DOMAIN f
          /\ \A j \in DOMAIN f : f[j] \in Int
          /\ g[r] \in Int /\ g[r] = f[r] + d /\ f[r] \in Int
          /\ \A j \in DOMAIN f : j # r => g[j] = f[j]
      BY <3>3, <3>4, <3>5, <3>6 DEF Committed
    <3> HIDE DEF f, g, d
    <3>9. IntegerSum(g) = IntegerSum(f) - f[r] + g[r] /\ IntegerSum(f) \in Int
      BY <3>8, SumChange, SumType
    <3>10. SumOf(g) = SumOf(f) + d
      BY <3>4, <3>8, <3>9, LedgerSums
    <3> QED
      BY <3>7, <3>10 DEF d
  <2>7. ASSUME NEW a \in Accounts PROVE Drafted(r, a)'
    <3>1. CASE a = x
      <4>1. owner'[a] = r /\ wip'[a].balance = sum[r]
        BY <2>1, <3>1 DEF ControlOK, DataOK, AfterLedgerEntry
      <4>2. n \in LegsOn(r, a)'
        BY <2>1, <2>2, <3>1 DEF LegsOn, ControlOK
      <4>3. sum[r] = VisibleSum(r, a)
        BY <1>0, <3>1 DEF SerialInv
      <4>4. Signed(leg) \in Int /\ VisibleSum(r, a) \in Int
        BY <2>9, VisibleSumType DEF DataOK
      <4>5. wip'[a].balance = VisibleSum(r, a)' - Signed(leg)
        BY <2>6, <3>1, <4>1, <4>3, <4>4
      <4>6. req'[r].legs[n] = leg
        BY <2>1, <2>2
      <4> QED
        BY <4>1, <4>2, <4>5, <4>6 DEF Drafted
    <3>2. CASE a # x
      <4>1. owner'[a] = owner[a] /\ wip'[a] = wip[a]
        BY <2>1, <3>2 DEF ControlOK, DataOK
      <4>2. LegsOn(r, a)' = LegsOn(r, a)
        BY <2>1, <2>2, <3>2 DEF LegsOn, ControlOK
      <4>3. VisibleSum(r, a) \in Int
        BY VisibleSumType DEF DataOK
      <4>4. VisibleSum(r, a)' = VisibleSum(r, a)
        BY <2>6, <3>2, <4>3
      <4>5. Drafted(r, a)
        BY <2>3 DEF SerialInv
      <4> QED
        BY <2>1, <4>1, <4>2, <4>4, <4>5 DEF Drafted
    <3> QED
      BY <3>1, <3>2
  <2>8. ASSUME NEW a \in Accounts, owner'[a] = NoJournal
        PROVE  wip'[a].balance = acct'[a].balance
    <3>1. a = x => owner'[a] = r
      BY <2>1 DEF ControlOK
    <3>2. a # x
      BY <2>8, <3>1, LedgerConstants
    <3>3. owner'[a] = owner[a] /\ wip'[a] = wip[a]
      BY <2>1, <3>2 DEF ControlOK, DataOK
    <3> QED
      BY <2>1, <2>8, <3>3 DEF SerialInv
  <2> HIDE DEF n, leg, x
  <2> QED
    BY <2>3, <2>4, <2>5, <2>7, <2>8 DEF SerialInv
<1> QED
  BY <1>1, <1>2

(* What a commit publishes is one entry behind the books it publishes.     *)
LEMMA CommitSerial ==
  ASSUME IInv, DataOK, SerialInv, NEW r \in Requests, Commit(r)
  PROVE  SerialInv'
<1> USE DEF IInv
<1>0. r \in Running /\ pc[r] = "commit"
  BY DEF Commit, Running
<1>1. CASE Rollback(r, "ForeignKey")
  BY <1>0, <1>1, RollbackSerial
<1>2. CASE ~ Rollback(r, "ForeignKey")
  <2>1. /\ pc' = [pc EXCEPT ![r] = "done"]
        /\ row' = [j \in Requests |->
                     IF j = r THEN "POSTED"
                     ELSE IF j = req[r].target THEN "REVERSED" ELSE row[j]]
        /\ acct' = [a \in Accounts |-> IF owner[a] = r THEN wip[a] ELSE acct[a]]
        /\ owner' = [a \in Accounts |-> IF owner[a] = r THEN NoJournal ELSE owner[a]]
        /\ UNCHANGED <<req, inserted, sum, wip>>
    BY <1>2 DEF Commit, Reply
  <2>2. \A q \in Requests : pc'[q] \in {"idle", "done"}
    BY <1>0, <2>1 DEF Running, SerialInv, ControlOK
  <2>3. Running' = {} /\ Open' = {} /\ r \in Open /\ r \notin Committed
    BY <1>0, <2>2 DEF Running, Open, InTransaction, Committed, Progress
  <2>4. Committed' = Committed \cup {r}
    <3>1. req[r].target \in Committed \cup {NoJournal}
      BY <1>0 DEF Purpose, Live, InTransaction
    <3>2. \A j \in Requests : row'[j] # "absent" <=> row[j] # "absent" \/ j = r
      BY <2>1, <3>1, LedgerConstants DEF Committed
    <3> QED
      BY <3>2 DEF Committed
  <2>5. \A j \in Requests : Entries(j)' = Entries(j) /\ \A a : LegsOn(j, a)' = LegsOn(j, a)
    BY <2>1 DEF Entries, LegsOn
  <2>6. \A a : LedgerSum(a)' = VisibleSum(r, a)
    BY <2>4, <2>5 DEF LedgerSum, VisibleSum, Committed
  <2>7. ASSUME NEW a \in Accounts PROVE Behind(a)'
    <3>1. CASE owner[a] = r
      <4>1. PICK i \in LegsOn(r, a) : wip[a].balance = VisibleSum(r, a) - Signed(req[r].legs[i])
        BY <2>3, <3>1 DEF SerialInv, Drafted
      <4>2. acct'[a].balance = wip[a].balance
        BY <2>1, <3>1
      <4>3. i \in LegsOn(r, a)' /\ r \in Committed'
        BY <2>4, <2>5
      <4> QED
        BY <2>1, <2>6, <4>1, <4>2, <4>3 DEF Behind
    <3>2. CASE owner[a] # r
      <4>1. LegsOn(r, a) = {} /\ acct'[a] = acct[a]
        BY <2>1, <2>3, <3>2 DEF SerialInv, Drafted
      <4>2. VisibleSum(r, a) = LedgerSum(a)
        <5> DEFINE f == [j \in Committed \cup {r} |-> Effect(Entries(j), a)]
                   g == [j \in Committed |-> Effect(Entries(j), a)]
        <5>1. \A j \in Requests : Effect(Entries(j), a) \in Int
          BY EntriesTyped, EffectType
        <5>2. Effect(Entries(r), a) = 0
          <6>1. Entries(r) \in Seq(Leg)
            BY EntriesTyped
          <6>2. \A i \in DOMAIN Entries(r) : Entries(r)[i].account # a
            BY <4>1 DEF Entries, LegsOn
          <6> QED
            BY <6>1, <6>2, EffectType
        <5>3. /\ IsFiniteSet(DOMAIN f) /\ r \in DOMAIN f /\ DOMAIN g = DOMAIN f \ {r}
              /\ \A j \in DOMAIN f : f[j] \in Int
              /\ \A j \in DOMAIN g : g[j] = f[j]
              /\ f[r] = 0
          BY <2>3, <5>1, <5>2, VisibleSumType DEF DataOK, Committed
        <5> HIDE DEF f, g
        <5>4. IntegerSum(f) = f[r] + IntegerSum(g) /\ IntegerSum(f) \in Int
          BY <5>3, SumWithout, SumType
        <5>6. IntegerSum(g) \in Int
          <6>1. IsFiniteSet(DOMAIN g) /\ \A j \in DOMAIN g : g[j] \in Int
            BY <5>3, FS_Subset
          <6> QED
            BY <6>1, SumType
        <5>5. SumOf(f) = SumOf(g)
          BY <5>3, <5>4, <5>6, LedgerSums
        <5> QED
          BY <5>5 DEF f, g, VisibleSum, LedgerSum
      <4>3. Behind(a)
        BY DEF SerialInv
      <4> QED
        BY <2>1, <2>4, <2>5, <2>6, <4>1, <4>2, <4>3 DEF Behind, Committed
    <3> QED
      BY <3>1, <3>2
  <2>8. ASSUME NEW a \in Accounts, owner'[a] = NoJournal
        PROVE  wip'[a].balance = acct'[a].balance
    BY <2>1, <2>8 DEF SerialInv
  <2> QED
    BY <2>2, <2>3, <2>7, <2>8 DEF SerialInv
<1> QED
  BY <1>1, <1>2

(* Another service's hold leaves the balance column alone.                 *)
LEMMA HoldSerial ==
  ASSUME IInv, DataOK, SerialInv, NEW b \in Accounts, NEW h, UpdateHold(b, h)
  PROVE  SerialInv'
<1> USE DEF IInv
<1>0. /\ acct' = [acct EXCEPT ![b] = AfterHoldUpdate(acct[b], h)]
      /\ wip' = [wip EXCEPT ![b] = AfterHoldUpdate(wip[b], h)]
      /\ UNCHANGED <<pc, req, row, inserted, sum, owner, answer>>
  BY DEF UpdateHold
<1>1. \A a \in Accounts : acct'[a].balance = acct[a].balance /\ wip'[a].balance = wip[a].balance
  BY <1>0 DEF AfterHoldUpdate, DataOK
<1>2. Running' = Running /\ Open' = Open /\ Committed' = Committed
  BY <1>0 DEF Running, Open, Committed
<1>3. \A q \in Requests : Entries(q)' = Entries(q) /\ NextLeg(q)' = NextLeg(q)
  BY <1>0 DEF Entries, NextLeg
<1>4. \A q \in Requests : \A a : VisibleSum(q, a)' = VisibleSum(q, a) /\ LegsOn(q, a)' = LegsOn(q, a)
  BY <1>0, <1>2, <1>3 DEF VisibleSum, LegsOn, Committed
<1>5. \A a \in Accounts : Behind(a)'
  BY <1>0, <1>1, <1>2, StaysBehind DEF SerialInv
<1>6. \A a \in Accounts : \A q \in Open : Drafted(q, a)'
  BY <1>0, <1>1, <1>4 DEF SerialInv, Drafted, Open
<1> QED
  BY <1>0, <1>1, <1>2, <1>3, <1>4, <1>5, <1>6 DEF SerialInv

(* With one transaction at a time, every step keeps the entries one behind *)
(* the balances.                                                           *)
LEMMA SerialStep ==
  ASSUME MaxConcurrent = 1, IInv, DataOK, SerialInv, [Next]_vars
  PROVE  SerialInv'
<1> USE DEF IInv
<1>1. ASSUME NEW r \in Requests, NEW legs, NEW key, Post(r, legs, key) PROVE SerialInv'
  <2>1. Running = {}
    BY <1>1, OneAtATime DEF Post
  <2>2. /\ pc[r] = "idle" /\ pc' = [pc EXCEPT ![r] = pc'[r]]
        /\ pc'[r] \in {"insertJournal", "markReversed", "done"}
        /\ req' = [req EXCEPT ![r] = req'[r]]
        /\ UNCHANGED <<row, inserted, sum, acct, owner, wip>>
    BY <1>1 DEF Post, Reply, ControlOK
  <2> QED
    BY <2>1, <2>2, StartSerial
<1>2. ASSUME NEW r \in Requests, NEW j, ReadOriginal(r, j) PROVE SerialInv'
  <2>1. Running = {}
    BY <1>2, OneAtATime DEF ReadOriginal
  <2>2. /\ pc[r] = "idle" /\ pc' = [pc EXCEPT ![r] = pc'[r]]
        /\ pc'[r] \in {"insertJournal", "markReversed", "done"}
        /\ req' = [req EXCEPT ![r] = req'[r]]
        /\ UNCHANGED <<row, inserted, sum, acct, owner, wip>>
    BY <1>2 DEF ReadOriginal, Reply, ControlOK
  <2> QED
    BY <2>1, <2>2, StartSerial
<1>3. ASSUME NEW r \in Requests, InsertJournal(r) PROVE SerialInv'
  <2>1. r \in Running
    BY <1>3 DEF InsertJournal, Running
  <2> QED
    BY <1>3, <2>1, RollbackSerial, BeginSerial DEF InsertJournal
<1>4. ASSUME NEW r \in Requests, MarkReversed(r) PROVE SerialInv'
  BY <1>4, BeginSerial DEF MarkReversed
<1>5. ASSUME NEW r \in Requests, DeadlockAbort(r) \/ LoseConnection(r) PROVE SerialInv'
  <2>1. r \in Running
    BY <1>5 DEF DeadlockAbort, Deadlocked, BlockedBy, LoseConnection, Running
  <2> QED
    BY <1>5, <2>1, RollbackSerial DEF DeadlockAbort, LoseConnection
<1>6. CASE UNCHANGED vars
  <2>1. /\ Running' = Running /\ Open' = Open
        /\ \A q : NextLeg(q)' = NextLeg(q) /\ \A a : /\ VisibleSum(q, a)' = VisibleSum(q, a)
                                                     /\ LegsOn(q, a)' = LegsOn(q, a)
        /\ \A a : Behind(a)' = Behind(a)
    BY <1>6 DEF vars, Running, Open, Committed, Entries, NextLeg, VisibleSum, LedgerSum, LegsOn, Behind
  <2> QED
    BY <1>6, <2>1 DEF vars, SerialInv, Drafted
<1> QED
  BY <1>1, <1>2, <1>3, <1>4, <1>5, <1>6, SumSerial, ApplySerial, CommitSerial, HoldSerial
     DEF Next, Step

(* As long as requests follow each other, every account row holds the sum  *)
(* of all entries of its account but one, whatever is posted, reversed,    *)
(* refused, held or lost: the trigger runs before the row it fires for     *)
(* exists, and never misses more than that.                                *)
THEOREM SerialBalances ==
  ASSUME MaxConcurrent = 1
  PROVE  Spec => []OneEntryBehind
<1>1. Init => SerialInv
  <2> SUFFICES ASSUME Init PROVE SerialInv
    OBVIOUS
  <2>1. Committed = {} /\ Open = {} /\ Running = {}
    BY DEF Init, Committed, Open, Running, InTransaction
  <2>2. \A a \in Accounts : Behind(a)
    BY <2>1 DEF Init, Behind
  <2> QED
    BY <2>1, <2>2 DEF Init, SerialInv
<1>2. IInv /\ DataOK /\ SerialInv /\ [Next]_vars => SerialInv'
  BY SerialStep
<1>3. SerialInv => OneEntryBehind
  <2> SUFFICES ASSUME SerialInv, NEW a \in Accounts
               PROVE  LET mine == {e \in UNION {{<<j, i>> : i \in 1..inserted[j]} : j \in Committed} :
                                     req[e[1]].legs[e[2]].account = a}
                      IN IF mine = {} THEN acct[a].balance = 0
                         ELSE \E e \in mine :
                                acct[a].balance = LedgerSum(a) - Signed(req[e[1]].legs[e[2]])
    BY DEF OneEntryBehind
  <2> DEFINE mine == {e \in UNION {{<<j, i>> : i \in 1..inserted[j]} : j \in Committed} :
                        req[e[1]].legs[e[2]].account = a}
  <2>1. \A e : e \in mine <=> \E j \in Committed : \E i \in LegsOn(j, a) : e = <<j, i>>
    BY DEF LegsOn
  <2>2. Behind(a)
    BY DEF SerialInv
  <2> HIDE DEF mine
  <2>3. CASE \A j \in Committed : LegsOn(j, a) = {}
    BY <2>1, <2>2, <2>3 DEF mine, Behind
  <2>4. CASE \E j \in Committed : LegsOn(j, a) # {}
    <3>0. PICK j \in Committed : \E i \in LegsOn(j, a) :
            acct[a].balance = LedgerSum(a) - Signed(req[j].legs[i])
      BY <2>2, <2>4 DEF Behind
    <3>1. PICK i \in LegsOn(j, a) : acct[a].balance = LedgerSum(a) - Signed(req[j].legs[i])
      BY <3>0
    <3>2. <<j, i>> \in mine
      BY <2>1, <3>1
    <3>3. <<j, i>>[1] = j /\ <<j, i>>[2] = i
      OBVIOUS
    <3>4. mine # {} /\ \E e \in mine : acct[a].balance = LedgerSum(a) - Signed(req[e[1]].legs[e[2]])
      BY <3>1, <3>2, <3>3
    <3> QED
      BY <3>4 DEF mine
  <2> QED
    BY <2>3, <2>4
<1> QED
  BY <1>1, <1>2, <1>3, DataInvariant, PTL DEF Spec

=============================================================================
