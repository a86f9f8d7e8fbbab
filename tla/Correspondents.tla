--------------------------- MODULE Correspondents ---------------------------
(***************************************************************************)
(* Two services of the treasury, in memory, one call at a time.            *)
(* CorrespondentService: one correspondent bank with its KYC status,       *)
(* credit limit and exposure, and the SWIFT messages sent to it.  Below    *)
(* it NostroService: the statement entries of one account with that bank.  *)
(***************************************************************************)
EXTENDS Integers, Sequences, SequencesExt, FiniteSets, FiniteSetsExt, Functions

CONSTANTS
  Messages, MessageAmounts,
  CreditLimits   \* 0 stands for no limit

ASSUME CorrespondentConstants ==
  IsFiniteSet(Messages) /\ MessageAmounts \subseteq Nat \ {0} /\ CreditLimits \subseteq Nat

VARIABLES
  bank,      \* [status, kyc, limit, exposure]
  swift,     \* messages by id: [status, amount, direction, sent]
  crowded    \* history: an outbound message was created while another one was
             \* waiting, or the limit was changed

correspondentVars == <<bank, swift, crowded>>

KycStatuses == {"APPROVED", "UNDER_REVIEW", "EXPIRED", "REJECTED"}

CorrespondentInit ==
  /\ bank = [status |-> "none", kyc |-> "UNDER_REVIEW", limit |-> 0, exposure |-> 0]
  /\ swift = [m \in Messages |-> [status |-> "none"]]
  /\ crowded = FALSE

-----------------------------------------------------------------------------
(* addCorrespondent asks for an approved KYC; the status it stores is that *)
(* of the request, here ACTIVE.                                            *)
AddCorrespondent(n) ==
  /\ bank.status = "none"
  /\ bank' = [status |-> "ACTIVE", kyc |-> "APPROVED", limit |-> n, exposure |-> 0]
  /\ UNCHANGED <<swift, crowded>>

(* A review leaves the status as it is.                                    *)
UpdateKycStatus(k) ==
  /\ bank.status # "none"
  /\ bank' = [bank EXCEPT !.kyc = k,
                !.status = IF k \in {"REJECTED", "EXPIRED"} THEN "RESTRICTED"
                           ELSE IF k = "APPROVED" THEN "ACTIVE" ELSE @]
  /\ UNCHANGED <<swift, crowded>>

UpdateCreditLimit(n) ==
  /\ bank.status # "none" /\ n # bank.limit
  /\ bank' = [bank EXCEPT !.limit = n]
  /\ crowded' = TRUE
  /\ UNCHANGED swift

Waiting == {m \in Messages : swift[m].status = "QUEUED" /\ swift[m].direction = "OUTBOUND"}

FitsLimit(a) == bank.limit = 0 \/ bank.exposure + a <= bank.limit

(* The limit is checked against what has been SENT so far: messages still  *)
(* waiting do not count.                                                   *)
CreateMessage(m, a, direction) ==
  /\ swift[m].status = "none"
  /\ bank.status = "ACTIVE" /\ bank.kyc = "APPROVED"
  /\ direction = "OUTBOUND" => FitsLimit(a)
  /\ swift' = [swift EXCEPT ![m] = [status |-> "QUEUED", amount |-> a, direction |-> direction,
                                    sent |-> FALSE]]
  /\ crowded' = (crowded \/ (direction = "OUTBOUND" /\ Waiting # {}))
  /\ UNCHANGED bank

Exposed(message) == IF message.direction = "OUTBOUND" THEN message.amount ELSE 0

(* Mutant: a message that was acknowledged can be sent once more.          *)
SendAgain(m) ==
  /\ swift[m].status \in {"QUEUED", "ACKNOWLEDGED"}
  /\ swift' = [swift EXCEPT ![m].status = "SENT", ![m].sent = TRUE]
  /\ bank' = [bank EXCEPT !.exposure = @ + Exposed(swift[m])]
  /\ UNCHANGED crowded

(* Neither the limit nor the status of the bank is looked at again.        *)
SendMessage(m) ==
  /\ swift[m].status = "QUEUED"
  /\ swift' = [swift EXCEPT ![m].status = "SENT", ![m].sent = TRUE]
  /\ bank' = [bank EXCEPT !.exposure = @ + Exposed(swift[m])]
  /\ UNCHANGED crowded

(* Whatever the status; the exposure is not given back.                    *)
AcknowledgeMessage(m) ==
  /\ swift[m].status # "none"
  /\ swift' = [swift EXCEPT ![m].status = "ACKNOWLEDGED"]
  /\ UNCHANGED <<bank, crowded>>

CorrespondentNext ==
  \/ \E k \in KycStatuses : UpdateKycStatus(k)
  \/ \E n \in CreditLimits : AddCorrespondent(n) \/ UpdateCreditLimit(n)
  \/ \E m \in Messages :
       \/ \E a \in MessageAmounts, d \in {"OUTBOUND", "INBOUND"} : CreateMessage(m, a, d)
       \/ SendMessage(m) \/ AcknowledgeMessage(m)

CorrespondentSpec == CorrespondentInit /\ [][CorrespondentNext]_correspondentVars

-----------------------------------------------------------------------------
(* The stores hold what their TypeScript types say.                        *)
CorrespondentTypeOK ==
  /\ bank \in [status : {"none", "ACTIVE", "RESTRICTED"}, kyc : KycStatuses, limit : Nat, exposure : Nat]
  /\ swift \in [Messages ->
       [status : {"none"}]
         \cup [status : {"QUEUED", "SENT", "ACKNOWLEDGED"}, amount : Nat,
               direction : {"OUTBOUND", "INBOUND"}, sent : BOOLEAN]]
  /\ crowded \in BOOLEAN

(* The exposure is the sum of the outbound messages that were sent, each   *)
(* counted once, whatever is acknowledged before or after.                 *)
ExposureCountsSent ==
  bank.exposure =
    FoldFunction(+, 0, [m \in Messages |->
      IF swift[m].status # "none" /\ swift[m].sent THEN Exposed(swift[m]) ELSE 0])

(* The exposure stays within the credit limit as long as one message is    *)
(* sent before the next is created: the check of createMessage and the     *)
(* update of sendMessage are two calls.                                    *)
ExposureWithinLimit ==
  ~crowded /\ bank.limit # 0 => bank.exposure <= bank.limit

(* The exposure to a correspondent is what was sent to it, and within its  *)
(* limit while messages are created and sent one at a time.                *)
ExposureSound == ExposureCountsSent /\ ExposureWithinLimit

-----------------------------------------------------------------------------
(* NostroService: the statement of one account, filled by                  *)
(* processStatementEntries, which skips entries seen before and matches    *)
(* new ones, and changed by manualMatch and disputeEntry.  An entry is     *)
(* [type, amount, our, their, status, partner], named by its position.     *)
(* The two balances of the account are figures no entry is computed from.  *)

CONSTANTS
  RawEntries,     \* lines a correspondent may send: [type, amount, our, their]
  NoReference,    \* the empty reference
  MaxBatch,       \* bound: lines of one statement
  MaxStatement    \* bound: entries of the account

ASSUME NostroConstants ==
  /\ RawEntries \subseteq [type : {"DEBIT", "CREDIT"}, amount : Nat, our : STRING, their : STRING]
  /\ MaxBatch \in Nat /\ MaxStatement \in Nat

VARIABLES
  entries,     \* the statement entries of the account
  rematched    \* history: a match was made by hand for an entry that had one

nostroVars == <<entries, rematched>>

NostroInit == entries = <<>> /\ rematched = FALSE

-----------------------------------------------------------------------------
(* Lines without a reference of ours are never recognised.                 *)
SeenBefore(st, raw) == raw.our # NoReference /\ \E i \in DOMAIN st : st[i].our = raw.our

Opposites(st, raw) ==
  {i \in DOMAIN st : /\ st[i].status = "UNMATCHED"
                     /\ st[i].type # raw.type /\ st[i].amount = raw.amount
                     /\ st[i].our = raw.their \/ st[i].their = raw.our}

Entry(raw, status, partner) ==
  [type |-> raw.type, amount |-> raw.amount, our |-> raw.our, their |-> raw.their,
   status |-> status, partner |-> partner]

(* One turn of the loop of processStatementEntries.                        *)
Entered(st, raw) ==
  IF SeenBefore(st, raw) THEN st
  ELSE IF Opposites(st, raw) = {} THEN Append(st, Entry(raw, "UNMATCHED", 0))
  ELSE LET o == Min(Opposites(st, raw)) IN
       Append([st EXCEPT ![o].status = "MATCHED", ![o].partner = Len(st) + 1],
              Entry(raw, "MATCHED", o))

ProcessStatementEntries(batch) ==
  /\ Len(entries) + Len(batch) <= MaxStatement
  /\ entries' = FoldLeft(Entered, entries, batch)
  /\ UNCHANGED rematched

(* Two entries of opposite types, whatever their status and amounts.       *)
ManualMatch(i, j) ==
  /\ entries[i].type # entries[j].type
  /\ entries' = [entries EXCEPT ![i].status = "MATCHED", ![i].partner = j,
                                ![j].status = "MATCHED", ![j].partner = i]
  /\ rematched' = (\/ rematched
                   \/ entries[i].partner \notin {0, j}
                   \/ entries[j].partner \notin {0, i})

(* The other entry of the match stays as it is.                            *)
DisputeEntry(i) ==
  /\ entries' = [entries EXCEPT ![i].status = "DISPUTED"]
  /\ UNCHANGED rematched

NostroNext ==
  \/ \E n \in 1..MaxBatch : \E batch \in [1..n -> RawEntries] : ProcessStatementEntries(batch)
  \/ \E i, j \in DOMAIN entries : ManualMatch(i, j)
  \/ \E i \in DOMAIN entries : DisputeEntry(i)

NostroSpec == NostroInit /\ [][NostroNext]_nostroVars

-----------------------------------------------------------------------------
(* The store holds what its TypeScript type says.                          *)
NostroTypeOK ==
  /\ entries \in Seq([type : {"DEBIT", "CREDIT"}, amount : Nat, our : STRING, their : STRING,
                      status : {"UNMATCHED", "MATCHED", "DISPUTED"}, partner : Nat])
  /\ rematched \in BOOLEAN

(* Matches are pairs: the partner of an entry names that entry back, is of *)
(* the other type and is itself matched or disputed, through automatic and *)
(* manual matches and disputes, until a match by hand takes an entry from  *)
(* the pair it is in (manualMatch looks at no status).                     *)
MatchedInPairs ==
  ~rematched => \A i \in DOMAIN entries :
    LET j == entries[i].partner IN
    /\ entries[i].status = "MATCHED" => j # 0
    /\ j # 0 => /\ j \in DOMAIN entries /\ entries[j].partner = i
                /\ entries[j].type # entries[i].type
                /\ entries[j].status # "UNMATCHED"

(* A statement sent again, in whole or in part, adds no entry with a       *)
(* reference that is there already.                                        *)
NoEntryTwice ==
  \A i, j \in DOMAIN entries :
    i # j /\ entries[i].our # NoReference => entries[i].our # entries[j].our

(* A nostro account is reconciled in pairs of opposite entries, whatever   *)
(* statements are sent again.                                              *)
NostroSound == MatchedInPairs /\ NoEntryTwice
=============================================================================
