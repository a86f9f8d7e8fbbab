------------------------------- MODULE Filings -------------------------------
(***************************************************************************)
(* The compliance services.  An operation finds the row, checks it, and    *)
(* updates it by id in a second statement, so two calls on one row can     *)
(* overlap.  The row is a suspicious activity report, a currency           *)
(* transaction report, an EDD questionnaire, a CDD assessment, an AML      *)
(* alert, a case or a screening result.                                   *)
(***************************************************************************)
EXTENDS Integers, FiniteSets, FiniteSetsExt

CONSTANTS
  Officers, Preparer,
  Desks,      \* calls that can run at the same time
  MaxNotes    \* bound: notes a case may get

ASSUME FilingConstants ==
  Preparer \in Officers /\ "nobody" \notin Officers /\ MaxNotes \in Nat

VARIABLES
  file,       \* the kind of row
  filing,     \* the row: [status, first, second, factors, notes]
  desk,       \* per call between its two statements: [op, officer, to, notes]
  approvers,  \* history: the officers whose approval of the report was accepted
  noted,      \* history: notes accepted
  verdict,    \* history: the first final status, "none" before it
  crossed     \* history: two calls have overlapped

filingVars == <<file, filing, desk, approvers, noted, verdict, crossed>>

Nobody == "nobody"
Away == [op |-> "away", officer |-> Preparer, to |-> "none", notes |-> 0]

(* What can raise the risk of a customer, with its weight.                 *)
Factors == {"politicallyExposed", "adverseMedia", "sourceOfFunds", "noOwners", "noWealth"}
Weight(f) ==
  CASE f = "politicallyExposed" -> 30 [] f = "adverseMedia" -> 25
    [] f = "sourceOfFunds" -> 15 [] f = "noOwners" -> 20 [] f = "noWealth" -> 10
RiskScore(factors) == MapThenSumSet(Weight, factors)

(* The ratings HIGH and VERY_HIGH.                                         *)
RequiresEdd(factors) == RiskScore(factors) >= 30

FilingInit ==
  /\ file = "none"
  /\ filing = [status |-> "none", first |-> Nobody, second |-> Nobody, factors |-> {}, notes |-> 0]
  /\ desk = [d \in Desks |-> Away]
  /\ approvers = {} /\ noted = 0 /\ verdict = "none" /\ crossed = FALSE

-----------------------------------------------------------------------------
FirstStatus ==
  [sar |-> "DRAFT", ctr |-> "PENDING", edd |-> "PENDING_CUSTOMER", cdd |-> "PENDING",
   alert |-> "OPEN", case |-> "OPEN", screening |-> "HIT"]

(* The services' create operations, one insert each.                       *)
OpenFile(kind) ==
  /\ file = "none"
  /\ file' = kind /\ filing' = [filing EXCEPT !.status = FirstStatus[kind]]
  /\ UNCHANGED <<desk, approvers, noted, verdict, crossed>>

CaseStatuses == {"OPEN", "UNDER_INVESTIGATION", "PENDING_ESCALATION", "CLOSED_NO_ACTION",
                 "CLOSED_ACTION_TAKEN", "SAR_FILED"}
AlertStatuses == {"OPEN", "UNDER_REVIEW", "ESCALATED", "CLOSED_NO_ACTION",
                  "CLOSED_SAR_FILED", "CLOSED_FALSE_POSITIVE"}
ScreeningStatuses == {"HIT", "CONFIRMED_MATCH", "FALSE_POSITIVE"}

(* An operation: the file it is for, the statuses it accepts and those it  *)
(* may set.  Alerts, cases and screening results are changed whatever      *)
(* their status is.                                                        *)
Operation(kind, op, from, to) == [file |-> kind, op |-> op, from |-> from, to |-> to]

SarOperations == {
  Operation("sar", "approveFirst", {"DRAFT", "PENDING_APPROVAL"}, {"PENDING_APPROVAL"}),
  Operation("sar", "approveSecond", {"PENDING_APPROVAL"}, {"APPROVED"}),
  Operation("sar", "file", {"APPROVED"}, {"FILED"})}

CtrOperations == {Operation("ctr", "file", {"PENDING"}, {"FILED"})}

EddOperations == {
  Operation("edd", "submitCustomerResponses", {"PENDING_CUSTOMER"}, {"PENDING_REVIEW"}),
  Operation("edd", "review", {"PENDING_REVIEW"},
            {"PENDING_MANAGER_APPROVAL", "APPROVED", "DECLINED"}),
  Operation("edd", "seniorManagerApprove", {"PENDING_MANAGER_APPROVAL"}, {"APPROVED"})}

AlertOperations == {
  Operation("alert", "assignAlert", AlertStatuses, {"UNDER_REVIEW"}),
  Operation("alert", "closeAlert", AlertStatuses,
            {"CLOSED_NO_ACTION", "CLOSED_SAR_FILED", "CLOSED_FALSE_POSITIVE"}),
  Operation("alert", "escalate", AlertStatuses, {"ESCALATED"})}

CaseOperations == {
  Operation("case", "updateStatus", CaseStatuses, CaseStatuses),
  Operation("case", "linkSar", CaseStatuses, {"SAR_FILED"})}

ScreeningOperations == {
  Operation("screening", "resolveScreening", ScreeningStatuses,
            {"CONFIRMED_MATCH", "FALSE_POSITIVE"})}

Operations == SarOperations \cup CtrOperations \cup EddOperations \cup AlertOperations
                \cup CaseOperations \cup ScreeningOperations

(* Mutant: the second approver may be the first.                           *)
MayApproveOnce(op, officer) ==
  /\ op \in {"approveFirst", "approveSecond"} => officer # Preparer
  /\ op = "approveFirst" => filing.first = Nobody
  /\ op = "approveSecond" => filing.first # Nobody

(* The dual control of SarService.                                         *)
MayApprove(op, officer) ==
  /\ op \in {"approveFirst", "approveSecond"} => officer # Preparer
  /\ op = "approveFirst" => filing.first = Nobody
  /\ op = "approveSecond" => filing.first \notin {Nobody, officer}

Call(d, op, officer, to) ==
  /\ desk[d] = Away
  /\ desk' = [desk EXCEPT ![d] = [op |-> op, officer |-> officer, to |-> to,
                                  notes |-> filing.notes]]
  /\ crossed' = (crossed \/ \E other \in Desks : desk[other] # Away)
  /\ UNCHANGED <<file, filing, approvers, noted, verdict>>

(* The first statement and the checks of any operation above.  Who calls   *)
(* matters for approvals only.                                             *)
FindAndCheck(d, officer) ==
  \E o \in Operations :
    /\ o.file = file /\ filing.status \in o.from
    /\ MayApprove(o.op, officer)
    /\ file = "sar" \/ officer = Preparer
    /\ \E to \in o.to : Call(d, o.op, officer, to)

(* addNote appends to the notes it has read.                               *)
ReadNotes(d) ==
  /\ file = "case" /\ filing.notes < MaxNotes /\ noted < MaxNotes
  /\ Call(d, "addNote", Preparer, "none")

Final == {"FILED", "APPROVED", "DECLINED", "COMPLETED", "REQUIRES_EDD"}
VerdictAfter(status) ==
  IF verdict = "none" /\ status \in Final /\ ~(file = "sar" /\ status = "APPROVED")
  THEN status ELSE verdict

(* The second statement: an update by id, with no condition on the row.    *)
Update(d) ==
  LET call == desk[d] IN
  /\ call # Away /\ call.op \notin {"addNote", "completeAssessment"}
  /\ filing' = [filing EXCEPT !.status = call.to,
                  !.first = IF call.op = "approveFirst" THEN call.officer ELSE @,
                  !.second = IF call.op = "approveSecond" THEN call.officer ELSE @]
  /\ approvers' = IF call.op \in {"approveFirst", "approveSecond"}
                  THEN approvers \cup {call.officer} ELSE approvers
  /\ verdict' = VerdictAfter(call.to)
  /\ desk' = [desk EXCEPT ![d] = Away]
  /\ UNCHANGED <<file, noted, crossed>>

WriteNotes(d) ==
  /\ desk[d].op = "addNote"
  /\ filing' = [filing EXCEPT !.notes = desk[d].notes + 1]
  /\ noted' = noted + 1
  /\ desk' = [desk EXCEPT ![d] = Away]
  /\ UNCHANGED <<file, approvers, verdict, crossed>>

(* completeAssessment: the reviewer may set or clear any factor.           *)
FindAssessment(d) ==
  /\ file = "cdd" /\ filing.status = "PENDING"
  /\ Call(d, "completeAssessment", Preparer, "none")

CompleteAssessment(d, factors) ==
  LET status == IF RequiresEdd(factors) THEN "REQUIRES_EDD" ELSE "COMPLETED" IN
  /\ desk[d].op = "completeAssessment"
  /\ filing' = [filing EXCEPT !.status = status, !.factors = factors]
  /\ verdict' = VerdictAfter(status)
  /\ desk' = [desk EXCEPT ![d] = Away]
  /\ UNCHANGED <<file, approvers, noted, crossed>>

FilingNext ==
  \/ \E kind \in DOMAIN FirstStatus : OpenFile(kind)
  \/ \E d \in Desks, officer \in Officers : FindAndCheck(d, officer)
  \/ \E d \in Desks : ReadNotes(d) \/ FindAssessment(d) \/ Update(d) \/ WriteNotes(d)
  \/ \E d \in Desks, factors \in SUBSET Factors : CompleteAssessment(d, factors)

FilingSpec == FilingInit /\ [][FilingNext]_filingVars

-----------------------------------------------------------------------------
Statuses == CaseStatuses \cup AlertStatuses \cup ScreeningStatuses
  \cup {"none", "DRAFT", "PENDING_APPROVAL", "PENDING", "PENDING_CUSTOMER", "PENDING_REVIEW",
        "PENDING_MANAGER_APPROVAL"} \cup Final

OperationNames == {"away", "addNote", "completeAssessment"} \cup {o.op : o \in Operations}

(* The rows hold what their entities say.                                  *)
FilingTypeOK ==
  /\ file \in {"none"} \cup DOMAIN FirstStatus
  /\ filing \in [status : Statuses, first : Officers \cup {Nobody},
                 second : Officers \cup {Nobody}, factors : SUBSET Factors, notes : Nat]
  /\ desk \in [Desks -> [op : OperationNames, officer : Officers, to : Statuses \cup {"none"},
                         notes : Nat]]
  /\ approvers \subseteq Officers /\ noted \in Nat /\ verdict \in Final \cup {"none"}
  /\ crossed \in BOOLEAN

Approved == file = "sar" /\ filing.status \in {"APPROVED", "FILED"}

(* Dual control holds under every interleaving of approvals: a report is   *)
(* approved or filed only after two officers, neither of them the preparer, *)
(* have approved it.  That the row also names two of them is true only     *)
(* while calls do not overlap: an approveFirst that was checked early can  *)
(* put the second approver's name in both columns.                         *)
FiledByTwo ==
  Approved => /\ Preparer \notin approvers
              /\ \E a, b \in approvers : a # b
RowNamesTwo ==
  Approved /\ ~crossed => filing.first # filing.second /\ Nobody \notin {filing.first, filing.second}

(* Calls that follow each other never undo a verdict: a filed report, a    *)
(* decided questionnaire, a completed assessment.  Overlapping ones do.    *)
VerdictsStay == verdict # "none" /\ ~crossed => filing.status = verdict

(* No note is lost while calls do not overlap.                             *)
NotesKept == ~crossed => filing.notes = noted

(* A politically exposed customer never passes without enhanced due        *)
(* diligence, whatever the other factors are and however calls overlap.    *)
ExposedNeedsEdd ==
  filing.status = "COMPLETED" => "politicallyExposed" \notin filing.factors

(* The five together: what a compliance file keeps to.                     *)
FilingsSound == FiledByTwo /\ RowNamesTwo /\ VerdictsStay /\ NotesKept /\ ExposedNeedsEdd
=============================================================================
