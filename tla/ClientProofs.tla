---------------------------- MODULE ClientProofs ----------------------------
(***************************************************************************)
(* Theorems about what is kept on clients and done for them: compliance    *)
(* (the files, the identity checks, the screening and the monitoring of    *)
(* transactions), the households, and the advice they get; and about what  *)
(* is reported to the regulator: for every value of the constants.         *)
(***************************************************************************)
EXTENDS Filings, Kyc, Monitoring, FamilyOffice, PersonalOffice, RoboAdvisor,
        PrivateBanking, ReportScheduler, Capital, Sums

-----------------------------------------------------------------------------
(* The compliance files: what a call in flight has checked, what dual      *)
(* control adds up to, and what holds while no two calls have overlapped.  *)

Approvals == {"approveFirst", "approveSecond"}
Special == {"addNote", "completeAssessment"}

(* A call that a file of this kind can have in flight.                     *)
Known(f, call) ==
  \/ call = Away
  \/ /\ f = "sar" /\ call.op = "approveFirst" /\ call.to = "PENDING_APPROVAL"
     /\ call.officer # Preparer
  \/ /\ f = "sar" /\ call.op = "approveSecond" /\ call.to = "APPROVED"
     /\ call.officer # Preparer
  \/ f = "sar" /\ call.op = "file" /\ call.to = "FILED"
  \/ f \in {"ctr", "edd"} /\ call.op \notin Approvals \cup Special
  \/ /\ f \in {"alert", "case", "screening"} /\ call.op \notin Approvals \cup Special
     /\ call.to \notin Final
  \/ f = "case" /\ call.op = "addNote"
  \/ f = "cdd" /\ call.op = "completeAssessment"

TwoApproved == \E a, b \in approvers : a # b

CallsKnown ==
  /\ \A d \in Desks : Known(file, desk[d])
  /\ file = "none" => filing.status = "none" /\ filing.first = Nobody
  /\ verdict # "none" => file \in {"sar", "ctr", "edd", "cdd"}
  /\ file = "sar" => verdict \in {"none", "FILED"}

DualControl ==
  /\ Preparer \notin approvers
  /\ file = "sar" /\ filing.first # Nobody => filing.first \in approvers
  /\ file = "sar" /\ filing.status \in {"APPROVED", "FILED"} => TwoApproved
  /\ \A d \in Desks :
       /\ desk[d].op = "approveSecond" => \E a \in approvers : a # desk[d].officer
       /\ file = "sar" /\ desk[d].op = "file" => TwoApproved

(* One call at a time: what it has checked is still so when it writes.     *)
WhileAlone ==
  ~crossed =>
    /\ \A d, e \in Desks : desk[d] # Away /\ desk[e] # Away => d = e
    /\ filing.notes = noted
    /\ verdict # "none" => filing.status = verdict /\ \A d \in Desks : desk[d] = Away
    /\ Approved => filing.first # filing.second /\ Nobody \notin {filing.first, filing.second}
    /\ \A d \in Desks :
         /\ desk[d].op = "addNote" => desk[d].notes = filing.notes
         /\ desk[d].op = "approveSecond" => filing.first \notin {Nobody, desk[d].officer}
         /\ file = "sar" /\ desk[d].op = "file" => Approved

FilingInv == FilingTypeOK /\ CallsKnown /\ DualControl /\ WhileAlone

InFlightCalls == [op : OperationNames, officer : Officers, to : Statuses \cup {"none"},
                  notes : Nat]
FileRows == [status : Statuses, first : Officers \cup {Nobody},
             second : Officers \cup {Nobody}, factors : SUBSET Factors, notes : Nat]

(* The table of operations, read off.                                      *)
LEMMA SarKnown ==
  ASSUME NEW o \in SarOperations, NEW s \in o.from, NEW to \in o.to
  PROVE  /\ o.file = "sar" /\ to \in {"PENDING_APPROVAL", "APPROVED", "FILED"}
         /\ \/ o.op = "approveFirst" /\ to = "PENDING_APPROVAL" /\ s # "FILED"
            \/ o.op = "approveSecond" /\ to = "APPROVED" /\ s = "PENDING_APPROVAL"
            \/ o.op = "file" /\ to = "FILED" /\ s = "APPROVED"
<1>1. CASE o = Operation("sar", "approveFirst", {"DRAFT", "PENDING_APPROVAL"},
                         {"PENDING_APPROVAL"})
  BY <1>1 DEF Operation
<1>2. CASE o = Operation("sar", "approveSecond", {"PENDING_APPROVAL"}, {"APPROVED"})
  BY <1>2 DEF Operation
<1>3. CASE o = Operation("sar", "file", {"APPROVED"}, {"FILED"})
  BY <1>3 DEF Operation
<1> QED
  BY <1>1, <1>2, <1>3 DEF SarOperations

(* The operations that are not about a suspicious activity report.         *)
LEMMA OthersKnown ==
  ASSUME NEW o \in Operations \ SarOperations, NEW s \in o.from, NEW to \in o.to
  PROVE  /\ o.op \notin Approvals \cup Special \cup {"away"} /\ to \in Statuses
         /\ \/ o.file \in {"ctr", "edd"} /\ s \notin Final
            \/ o.file \in {"alert", "case", "screening"} /\ to \notin Final
<1>1. CASE o \in CtrOperations
  BY <1>1 DEF CtrOperations, Operation, Final, Approvals, Special, Statuses
<1>2. CASE o \in EddOperations
  <2>1. o.file = "edd" /\ o.op \notin Approvals \cup Special \cup {"away"}
    BY <1>2 DEF EddOperations, Operation, Approvals, Special
  <2>2. s \in {"PENDING_CUSTOMER", "PENDING_REVIEW", "PENDING_MANAGER_APPROVAL"}
    BY <1>2 DEF EddOperations, Operation
  <2>3. to \in {"PENDING_REVIEW", "PENDING_MANAGER_APPROVAL", "APPROVED", "DECLINED"}
    BY <1>2 DEF EddOperations, Operation
  <2> QED
    BY <2>1, <2>2, <2>3 DEF Final, Statuses
<1>3. CASE o \in AlertOperations
  <2>1. o.file = "alert" /\ o.op \notin Approvals \cup Special \cup {"away"}
    BY <1>3 DEF AlertOperations, Operation, Approvals, Special
  <2>2. to \in AlertStatuses
    BY <1>3 DEF AlertOperations, Operation, AlertStatuses
  <2> QED
    BY <2>1, <2>2 DEF AlertStatuses, Final, Statuses
<1>4. CASE o \in CaseOperations
  <2>1. o.file = "case" /\ o.op \notin Approvals \cup Special \cup {"away"}
    BY <1>4 DEF CaseOperations, Operation, Approvals, Special
  <2>2. to \in CaseStatuses
    BY <1>4 DEF CaseOperations, Operation, CaseStatuses
  <2> QED
    BY <2>1, <2>2 DEF CaseStatuses, Final, Statuses
<1>5. CASE o \in ScreeningOperations
  <2>1. o.file = "screening" /\ o.op \notin Approvals \cup Special \cup {"away"}
    BY <1>5 DEF ScreeningOperations, Operation, Approvals, Special
  <2>2. to \in ScreeningStatuses
    BY <1>5 DEF ScreeningOperations, Operation, ScreeningStatuses
  <2> QED
    BY <2>1, <2>2 DEF ScreeningStatuses, Final, Statuses
<1> QED
  BY <1>1, <1>2, <1>3, <1>4, <1>5 DEF Operations

(* Before any file is opened.                                              *)
LEMMA FilingInitial == FilingInit => FilingInv
<1> SUFFICES ASSUME FilingInit PROVE FilingInv
  OBVIOUS
<1>1. Away \in InFlightCalls
  BY FilingConstants DEF Away, InFlightCalls, OperationNames
<1>2. /\ filing \in FileRows /\ filing.status = "none" /\ filing.first = Nobody
      /\ filing.notes = 0
  BY DEF FilingInit, FileRows, Statuses
<1>3. FilingTypeOK
  BY <1>1, <1>2 DEF FilingInit, FilingTypeOK, InFlightCalls, FileRows
<1>4. \A d \in Desks : desk[d] = Away /\ desk[d].op = "away"
  BY DEF FilingInit, Away
<1>5. CallsKnown
  BY <1>2, <1>4 DEF FilingInit, CallsKnown, Known
<1>6. DualControl
  BY <1>2, <1>4 DEF FilingInit, DualControl
<1>7. WhileAlone
  BY <1>2, <1>4 DEF FilingInit, WhileAlone, Approved
<1> QED
  BY <1>3, <1>5, <1>6, <1>7 DEF FilingInv

(* A call that starts with its checks passed.                              *)
LEMMA CallStarts ==
  ASSUME FilingInv, NEW d \in Desks, NEW call \in InFlightCalls, desk[d] = Away,
         desk' = [desk EXCEPT ![d] = call],
         crossed' = (crossed \/ \E other \in Desks : desk[other] # Away),
         UNCHANGED <<file, filing, approvers, noted, verdict>>,
         Known(file, call), call.notes = filing.notes, file # "none",
         call.op = "approveSecond" => file = "sar" /\ filing.first \notin {Nobody, call.officer},
         file = "sar" /\ call.op = "file" => filing.status = "APPROVED",
         verdict # "none" => filing.status # verdict
  PROVE  FilingInv'
<1>0. /\ desk \in [Desks -> InFlightCalls] /\ crossed \in BOOLEAN
  BY DEF FilingInv, FilingTypeOK, InFlightCalls
<1>1. \A e \in Desks : desk'[e] = IF e = d THEN call ELSE desk[e]
  BY <1>0
<1>2. FilingTypeOK'
  <2>1. desk' \in [Desks -> InFlightCalls]
    BY <1>0
  <2>2. crossed' \in BOOLEAN
    BY <1>0, Zenon
  <2> QED
    BY <2>1, <2>2 DEF FilingInv, FilingTypeOK, InFlightCalls
<1>3. CallsKnown'
  <2>1. \A e \in Desks : Known(file, desk'[e])
    BY <1>1 DEF FilingInv, CallsKnown
  <2> QED
    BY <2>1 DEF FilingInv, CallsKnown
<1>4. DualControl'
  <2>1. call.op = "approveSecond" => \E a \in approvers : a # call.officer
    BY DEF FilingInv, DualControl
  <2>2. file = "sar" /\ call.op = "file" => TwoApproved
    BY DEF FilingInv, DualControl
  <2>3. TwoApproved' <=> TwoApproved
    BY DEF TwoApproved
  <2> QED
    BY <1>1, <2>1, <2>2, <2>3 DEF FilingInv, DualControl
<1>5. WhileAlone'
  <2> SUFFICES ASSUME ~crossed' PROVE WhileAlone'
    BY DEF WhileAlone
  <2>1. ~crossed /\ \A e \in Desks : desk[e] = Away
    BY <1>0
  <2>2. /\ \A e \in Desks \ {d} : desk'[e] = Away /\ desk'[e].op = "away"
        /\ desk'[d] = call
    BY <1>1, <2>1 DEF Away
  <2>3. verdict = "none" /\ filing.notes = noted
    BY <2>1 DEF FilingInv, WhileAlone
  <2>4. /\ Approved' <=> Approved
        /\ file = "sar" /\ call.op = "file" => Approved
        /\ Approved => filing.first # filing.second
                       /\ Nobody \notin {filing.first, filing.second}
    BY <2>1 DEF FilingInv, WhileAlone, Approved
  <2> QED
    BY <2>2, <2>3, <2>4 DEF WhileAlone
<1> QED
  BY <1>2, <1>3, <1>4, <1>5 DEF FilingInv

(* The first statement of every operation.                                 *)
LEMMA ChecksHold ==
  ASSUME FilingInv, NEW d \in Desks, NEW officer \in Officers,
         FindAndCheck(d, officer) \/ ReadNotes(d) \/ FindAssessment(d)
  PROVE  FilingInv'
<1>0. /\ filing \in FileRows /\ Preparer \in Officers /\ verdict \in Final \cup {"none"}
  BY FilingConstants DEF FilingInv, FilingTypeOK, FileRows
<1>1. CASE FindAndCheck(d, officer)
  <2>0. PICK o \in Operations :
          /\ o.file = file /\ filing.status \in o.from /\ MayApprove(o.op, officer)
          /\ \E to \in o.to : Call(d, o.op, officer, to)
    BY <1>1 DEF FindAndCheck
  <2>1. PICK to \in o.to :
          /\ o.file = file /\ filing.status \in o.from /\ MayApprove(o.op, officer)
          /\ Call(d, o.op, officer, to)
    BY <2>0
  <2> DEFINE call == [op |-> o.op, officer |-> officer, to |-> to, notes |-> filing.notes]
  <2>2. call \in InFlightCalls /\ file # "none"
        /\ Known(file, call)
        /\ (call.op = "approveSecond" => file = "sar" /\ filing.first \notin {Nobody, officer})
        /\ (file = "sar" /\ call.op = "file" => filing.status = "APPROVED")
        /\ (verdict # "none" => filing.status # verdict)
    <3>1. CASE o \in SarOperations
      <4>1. /\ o.file = "sar" /\ to \in {"PENDING_APPROVAL", "APPROVED", "FILED"}
            /\ \/ o.op = "approveFirst" /\ to = "PENDING_APPROVAL" /\ filing.status # "FILED"
               \/ /\ o.op = "approveSecond" /\ to = "APPROVED"
                  /\ filing.status = "PENDING_APPROVAL"
               \/ o.op = "file" /\ to = "FILED" /\ filing.status = "APPROVED"
        BY <2>1, <3>1, SarKnown
      <4>2. call \in InFlightCalls
        BY <1>0, <4>1 DEF InFlightCalls, OperationNames, Statuses, Final, FileRows
      <4>3. Known(file, call)
        BY <2>1, <4>1 DEF Known, MayApprove
      <4>4. call.op = "approveSecond" => filing.first \notin {Nobody, officer}
        BY <2>1 DEF MayApprove
      <4>5. verdict # "none" => filing.status # verdict
        BY <2>1, <4>1 DEF FilingInv, CallsKnown
      <4> QED
        BY <2>1, <4>1, <4>2, <4>3, <4>4, <4>5
    <3>2. CASE o \notin SarOperations
      <4>1. /\ o.op \notin Approvals \cup Special \cup {"away"} /\ to \in Statuses
            /\ \/ o.file \in {"ctr", "edd"} /\ filing.status \notin Final
               \/ o.file \in {"alert", "case", "screening"} /\ to \notin Final
        BY <2>1, <3>2, OthersKnown
      <4>2. call \in InFlightCalls
        BY <1>0, <4>1 DEF InFlightCalls, OperationNames, FileRows
      <4>3. Known(file, call)
        BY <2>1, <4>1 DEF Known
      <4>4. verdict # "none" => filing.status # verdict
        BY <1>0, <2>1, <4>1 DEF FilingInv, CallsKnown
      <4> QED
        BY <2>1, <4>1, <4>2, <4>3, <4>4 DEF Approvals
    <3> QED
      BY <3>1, <3>2
  <2>3. /\ desk[d] = Away /\ desk' = [desk EXCEPT ![d] = call]
        /\ crossed' = (crossed \/ \E other \in Desks : desk[other] # Away)
        /\ UNCHANGED <<file, filing, approvers, noted, verdict>>
    BY <2>1 DEF Call
  <2>4. call.notes = filing.notes /\ call.officer = officer
    OBVIOUS
  <2> HIDE DEF call
  <2> QED
    BY <2>2, <2>3, <2>4, CallStarts
<1>2. ASSUME NEW op \in Special, Call(d, op, Preparer, "none"),
             \/ op = "addNote" /\ file = "case"
             \/ op = "completeAssessment" /\ file = "cdd" /\ filing.status = "PENDING"
      PROVE  FilingInv'
  <2> DEFINE call == [op |-> op, officer |-> Preparer, to |-> "none", notes |-> filing.notes]
  <2>1. call \in InFlightCalls
    BY <1>0, <1>2 DEF InFlightCalls, OperationNames, FileRows, Special
  <2>2. Known(file, call)
    BY <1>2 DEF Known
  <2>3. verdict # "none" => filing.status # verdict
    BY <1>0, <1>2 DEF FilingInv, CallsKnown, Final
  <2>4. /\ desk[d] = Away /\ desk' = [desk EXCEPT ![d] = call]
        /\ crossed' = (crossed \/ \E other \in Desks : desk[other] # Away)
        /\ UNCHANGED <<file, filing, approvers, noted, verdict>>
    BY <1>2 DEF Call
  <2>5. call.notes = filing.notes /\ call.op \notin {"approveSecond", "file"} /\ file # "none"
    BY <1>2 DEF Special
  <2> HIDE DEF call
  <2> QED
    BY <2>1, <2>2, <2>3, <2>4, <2>5, CallStarts
<1>3. CASE ReadNotes(d)
  <2>1. file = "case" /\ Call(d, "addNote", Preparer, "none")
    BY <1>3 DEF ReadNotes
  <2>2. "addNote" \in Special
    BY DEF Special
  <2> QED
    BY <1>2, <2>1, <2>2
<1>4. CASE FindAssessment(d)
  <2>1. /\ file = "cdd" /\ filing.status = "PENDING"
        /\ Call(d, "completeAssessment", Preparer, "none")
    BY <1>4 DEF FindAssessment
  <2>2. "completeAssessment" \in Special
    BY DEF Special
  <2> QED
    BY <1>2, <2>1, <2>2
<1> QED
  BY <1>1, <1>3, <1>4

(* What is left when call d has written: nobody else, if nobody crossed.   *)
LEMMA CallLeaves ==
  ASSUME FilingInv, NEW d \in Desks, desk[d] # Away,
         desk' = [desk EXCEPT ![d] = Away], UNCHANGED <<file, crossed>>
  PROVE  /\ desk' \in [Desks -> InFlightCalls]
         /\ \A e \in Desks : desk'[e] = desk[e] \/ (desk'[e] = Away /\ desk'[e].op = "away")
         /\ \A e \in Desks : Known(file', desk'[e])
         /\ ~crossed => verdict = "none" /\ \A e \in Desks : desk'[e] = Away
                                                            /\ desk'[e].op = "away"
<1>0. desk \in [Desks -> InFlightCalls]
  BY DEF FilingInv, FilingTypeOK, InFlightCalls
<1>1. Away \in InFlightCalls /\ Away.op = "away"
  BY FilingConstants DEF Away, InFlightCalls, OperationNames
<1>2. \A e \in Desks : desk'[e] = IF e = d THEN Away ELSE desk[e]
  BY <1>0
<1>3. \A e \in Desks : Known(file', desk'[e])
  BY <1>2 DEF FilingInv, CallsKnown, Known
<1>4. ~crossed => verdict = "none" /\ \A e \in Desks : e = d \/ desk[e] = Away
  BY DEF FilingInv, WhileAlone
<1>5. desk' \in [Desks -> InFlightCalls]
  BY <1>0, <1>1
<1>6. \A e \in Desks : desk'[e] = desk[e] \/ (desk'[e] = Away /\ desk'[e].op = "away")
  BY <1>1, <1>2
<1>7. ~crossed => \A e \in Desks : desk'[e] = Away /\ desk'[e].op = "away"
  BY <1>1, <1>2, <1>4
<1> QED
  BY <1>3, <1>4, <1>5, <1>6, <1>7

(* The second statement of the operations of the table.                    *)
LEMMA UpdateKeeps ==
  ASSUME FilingInv, NEW d \in Desks, Update(d)
  PROVE  FilingInv'
<1> DEFINE call == desk[d]
<1>0. /\ filing \in FileRows /\ desk \in [Desks -> InFlightCalls] /\ approvers \subseteq Officers
      /\ verdict \in Final \cup {"none"} /\ noted \in Nat /\ crossed \in BOOLEAN
      /\ file \in {"none"} \cup DOMAIN FirstStatus
  BY DEF FilingInv, FilingTypeOK, FileRows, InFlightCalls
<1>1. /\ call # Away /\ call.op \notin Special /\ desk' = [desk EXCEPT ![d] = Away]
      /\ UNCHANGED <<file, noted, crossed>> /\ verdict' = VerdictAfter(call.to)
      /\ filing' = [filing EXCEPT !.status = call.to,
                      !.first = IF call.op = "approveFirst" THEN call.officer ELSE @,
                      !.second = IF call.op = "approveSecond" THEN call.officer ELSE @]
      /\ approvers' = IF call.op \in Approvals THEN approvers \cup {call.officer} ELSE approvers
  BY DEF Update, Special, Approvals
<1>2. /\ desk' \in [Desks -> InFlightCalls]
      /\ \A e \in Desks : desk'[e] = desk[e] \/ (desk'[e] = Away /\ desk'[e].op = "away")
      /\ \A e \in Desks : Known(file', desk'[e])
      /\ ~crossed => /\ verdict = "none"
                     /\ \A e \in Desks : desk'[e] = Away /\ desk'[e].op = "away"
  BY <1>1, CallLeaves
<1>3. Known(file, call) /\ call \in InFlightCalls
  BY <1>0 DEF FilingInv, CallsKnown
<1>4. PICK a, b : /\ a = IF call.op = "approveFirst" THEN call.officer ELSE filing.first
                  /\ b = IF call.op = "approveSecond" THEN call.officer ELSE filing.second
  OBVIOUS
<1>5. /\ filing'.status = call.to /\ filing'.first = a /\ filing'.second = b
      /\ filing'.notes = filing.notes /\ filing'.factors = filing.factors
      /\ a \in Officers \cup {Nobody} /\ b \in Officers \cup {Nobody}
  BY <1>0, <1>1, <1>3, <1>4 DEF FileRows, InFlightCalls
<1>6. call.to \in Statuses
  BY <1>1, <1>3 DEF Known, InFlightCalls, Statuses
<1>7. filing' \in FileRows
  <2>1. filing' = [filing EXCEPT !.status = call.to, !.first = a, !.second = b]
    BY <1>0, <1>1, <1>4 DEF FileRows
  <2> QED
    BY <1>0, <1>5, <1>6, <2>1 DEF FileRows
<1>8. /\ verdict' \in Final \cup {"none"}
      /\ verdict' = verdict
           \/ (/\ verdict = "none" /\ call.to \in Final /\ verdict' = call.to
               /\ ~(file = "sar" /\ call.to = "APPROVED"))
      /\ verdict = "none" /\ call.to \in Final /\ ~(file = "sar" /\ call.to = "APPROVED")
           => verdict' = call.to
  BY <1>0, <1>1 DEF VerdictAfter
<1>9. approvers' \subseteq Officers /\ approvers \subseteq approvers'
  BY <1>0, <1>1, <1>3 DEF InFlightCalls
<1> HIDE DEF call
<1>10. FilingTypeOK'
  <2>1. crossed' \in BOOLEAN
    BY <1>0, <1>1, Zenon
  <2> QED
    BY <1>0, <1>1, <1>2, <1>7, <1>8, <1>9, <2>1
       DEF FilingTypeOK, FileRows, InFlightCalls
<1>11. CallsKnown'
  <2>1. file # "none" /\ file' = file
    BY <1>1, <1>3 DEF Known
  <2>2. verdict' # "none" => file \in {"sar", "ctr", "edd", "cdd"}
    BY <1>1, <1>3, <1>8 DEF Known, FilingInv, CallsKnown, Special
  <2>3. file = "sar" => verdict' \in {"none", "FILED"}
    BY <1>1, <1>3, <1>8 DEF Known, FilingInv, CallsKnown, Final
  <2> QED
    BY <1>2, <2>1, <2>2, <2>3 DEF CallsKnown
<1>12. TwoApproved => TwoApproved'
  BY <1>9 DEF TwoApproved
<1>13. DualControl'
  <2>1. Preparer \notin approvers'
    BY <1>1, <1>3 DEF FilingInv, DualControl, Known, Approvals
  <2>2. file = "sar" /\ a # Nobody => a \in approvers'
    BY <1>1, <1>3, <1>4 DEF FilingInv, DualControl, Known, Approvals
  <2>3. call.op = "approveSecond" => TwoApproved'
    <3> SUFFICES ASSUME call.op = "approveSecond" PROVE TwoApproved'
      OBVIOUS
    <3>1. PICK x \in approvers : x # call.officer
      BY DEF FilingInv, DualControl, call
    <3>2. x \in approvers' /\ call.officer \in approvers'
      BY <1>1, <1>9, <3>1 DEF Approvals
    <3> QED
      BY <3>1, <3>2 DEF TwoApproved
  <2>4. file = "sar" /\ call.op = "file" => TwoApproved'
    BY <1>12 DEF FilingInv, DualControl, call
  <2>5. file = "sar" /\ call.to \in {"APPROVED", "FILED"} => TwoApproved'
    BY <1>1, <1>3, <2>3, <2>4 DEF Known
  <2>6. ASSUME NEW e \in Desks
        PROVE  /\ desk'[e].op = "approveSecond" => \E x \in approvers' : x # desk'[e].officer
               /\ file = "sar" /\ desk'[e].op = "file" => TwoApproved'
    <3>1. CASE desk'[e] = desk[e]
      BY <1>9, <1>12, <3>1 DEF FilingInv, DualControl
    <3>2. CASE desk'[e].op = "away"
      BY <3>2
    <3> QED
      BY <1>2, <3>1, <3>2
  <2> QED
    BY <1>1, <1>5, <2>1, <2>2, <2>5, <2>6 DEF DualControl
<1>14. WhileAlone'
  <2> SUFFICES ASSUME ~crossed' PROVE WhileAlone'
    BY DEF WhileAlone
  <2>1. /\ ~crossed /\ verdict = "none" /\ filing.notes = noted
        /\ \A e \in Desks : desk'[e] = Away /\ desk'[e].op = "away"
    BY <1>1, <1>2 DEF FilingInv, WhileAlone
  <2>2. verdict' # "none" => filing'.status = verdict'
    BY <1>5, <1>8, <2>1
  <2>3. /\ call.op = "approveSecond" => filing.first \notin {Nobody, call.officer}
        /\ file = "sar" /\ call.op = "file" => Approved
        /\ Approved => filing.first # filing.second
                       /\ Nobody \notin {filing.first, filing.second}
    BY <2>1 DEF FilingInv, WhileAlone, call
  <2>4. call.officer # Nobody
    BY <1>3, FilingConstants DEF InFlightCalls, Nobody
  <2>5. file = "sar" /\ call.to \in {"APPROVED", "FILED"}
          => a # b /\ Nobody \notin {a, b}
    BY <1>1, <1>3, <1>4, <2>3, <2>4 DEF Known
  <2>6. Approved' => filing'.first # filing'.second
                     /\ Nobody \notin {filing'.first, filing'.second}
    BY <1>1, <1>5, <2>5 DEF Approved
  <2> QED
    BY <1>1, <1>5, <2>1, <2>2, <2>6 DEF WhileAlone
<1> QED
  BY <1>10, <1>11, <1>13, <1>14 DEF FilingInv

(* The second statement of addNote.                                        *)
LEMMA NotesKeep ==
  ASSUME FilingInv, NEW d \in Desks, WriteNotes(d)
  PROVE  FilingInv'
<1>0. /\ filing \in FileRows /\ desk \in [Desks -> InFlightCalls] /\ noted \in Nat
  BY DEF FilingInv, FilingTypeOK, FileRows, InFlightCalls
<1>1. /\ desk[d].op = "addNote" /\ desk[d] # Away /\ desk' = [desk EXCEPT ![d] = Away]
      /\ filing' = [filing EXCEPT !.notes = desk[d].notes + 1] /\ noted' = noted + 1
      /\ UNCHANGED <<file, approvers, verdict, crossed>>
  BY DEF WriteNotes, Away
<1>2. /\ desk' \in [Desks -> InFlightCalls]
      /\ \A e \in Desks : desk'[e] = desk[e] \/ (desk'[e] = Away /\ desk'[e].op = "away")
      /\ \A e \in Desks : Known(file', desk'[e])
      /\ ~crossed => /\ verdict = "none"
                     /\ \A e \in Desks : desk'[e] = Away /\ desk'[e].op = "away"
  BY <1>1, CallLeaves
<1>3. desk[d].notes \in Nat
  BY <1>0 DEF InFlightCalls
<1>4. /\ filing' \in FileRows /\ filing'.notes = desk[d].notes + 1
      /\ filing'.status = filing.status /\ filing'.first = filing.first
      /\ filing'.second = filing.second
  BY <1>0, <1>1, <1>3 DEF FileRows
<1>5. file = "case" /\ file' = "case"
  BY <1>1 DEF FilingInv, CallsKnown, Known, Special
<1>6. FilingTypeOK'
  <2>1. crossed' \in BOOLEAN
    <3>1. crossed \in BOOLEAN
      BY DEF FilingInv, FilingTypeOK
    <3> QED
      BY <1>1, <3>1, Zenon
  <2> QED
    BY <1>0, <1>1, <1>2, <1>4, <2>1 DEF FilingInv, FilingTypeOK, FileRows, InFlightCalls
<1>7. CallsKnown'
  BY <1>1, <1>2, <1>5 DEF FilingInv, CallsKnown
<1>8. DualControl'
  <2>1. \A e \in Desks : desk'[e].op = "approveSecond"
                           => \E a \in approvers : a # desk'[e].officer
    BY <1>2 DEF FilingInv, DualControl
  <2> QED
    BY <1>1, <1>5, <2>1 DEF FilingInv, DualControl
<1>9. WhileAlone'
  <2> SUFFICES ASSUME ~crossed' PROVE WhileAlone'
    BY DEF WhileAlone
  <2>1. /\ verdict' = "none" /\ \A e \in Desks : desk'[e] = Away /\ desk'[e].op = "away"
    BY <1>1, <1>2
  <2>2. filing'.notes = noted'
    BY <1>1, <1>4 DEF FilingInv, WhileAlone
  <2> QED
    BY <1>5, <2>1, <2>2 DEF WhileAlone, Approved
<1> QED
  BY <1>6, <1>7, <1>8, <1>9 DEF FilingInv

(* The second statement of completeAssessment.                             *)
LEMMA AssessmentKeeps ==
  ASSUME FilingInv, NEW d \in Desks, NEW factors \in SUBSET Factors,
         CompleteAssessment(d, factors)
  PROVE  FilingInv'
<1>0. /\ filing \in FileRows /\ desk \in [Desks -> InFlightCalls]
      /\ verdict \in Final \cup {"none"}
  BY DEF FilingInv, FilingTypeOK, FileRows, InFlightCalls
<1>s. PICK status : status = IF RequiresEdd(factors) THEN "REQUIRES_EDD" ELSE "COMPLETED"
  OBVIOUS
<1>t. status \in {"REQUIRES_EDD", "COMPLETED"}
  BY <1>s
<1>u. desk[d] # Away
  <2>1. Away.op = "away" /\ desk[d].op = "completeAssessment"
    BY DEF CompleteAssessment, Away
  <2> QED
    BY <2>1
<1>1. /\ desk[d].op = "completeAssessment" /\ desk[d] # Away
      /\ desk' = [desk EXCEPT ![d] = Away]
      /\ filing' = [filing EXCEPT !.status = status, !.factors = factors]
      /\ verdict' = VerdictAfter(status)
      /\ UNCHANGED <<file, approvers, noted, crossed>>
  BY <1>s, <1>u DEF CompleteAssessment
<1>2. /\ desk' \in [Desks -> InFlightCalls]
      /\ \A e \in Desks : desk'[e] = desk[e] \/ (desk'[e] = Away /\ desk'[e].op = "away")
      /\ \A e \in Desks : Known(file', desk'[e])
      /\ ~crossed => /\ verdict = "none"
                     /\ \A e \in Desks : desk'[e] = Away /\ desk'[e].op = "away"
  BY <1>1, CallLeaves
<1>3. status \in Statuses /\ status \in Final /\ status # "APPROVED"
  BY <1>t DEF Statuses, Final
<1>4. /\ filing' \in FileRows /\ filing'.notes = filing.notes
      /\ filing'.status = status /\ filing'.first = filing.first
      /\ filing'.second = filing.second
  BY <1>0, <1>1, <1>3 DEF FileRows
<1>5. file = "cdd" /\ file' = "cdd"
  BY <1>1 DEF FilingInv, CallsKnown, Known, Special
<1>6. /\ verdict' \in Final \cup {"none"}
      /\ verdict = "none" => verdict' = status
  BY <1>0, <1>1, <1>3 DEF VerdictAfter
<1>7. FilingTypeOK'
  <2>1. crossed' \in BOOLEAN
    <3>1. crossed \in BOOLEAN
      BY DEF FilingInv, FilingTypeOK
    <3> QED
      BY <1>1, <3>1, Zenon
  <2> QED
    BY <1>0, <1>1, <1>2, <1>4, <1>6, <2>1
       DEF FilingInv, FilingTypeOK, FileRows, InFlightCalls
<1>8. CallsKnown'
  BY <1>2, <1>5 DEF CallsKnown
<1>9. DualControl'
  <2>1. \A e \in Desks : desk'[e].op = "approveSecond"
                           => \E a \in approvers : a # desk'[e].officer
    BY <1>2 DEF FilingInv, DualControl
  <2> QED
    BY <1>1, <1>5, <2>1 DEF FilingInv, DualControl
<1>10. WhileAlone'
  <2> SUFFICES ASSUME ~crossed' PROVE WhileAlone'
    BY DEF WhileAlone
  <2>1. /\ verdict' = status
        /\ \A e \in Desks : desk'[e] = Away /\ desk'[e].op = "away"
    BY <1>1, <1>2, <1>6
  <2>2. filing'.notes = noted'
    BY <1>1, <1>4 DEF FilingInv, WhileAlone
  <2> QED
    BY <1>4, <1>5, <2>1, <2>2 DEF WhileAlone, Approved
<1> QED
  BY <1>7, <1>8, <1>9, <1>10 DEF FilingInv

(* Opening a file: nothing is in flight before there is one.               *)
LEMMA OpenKeeps ==
  ASSUME FilingInv, NEW kind \in DOMAIN FirstStatus, OpenFile(kind)
  PROVE  FilingInv'
<1>0. /\ filing \in FileRows /\ desk \in [Desks -> InFlightCalls]
  BY DEF FilingInv, FilingTypeOK, FileRows, InFlightCalls
<1>1. PICK start : start = FirstStatus[kind]
  OBVIOUS
<1>2. /\ file = "none" /\ file' = kind /\ filing' = [filing EXCEPT !.status = start]
      /\ UNCHANGED <<desk, approvers, noted, verdict, crossed>>
  BY <1>1 DEF OpenFile
<1>3. start \in {"DRAFT", "PENDING", "PENDING_CUSTOMER", "OPEN", "HIT"}
  BY <1>1 DEF FirstStatus
<1>4. start \in Statuses /\ start \notin {"APPROVED", "FILED"}
  BY <1>3 DEF Statuses, CaseStatuses, ScreeningStatuses
<1>5. /\ filing' \in FileRows /\ filing'.status = start /\ filing'.first = filing.first
      /\ filing'.second = filing.second /\ filing'.notes = filing.notes
  BY <1>0, <1>2, <1>4 DEF FileRows
<1>6. /\ \A e \in Desks : desk'[e] = Away
      /\ verdict = "none" /\ filing.first = Nobody
  <2>1. \A e \in Desks : desk[e] = Away
    BY <1>2 DEF FilingInv, CallsKnown, Known
  <2> QED
    BY <1>2, <2>1 DEF FilingInv, CallsKnown
<1>7. FilingTypeOK'
  <2>1. crossed' \in BOOLEAN
    <3>1. crossed \in BOOLEAN
      BY DEF FilingInv, FilingTypeOK
    <3> QED
      BY <1>2, <3>1, Zenon
  <2> QED
    BY <1>2, <1>5, <2>1 DEF FilingInv, FilingTypeOK, FileRows, InFlightCalls
<1>8. CallsKnown'
  <2>1. kind # "none"
    BY DEF FirstStatus
  <2> QED
    BY <1>2, <1>6, <2>1 DEF CallsKnown, Known
<1>9. Away.op = "away"
  BY DEF Away
<1>10. DualControl'
  BY <1>2, <1>4, <1>5, <1>6, <1>9 DEF FilingInv, DualControl
<1>11. WhileAlone'
  BY <1>2, <1>4, <1>5, <1>6, <1>9 DEF FilingInv, WhileAlone, Approved
<1> QED
  BY <1>7, <1>8, <1>10, <1>11 DEF FilingInv

(* A compliance file is typed, a report is approved by two officers other  *)
(* than its preparer however calls overlap, and while they do not the row  *)
(* names the two, a verdict stays and no note is lost.                     *)
THEOREM FilesHold ==
  FilingSpec => [](FilingTypeOK /\ FiledByTwo /\ RowNamesTwo /\ VerdictsStay /\ NotesKept)
<1>1. FilingInv /\ [FilingNext]_filingVars => FilingInv'
  <2> SUFFICES ASSUME FilingInv, [FilingNext]_filingVars PROVE FilingInv'
    OBVIOUS
  <2>1. CASE UNCHANGED filingVars
    <3>1. UNCHANGED <<file, filing, desk, approvers, noted, verdict, crossed>>
      BY <2>1 DEF filingVars
    <3> QED
      BY <3>1 DEF FilingInv, FilingTypeOK, CallsKnown, DualControl, TwoApproved, WhileAlone,
                  Approved
  <2> QED
    BY <2>1, OpenKeeps, ChecksHold, UpdateKeeps, NotesKeep, AssessmentKeeps, FilingConstants
       DEF FilingNext
<1>2. FilingInv => FilingTypeOK /\ FiledByTwo /\ RowNamesTwo /\ VerdictsStay /\ NotesKept
  BY DEF FilingInv, DualControl, TwoApproved, WhileAlone, FiledByTwo, RowNamesTwo,
         VerdictsStay, NotesKept, Approved
<1> QED
  BY <1>1, <1>2, FilingInitial, PTL DEF FilingSpec

(* The risk score is the sum of the weights of the factors.                *)
LEMMA ScoreIsSum ==
  ASSUME NEW S, IsFiniteSet(S)
  PROVE  RiskScore(S) = IntegerSum([x \in S |-> Weight(x)])
<1> DEFINE w == [x \in S |-> Weight(x)]
           U(it) == it = [s \in SUBSET S |-> IF s = {} THEN 0
                            ELSE Weight(Chosen(s)) + it[s \ {Chosen(s)}]]
           fold == CHOOSE it : U(it)
<1>1. RiskScore(S) = fold[S]
  BY Zenon DEF RiskScore, MapThenSumSet, MapThenFoldSet, Chosen
<1>2. ASSUME NEW it PROVE U(it) <=> Unfolds(it, w)
  <2>1. \A s \in SUBSET S : s # {} => Chosen(s) \in S
    BY DEF Chosen
  <2>2. \A s \in SUBSET S : s # {} => w[Chosen(s)] = Weight(Chosen(s))
    BY <2>1
  <2>3. DOMAIN w = S
    OBVIOUS
  <2> HIDE DEF w
  <2> QED
    BY <2>2, <2>3 DEF Unfolds
<1>3. \E it : Unfolds(it, w)
  BY Recursion
<1>4. U(fold)
  <2>1. \E it : U(it)
    BY <1>2, <1>3
  <2> HIDE DEF U
  <2> QED
    BY <2>1, Zenon
<1>5. Unfolds(fold, w)
  BY <1>2, <1>4
<1>6. DOMAIN w = S
  OBVIOUS
<1> HIDE DEF fold, w
<1>7. fold[S] = IntegerSum(w)
  BY <1>5, <1>6, FoldEndsInSum
<1> QED
  BY <1>1, <1>7 DEF w

(* No call but completeAssessment completes anything, and that one leaves  *)
(* no score of 30 or more.                                                 *)
AssessedInv ==
  /\ filing.status = "COMPLETED" => "politicallyExposed" \notin filing.factors
  /\ \A d \in Desks : desk[d].to # "COMPLETED"

(* An exposed customer scores 30 at least.                                 *)
LEMMA ExposedScore ==
  ASSUME NEW S \in SUBSET Factors, "politicallyExposed" \in S
  PROVE  RequiresEdd(S)
<1> DEFINE w == [x \in S |-> Weight(x)]
<1>1. IsFiniteSet(Factors)
  <2>1. Factors = {"politicallyExposed"} \cup {"adverseMedia"} \cup {"sourceOfFunds"}
                    \cup {"noOwners"} \cup {"noWealth"}
    BY DEF Factors
  <2> QED
    BY <2>1, FS_Singleton, FS_Union, Zenon
<1>2. IsFiniteSet(S)
  BY <1>1, FS_Subset
<1>3. \A x \in Factors : Weight(x) \in Nat /\ Weight("politicallyExposed") = 30
  BY DEF Factors, Weight
<1>4. DOMAIN w = S /\ \A x \in S : w[x] = Weight(x)
  OBVIOUS
<1> HIDE DEF w
<1>5. \A x \in DOMAIN w : w[x] \in Nat
  BY <1>3, <1>4
<1>6. w["politicallyExposed"] <= IntegerSum(w) /\ IntegerSum(w) \in Nat
  BY <1>2, <1>4, <1>5, SumOfNaturals
<1>7. RiskScore(S) = IntegerSum(w)
  BY <1>2, ScoreIsSum DEF w
<1> QED
  BY <1>3, <1>4, <1>6, <1>7 DEF RequiresEdd

(* No file starts as completed.                                            *)
LEMMA AssessedStarts == FilingInit => AssessedInv
BY DEF FilingInit, AssessedInv, Away

(* Only an assessment without enhanced due diligence completes a file.     *)
LEMMA AssessedStep ==
  ASSUME FilingTypeOK, AssessedInv, [FilingNext]_filingVars PROVE AssessedInv'
<1>0. /\ DOMAIN filing = {"status", "first", "second", "factors", "notes"}
      /\ desk \in [Desks -> [op : OperationNames, officer : Officers,
                             to : Statuses \cup {"none"}, notes : Nat]]
  BY DEF FilingTypeOK
<1>1. ASSUME NEW kind \in DOMAIN FirstStatus, OpenFile(kind) PROVE AssessedInv'
  <2>1. FirstStatus[kind] # "COMPLETED"
    BY DEF FirstStatus
  <2>2. filing'.status = FirstStatus[kind] /\ desk' = desk
    BY <1>0, <1>1 DEF OpenFile
  <2> QED
    BY <2>1, <2>2 DEF AssessedInv
<1>2. ASSUME NEW d \in Desks, NEW op, NEW officer, NEW to, Call(d, op, officer, to),
             to # "COMPLETED"
      PROVE  AssessedInv'
  <2>1. /\ filing' = filing
        /\ desk' = [desk EXCEPT ![d] = [op |-> op, officer |-> officer, to |-> to,
                                        notes |-> filing.notes]]
    BY <1>2 DEF Call
  <2>2. ASSUME NEW e \in Desks PROVE desk'[e].to \in {desk[e].to, to}
    BY <1>0, <2>1
  <2> QED
    BY <1>2, <2>1, <2>2 DEF AssessedInv
<1>3. ASSUME NEW d \in Desks, NEW officer \in Officers, FindAndCheck(d, officer) PROVE AssessedInv'
  <2>0. PICK o \in Operations : \E to \in o.to : Call(d, o.op, officer, to)
    BY <1>3 DEF FindAndCheck
  <2>1. PICK to \in o.to : Call(d, o.op, officer, to)
    BY <2>0
  <2>2. to # "COMPLETED"
    BY <2>1 DEF Operations, SarOperations, CtrOperations, EddOperations, AlertOperations,
       CaseOperations, ScreeningOperations, Operation, CaseStatuses
  <2> QED
    BY <1>2, <2>1, <2>2
<1>4. ASSUME NEW d \in Desks, ReadNotes(d) \/ FindAssessment(d) PROVE AssessedInv'
  BY <1>2, <1>4 DEF ReadNotes, FindAssessment
<1>5. ASSUME NEW d \in Desks, NEW row, filing' = row, desk' = [desk EXCEPT ![d] = Away],
             row.status = "COMPLETED" => "politicallyExposed" \notin row.factors
      PROVE  AssessedInv'
  <2>1. ASSUME NEW e \in Desks PROVE desk'[e].to \in {desk[e].to, "none"}
    BY <1>0, <1>5 DEF Away
  <2> QED
    BY <1>5, <2>1 DEF AssessedInv
<1>6. ASSUME NEW d \in Desks, Update(d) PROVE AssessedInv'
  <2>1. PICK row : row = filing'
    OBVIOUS
  <2>2. row.status = desk[d].to /\ row.status # "COMPLETED"
    BY <1>0, <1>6, <2>1 DEF Update, AssessedInv
  <2>3. desk' = [desk EXCEPT ![d] = Away]
    BY <1>6 DEF Update
  <2> QED
    BY <1>5, <2>1, <2>2, <2>3
<1>7. ASSUME NEW d \in Desks, WriteNotes(d) PROVE AssessedInv'
  <2>1. /\ filing'.status = filing.status /\ filing'.factors = filing.factors
        /\ desk' = [desk EXCEPT ![d] = Away]
    BY <1>0, <1>7 DEF WriteNotes
  <2> QED
    BY <1>5, <2>1 DEF AssessedInv
<1>8. ASSUME NEW d \in Desks, NEW factors \in SUBSET Factors, CompleteAssessment(d, factors)
      PROVE  AssessedInv'
  <2>1. /\ filing'.status = IF RequiresEdd(factors) THEN "REQUIRES_EDD" ELSE "COMPLETED"
        /\ filing'.factors = factors /\ desk' = [desk EXCEPT ![d] = Away]
    BY <1>0, <1>8 DEF CompleteAssessment
  <2> QED
    BY <1>5, <2>1, ExposedScore
<1>9. CASE UNCHANGED filingVars
  BY <1>9 DEF filingVars, AssessedInv
<1> QED
  BY <1>1, <1>3, <1>4, <1>6, <1>7, <1>8, <1>9 DEF FilingNext

(* Of a customer of CddService, an exposed one never passes without        *)
(* enhanced due diligence.                                                 *)
THEOREM ExposedAreAssessed == FilingSpec => []ExposedNeedsEdd
<1>1. FilingInit => AssessedInv
  BY AssessedStarts
<1>2. AssessedInv /\ FilingTypeOK /\ [FilingNext]_filingVars => AssessedInv'
  BY AssessedStep
<1>3. FilingSpec => []FilingTypeOK
  BY FilesHold, PTL
<1>4. AssessedInv => ExposedNeedsEdd
  BY DEF AssessedInv, ExposedNeedsEdd
<1> QED
  BY <1>1, <1>2, <1>3, <1>4, PTL DEF FilingSpec

-----------------------------------------------------------------------------
(* Identity: who is asked about which row, and what is known of it.        *)

CheckStates == {"unknown", "started"} \cup Results
IdentityCalls ==
  {NotCalled} \cup [op : {"initiate"}, at : {"save"}, customer : People]
  \cup [op : {"initiate"}, at : {"ask", "pend"}, customer : People, v : Verifications]
  \cup [op : {"webhook"}, at : {"fetch"}, about : Verifications, v : Verifications]
  \cup [op : {"webhook"}, at : {"write"}, about : Verifications, v : Verifications,
        result : CheckStates]
VerifiedRows ==
  [customer : People \cup {"none"}, ref : {0} \cup Verifications,
   status : {"none", "INITIATED", "PENDING", "APPROVED", "DECLINED", "REVIEW_REQUIRED"}]

IdentityTyped ==
  /\ provider \in {"JUMIO", "ONFIDO"}
  /\ verified \in [Verifications -> VerifiedRows]
  /\ checkOf \in [Verifications -> CheckStates]
  /\ handler \in [Handlers -> IdentityCalls]
  /\ decided \in [Verifications -> [by : {"none", "provider", "officer"},
                                    on : {0} \cup Verifications]]
  /\ leftBehind \subseteq Verifications /\ Cardinality(leftBehind) <= MaxRefusals
  /\ overlapped \subseteq People

(* A call that has saved its row.                                          *)
Asking(h) == handler[h].op = "initiate" /\ handler[h].at # "save"

RowsKept ==
  \A v \in Verifications :
    /\ verified[v].status = "none" => verified[v] = NoVerification /\ checkOf[v] = "unknown"
    /\ verified[v].ref \in {0, v}

(* A call knows a row of its own, that the provider has not heard of       *)
(* before it is asked; a webhook is about a check that was begun.          *)
CallsTrue ==
  /\ \A h \in Handlers : Asking(h) =>
       /\ verified[handler[h].v].status # "none"
       /\ verified[handler[h].v].customer = handler[h].customer
       /\ handler[h].at = "ask" => checkOf[handler[h].v] = "unknown"
  /\ \A g, h \in Handlers : Asking(g) /\ Asking(h) /\ handler[g].v = handler[h].v => g = h
  /\ \A h \in Handlers : handler[h].op = "webhook" =>
       /\ verified[handler[h].v].status # "none"
       /\ checkOf[handler[h].about] # "unknown"
       /\ provider = "JUMIO" => handler[h].about = handler[h].v
       /\ handler[h].at = "write" /\ handler[h].result = "passed" =>
            checkOf[handler[h].about] = "passed"

HasGrounds(v) ==
  \/ decided[v].by = "officer"
  \/ /\ decided[v].by = "provider" /\ decided[v].on \in Verifications
     /\ checkOf[decided[v].on] = "passed"
     /\ \/ decided[v].on = v
        \/ provider = "ONFIDO" /\ \E w \in Verifications \ {v} : checkOf[w] # "unknown"

Grounded == \A v \in Verifications : verified[v].status = "APPROVED" => HasGrounds(v)

(* The calls of a customer that do not overlap.                            *)
ActiveRow(v, c) == Active(v) /\ verified[v].customer = c
RunsFor(h, c) == handler[h].op = "initiate" /\ handler[h].customer = c
OneByOne ==
  \A c \in People \ overlapped :
    /\ \A g, h \in Handlers : RunsFor(g, c) /\ RunsFor(h, c) => g = h
    /\ \A v, w \in Verifications : ActiveRow(v, c) /\ ActiveRow(w, c) => v = w
    /\ \A h \in Handlers, v \in Verifications :
         RunsFor(h, c) /\ ActiveRow(v, c) => Asking(h) /\ handler[h].v = v

Accounted ==
  \A v \in Verifications : verified[v].status = "INITIATED" =>
    v \in leftBehind \/ \E h \in Handlers : Asking(h) /\ handler[h].v = v

IdentityInv ==
  IdentityTyped /\ RowsKept /\ CallsTrue /\ Grounded /\ OneByOne /\ Accounted

-----------------------------------------------------------------------------
(* What a call between its awaits can be.                                  *)
LEMMA CallShape ==
  ASSUME NEW call \in IdentityCalls
  PROVE  \/ call = NotCalled /\ call.op = "away"
         \/ /\ call.op = "initiate" /\ call.at = "save" /\ call.customer \in People
            /\ call = [op |-> "initiate", at |-> "save", customer |-> call.customer]
         \/ /\ call.op = "initiate" /\ call.at \in {"ask", "pend"} /\ call.customer \in People
            /\ call.v \in Verifications
            /\ call = [op |-> "initiate", at |-> call.at, customer |-> call.customer, v |-> call.v]
         \/ /\ call.op = "webhook" /\ call.at = "fetch" /\ call.about \in Verifications
            /\ call.v \in Verifications
         \/ /\ call.op = "webhook" /\ call.at = "write" /\ call.about \in Verifications
            /\ call.v \in Verifications /\ call.result \in CheckStates
<1>1. CASE call = NotCalled
  BY <1>1 DEF NotCalled
<1>2. CASE call \in [op : {"initiate"}, at : {"save"}, customer : People]
  BY <1>2
<1>3. CASE call \in [op : {"initiate"}, at : {"ask", "pend"}, customer : People, v : Verifications]
  BY <1>3
<1>4. CASE call \in [op : {"webhook"}, at : {"fetch"}, about : Verifications, v : Verifications]
  BY <1>4
<1>5. CASE call \in [op : {"webhook"}, at : {"write"}, about : Verifications, v : Verifications,
                     result : CheckStates]
  BY <1>5
<1> QED
  BY <1>1, <1>2, <1>3, <1>4, <1>5 DEF IdentityCalls

(* Verifications are numbered from 1.                                      *)
LEMMA Numbered == 0 \notin Verifications /\ Verifications \subseteq Nat
<1>1. Cardinality(Verifications) \in Nat
  BY KycConstants, FS_CardinalityType
<1> QED
  BY <1>1, KycConstants

(* The rows in use are those with a status.                                *)
LEMMA UsedRows ==
  ASSUME IdentityInv
  PROVE  /\ \A v \in Verifications : v \in Used <=> verified[v].status # "none"
         /\ \A c : ActiveFor(c) = {v \in Verifications : ActiveRow(v, c)}
         /\ \A c : Running(c) = {h \in Handlers : RunsFor(h, c)}
<1>1. \A v \in Verifications : v \in Used <=> verified[v].status # "none"
  BY DEF IdentityInv, RowsKept, Used, NoVerification
<1>2. ASSUME NEW c PROVE ActiveFor(c) = {v \in Verifications : ActiveRow(v, c)}
  BY <1>1 DEF ActiveFor, ActiveRow, Active, Used
<1>3. ASSUME NEW c PROVE Running(c) = {h \in Handlers : RunsFor(h, c)}
  BY DEF Running, RunsFor
<1> QED
  BY <1>1, <1>2, <1>3

-----------------------------------------------------------------------------
(* FindActive: the customer has no active row, and nobody else is at it    *)
(* unless that is on record.                                               *)
LEMMA FindActiveKeeps ==
  ASSUME IdentityInv, NEW h \in Handlers, NEW c \in People, FindActive(h, c)
  PROVE  IdentityInv'
<1>1. PICK call : call = [op |-> "initiate", at |-> "save", customer |-> c]
  OBVIOUS
<1>2. call.op = "initiate" /\ call.at = "save" /\ call.customer = c /\ call \in IdentityCalls
  BY <1>1 DEF IdentityCalls
<1>3. /\ handler[h] = NotCalled /\ handler' = [handler EXCEPT ![h] = call]
      /\ UNCHANGED <<provider, verified, checkOf, decided, leftBehind>>
      /\ ActiveFor(c) = {}
      /\ overlapped' = IF Running(c) # {} THEN overlapped \cup {c} ELSE overlapped
  BY <1>1 DEF FindActive, Handle
<1>4. /\ handler' \in [Handlers -> IdentityCalls] /\ handler'[h] = call
      /\ \A g \in Handlers : g # h => handler'[g] = handler[g]
  BY <1>2, <1>3 DEF IdentityInv, IdentityTyped
<1>5. handler[h].op = "away"
  BY <1>3 DEF NotCalled
<1>6. IdentityTyped'
  BY <1>3, <1>4 DEF IdentityInv, IdentityTyped
<1>7. RowsKept' /\ Grounded'
  BY <1>3 DEF IdentityInv, RowsKept, Grounded, HasGrounds
<1>8. \A g \in Handlers : Asking(g)' => g # h /\ Asking(g)
  BY <1>2, <1>4 DEF Asking
<1>9. CallsTrue'
  BY <1>2, <1>3, <1>4, <1>8 DEF IdentityInv, CallsTrue
<1>10. Accounted'
  BY <1>3, <1>4, <1>5 DEF IdentityInv, Accounted, Asking
<1>11. OneByOne'
  <2> SUFFICES ASSUME NEW x \in People \ overlapped'
               PROVE  /\ \A g, k \in Handlers : RunsFor(g, x)' /\ RunsFor(k, x)' => g = k
                      /\ \A v, w \in Verifications : ActiveRow(v, x)' /\ ActiveRow(w, x)' => v = w
                      /\ \A k \in Handlers, v \in Verifications :
                           RunsFor(k, x)' /\ ActiveRow(v, x)' => Asking(k)' /\ handler'[k].v = v
    BY DEF OneByOne
  <2>1. x \notin overlapped
    BY <1>3
  <2>2. \A v \in Verifications : ActiveRow(v, x)' <=> ActiveRow(v, x)
    BY <1>3 DEF ActiveRow, Active
  <2>3. CASE x # c
    <3>1. \A k \in Handlers : RunsFor(k, x)' => k # h /\ RunsFor(k, x)
      BY <1>2, <1>4, <2>3 DEF RunsFor
    <3>2. \A k \in Handlers : k # h /\ Asking(k) => Asking(k)' /\ handler'[k] = handler[k]
      BY <1>4 DEF Asking
    <3> QED
      BY <2>1, <2>2, <3>1, <3>2 DEF IdentityInv, OneByOne
  <2>4. CASE x = c
    <3>1. \A k \in Handlers : ~RunsFor(k, x)
      BY <1>3, <2>4, UsedRows
    <3>2. \A v \in Verifications : ~ActiveRow(v, x)
      BY <1>3, <2>4, UsedRows
    <3>3. \A k \in Handlers : RunsFor(k, x)' => k = h
      BY <1>4, <3>1 DEF RunsFor
    <3> QED
      BY <2>2, <3>2, <3>3
  <2> QED
    BY <2>3, <2>4
<1> QED
  BY <1>6, <1>7, <1>9, <1>10, <1>11 DEF IdentityInv

(* What does not start a call or make a row active keeps customers one by  *)
(* one.                                                                    *)
LEMMA NoMoreActive ==
  ASSUME IdentityInv, overlapped \subseteq overlapped',
         \A g \in Handlers, c \in People : RunsFor(g, c)' => RunsFor(g, c),
         \A v \in Verifications, c \in People : ActiveRow(v, c)' => ActiveRow(v, c),
         \A g \in Handlers : Asking(g) /\ handler'[g].op = "initiate" =>
           Asking(g)' /\ handler'[g].v = handler[g].v
  PROVE  OneByOne'
<1> SUFFICES ASSUME NEW x \in People \ overlapped'
             PROVE  /\ \A g, k \in Handlers : RunsFor(g, x)' /\ RunsFor(k, x)' => g = k
                    /\ \A v, w \in Verifications : ActiveRow(v, x)' /\ ActiveRow(w, x)' => v = w
                    /\ \A k \in Handlers, v \in Verifications :
                         RunsFor(k, x)' /\ ActiveRow(v, x)' => Asking(k)' /\ handler'[k].v = v
  BY DEF OneByOne
<1>1. x \in People \ overlapped
  OBVIOUS
<1>2. \A k \in Handlers : RunsFor(k, x)' => handler'[k].op = "initiate"
  BY DEF RunsFor
<1> QED
  BY <1>1, <1>2 DEF IdentityInv, OneByOne

(* The row of a new verification.                                          *)
LEMMA SaveInitiatedKeeps ==
  ASSUME IdentityInv, NEW h \in Handlers, SaveInitiated(h)
  PROVE  IdentityInv'
<1>0. handler[h].op = "initiate" /\ handler[h].at = "save" /\ handler[h].customer \in People
  BY CallShape DEF SaveInitiated, IdentityInv, IdentityTyped
<1>1. PICK v \in Verifications \ Used :
        /\ verified' = [verified EXCEPT ![v] =
             [customer |-> handler[h].customer, status |-> "INITIATED", ref |-> 0]]
        /\ handler' = [handler EXCEPT ![h] =
             [op |-> "initiate", at |-> "ask", customer |-> handler[h].customer, v |-> v]]
  BY DEF SaveInitiated, Handle
<1>2. UNCHANGED <<provider, checkOf, decided, leftBehind, overlapped>>
  BY DEF SaveInitiated
<1>3. PICK c \in People : c = handler[h].customer
  BY <1>0
<1>4. PICK call : call = [op |-> "initiate", at |-> "ask", customer |-> c, v |-> v]
  OBVIOUS
<1>5. PICK row : row = [customer |-> c, status |-> "INITIATED", ref |-> 0]
  OBVIOUS
<1>6. /\ call.op = "initiate" /\ call.at = "ask" /\ call.customer = c /\ call.v = v
      /\ call \in IdentityCalls
  BY <1>4 DEF IdentityCalls
<1>7. row.customer = c /\ row.status = "INITIATED" /\ row.ref = 0 /\ row \in VerifiedRows
  BY <1>5 DEF VerifiedRows
<1>8. /\ handler' \in [Handlers -> IdentityCalls] /\ handler'[h] = call
      /\ \A g \in Handlers : g # h => handler'[g] = handler[g]
  <2>1. handler' = [handler EXCEPT ![h] = call]
    BY <1>1, <1>3, <1>4
  <2> QED
    BY <1>6, <2>1 DEF IdentityInv, IdentityTyped
<1>9. /\ verified' \in [Verifications -> VerifiedRows] /\ verified'[v] = row
      /\ \A w \in Verifications : w # v => verified'[w] = verified[w]
  <2>1. verified' = [verified EXCEPT ![v] = row]
    BY <1>1, <1>3, <1>5
  <2> QED
    BY <1>7, <2>1 DEF IdentityInv, IdentityTyped
<1>10. verified[v].status = "none" /\ checkOf[v] = "unknown" /\ v \in Verifications
  BY UsedRows DEF IdentityInv, RowsKept
<1>11. IdentityTyped'
  BY <1>2, <1>8, <1>9 DEF IdentityInv, IdentityTyped
<1>12. RowsKept'
  BY <1>2, <1>7, <1>9 DEF IdentityInv, RowsKept
<1>13. \A g \in Handlers : g # h => (Asking(g)' <=> Asking(g))
  BY <1>8 DEF Asking
<1>14. \A g \in Handlers : Asking(g) \/ handler[g].op = "webhook" => handler[g].v # v
  BY <1>10 DEF IdentityInv, CallsTrue
<1>15. CallsTrue'
  <2>1. ASSUME NEW g \in Handlers, Asking(g)'
        PROVE  /\ verified'[handler'[g].v].status # "none"
               /\ verified'[handler'[g].v].customer = handler'[g].customer
               /\ handler'[g].at = "ask" => checkOf'[handler'[g].v] = "unknown"
    <3>1. CASE g = h
      BY <1>2, <1>6, <1>7, <1>8, <1>9, <1>10, <3>1
    <3>2. CASE g # h
      <4>1. Asking(g) /\ handler'[g] = handler[g] /\ handler[g].v \in Verifications
        BY <1>8, <1>13, <2>1, <3>2, CallShape DEF IdentityInv, IdentityTyped, Asking
      <4>2. verified'[handler[g].v] = verified[handler[g].v]
        BY <1>9, <1>14, <4>1
      <4> QED
        BY <1>2, <4>1, <4>2 DEF IdentityInv, CallsTrue
    <3> QED
      BY <3>1, <3>2
  <2>2. \A g, k \in Handlers : Asking(g)' /\ Asking(k)' /\ handler'[g].v = handler'[k].v => g = k
    BY <1>6, <1>8, <1>13, <1>14 DEF IdentityInv, CallsTrue
  <2>3. ASSUME NEW g \in Handlers, handler'[g].op = "webhook"
        PROVE  /\ verified'[handler'[g].v].status # "none"
               /\ checkOf'[handler'[g].about] # "unknown"
               /\ provider' = "JUMIO" => handler'[g].about = handler'[g].v
               /\ handler'[g].at = "write" /\ handler'[g].result = "passed" =>
                    checkOf'[handler'[g].about] = "passed"
    <3>1. g # h /\ handler'[g] = handler[g]
      BY <1>6, <1>8, <2>3
    <3>2. handler[g].v # v /\ handler[g].v \in Verifications
      BY <1>14, <2>3, <3>1, CallShape DEF IdentityInv, IdentityTyped
    <3>3. verified'[handler[g].v] = verified[handler[g].v]
      BY <1>9, <3>2
    <3> QED
      BY <1>2, <2>3, <3>1, <3>3 DEF IdentityInv, CallsTrue
  <2> QED
    BY <2>1, <2>2, <2>3 DEF CallsTrue
<1>16. Grounded'
  <2>1. \A w \in Verifications : verified'[w].status = "APPROVED" => verified[w].status = "APPROVED"
    BY <1>7, <1>9
  <2> QED
    BY <1>2, <2>1 DEF IdentityInv, Grounded, HasGrounds
<1>17. Accounted'
  <2> SUFFICES ASSUME NEW w \in Verifications, verified'[w].status = "INITIATED"
               PROVE  w \in leftBehind' \/ \E g \in Handlers : Asking(g)' /\ handler'[g].v = w
    BY DEF Accounted
  <2>1. CASE w = v
    BY <1>6, <1>8, <2>1 DEF Asking
  <2>2. CASE w # v
    <3>1. w \in leftBehind \/ \E g \in Handlers : Asking(g) /\ handler[g].v = w
      BY <1>9, <2>2 DEF IdentityInv, Accounted
    <3>2. \A g \in Handlers : Asking(g) => g # h
      BY <1>0 DEF Asking
    <3> QED
      BY <1>2, <1>8, <1>13, <3>1, <3>2
  <2> QED
    BY <2>1, <2>2
<1>18. OneByOne'
  <2> SUFFICES ASSUME NEW x \in People \ overlapped'
               PROVE  /\ \A g, k \in Handlers : RunsFor(g, x)' /\ RunsFor(k, x)' => g = k
                      /\ \A u, w \in Verifications : ActiveRow(u, x)' /\ ActiveRow(w, x)' => u = w
                      /\ \A k \in Handlers, u \in Verifications :
                           RunsFor(k, x)' /\ ActiveRow(u, x)' => Asking(k)' /\ handler'[k].v = u
    BY DEF OneByOne
  <2>1. x \in People \ overlapped
    BY <1>2
  <2>2. \A g \in Handlers : RunsFor(g, x)' <=> RunsFor(g, x)
    BY <1>0, <1>3, <1>6, <1>8 DEF RunsFor
  <2>3. \A u \in Verifications : u # v => (ActiveRow(u, x)' <=> ActiveRow(u, x))
    BY <1>9 DEF ActiveRow, Active
  <2>4. CASE x # c
    <3>1. ~ActiveRow(v, x)'
      BY <1>7, <1>9, <2>4 DEF ActiveRow
    <3>2. \A k \in Handlers : RunsFor(k, x) => k # h
      BY <1>3, <2>4 DEF RunsFor
    <3> QED
      BY <1>8, <1>13, <2>1, <2>2, <2>3, <3>1, <3>2 DEF IdentityInv, OneByOne
  <2>5. CASE x = c
    <3>1. RunsFor(h, x)
      BY <1>0, <1>3, <2>5 DEF RunsFor
    <3>2. ~Asking(h)
      BY <1>0 DEF Asking
    <3>3. \A u \in Verifications : ~ActiveRow(u, x)
      BY <2>1, <3>1, <3>2 DEF IdentityInv, OneByOne
    <3>4. \A k \in Handlers : RunsFor(k, x) => k = h
      BY <2>1, <3>1 DEF IdentityInv, OneByOne
    <3>5. \A u \in Verifications : ActiveRow(u, x)' => u = v
      BY <2>3, <3>3
    <3>6. Asking(h)' /\ handler'[h].v = v
      BY <1>6, <1>8 DEF Asking
    <3> QED
      BY <2>2, <3>4, <3>5, <3>6
  <2> QED
    BY <2>4, <2>5
<1> QED
  BY <1>11, <1>12, <1>15, <1>16, <1>17, <1>18 DEF IdentityInv

(* The provider is asked about it.                                         *)
LEMMA AskProviderKeeps ==
  ASSUME IdentityInv, NEW h \in Handlers, AskProvider(h)
  PROVE  IdentityInv'
<1>0. PICK call : call = handler[h]
  OBVIOUS
<1>1. /\ call.op = "initiate" /\ call.at = "ask" /\ call.customer \in People
      /\ call.v \in Verifications
      /\ call = [op |-> "initiate", at |-> "ask", customer |-> call.customer, v |-> call.v]
  BY <1>0, CallShape DEF AskProvider, IdentityInv, IdentityTyped
<1>2. PICK next : next = [op |-> "initiate", at |-> "pend", customer |-> call.customer, v |-> call.v]
  OBVIOUS
<1>3. /\ next.op = "initiate" /\ next.at = "pend" /\ next.customer = call.customer
      /\ next.v = call.v /\ next \in IdentityCalls
  BY <1>1, <1>2 DEF IdentityCalls
<1>4. [call EXCEPT !.at = "pend"] = next
  BY <1>1, <1>2
<1>5. /\ handler' \in [Handlers -> IdentityCalls] /\ handler'[h] = next
      /\ \A g \in Handlers : g # h => handler'[g] = handler[g]
  <2>1. handler' = [handler EXCEPT ![h] = next]
    BY <1>0, <1>4 DEF AskProvider
  <2> QED
    BY <1>3, <2>1 DEF IdentityInv, IdentityTyped
<1>6. /\ checkOf' \in [Verifications -> CheckStates] /\ checkOf'[call.v] = "started"
      /\ \A w \in Verifications : w # call.v => checkOf'[w] = checkOf[w]
  BY <1>0, <1>1 DEF AskProvider, IdentityInv, IdentityTyped, CheckStates
<1>7. UNCHANGED <<provider, verified, decided, leftBehind, overlapped>>
  BY DEF AskProvider
<1>8. checkOf[call.v] = "unknown" /\ verified[call.v].status # "none"
  BY <1>0, <1>1 DEF IdentityInv, CallsTrue, Asking
<1>9. \A w \in Verifications : /\ checkOf[w] = "passed" => checkOf'[w] = "passed"
                               /\ checkOf[w] # "unknown" => checkOf'[w] # "unknown"
  BY <1>6, <1>8
<1>10. \A g \in Handlers : /\ Asking(g)' <=> Asking(g)
                           /\ handler'[g].op = handler[g].op
                           /\ Asking(g) => /\ handler'[g].v = handler[g].v
                                           /\ handler'[g].customer = handler[g].customer
                           /\ handler[g].op = "webhook" => handler'[g] = handler[g]
  BY <1>0, <1>1, <1>3, <1>5 DEF Asking
<1>11. IdentityTyped'
  BY <1>5, <1>6, <1>7 DEF IdentityInv, IdentityTyped
<1>12. RowsKept'
  BY <1>6, <1>7, <1>8 DEF IdentityInv, RowsKept
<1>13. CallsTrue'
  <2>1. ASSUME NEW g \in Handlers, Asking(g)'
        PROVE  /\ verified'[handler'[g].v].status # "none"
               /\ verified'[handler'[g].v].customer = handler'[g].customer
               /\ handler'[g].at = "ask" => checkOf'[handler'[g].v] = "unknown"
    <3>1. Asking(g) /\ handler[g].v \in Verifications
      BY <1>10, <2>1, CallShape DEF Asking, IdentityInv, IdentityTyped
    <3>2. handler'[g].at = "ask" => g # h /\ handler'[g] = handler[g]
      BY <1>3, <1>5
    <3>3. g # h => handler[g].v # call.v
      BY <1>0, <1>1, <3>1 DEF IdentityInv, CallsTrue, Asking
    <3> QED
      BY <1>6, <1>7, <1>10, <3>1, <3>2, <3>3 DEF IdentityInv, CallsTrue
  <2>2. \A g, k \in Handlers : Asking(g)' /\ Asking(k)' /\ handler'[g].v = handler'[k].v => g = k
    BY <1>10 DEF IdentityInv, CallsTrue
  <2>3. ASSUME NEW g \in Handlers, handler'[g].op = "webhook"
        PROVE  /\ verified'[handler'[g].v].status # "none"
               /\ checkOf'[handler'[g].about] # "unknown"
               /\ provider' = "JUMIO" => handler'[g].about = handler'[g].v
               /\ handler'[g].at = "write" /\ handler'[g].result = "passed" =>
                    checkOf'[handler'[g].about] = "passed"
    <3>1. handler'[g] = handler[g] /\ handler[g].op = "webhook" /\ handler[g].about \in Verifications
      BY <1>10, <2>3, CallShape DEF IdentityInv, IdentityTyped
    <3> QED
      BY <1>7, <1>9, <3>1 DEF IdentityInv, CallsTrue
  <2> QED
    BY <2>1, <2>2, <2>3 DEF CallsTrue
<1>14. Grounded'
  BY <1>7, <1>9 DEF IdentityInv, Grounded, HasGrounds
<1>15. Accounted'
  BY <1>7, <1>10 DEF IdentityInv, Accounted
<1>16. OneByOne'
  <2>1. \A g \in Handlers, c \in People : RunsFor(g, c)' => RunsFor(g, c)
    BY <1>0, <1>1, <1>3, <1>5 DEF RunsFor
  <2>2. \A v \in Verifications, c \in People : ActiveRow(v, c)' => ActiveRow(v, c)
    BY <1>7 DEF ActiveRow, Active
  <2> QED
    BY <1>7, <1>10, <2>1, <2>2, NoMoreActive
<1> QED
  BY <1>11, <1>12, <1>13, <1>14, <1>15, <1>16 DEF IdentityInv

(* A call or webhook ends, having perhaps written its row.                 *)
LEMMA CallEnds ==
  ASSUME IdentityInv, NEW h \in Handlers, Handle(h, NotCalled), UNCHANGED <<provider, checkOf>>,
         \A v \in Verifications : /\ verified'[v].customer = verified[v].customer
                                  /\ verified[v].status # "none" => verified'[v].status # "none"
  PROVE  /\ handler' \in [Handlers -> IdentityCalls] /\ handler'[h].op = "away"
         /\ \A g \in Handlers : g # h => handler'[g] = handler[g] /\ (Asking(g)' <=> Asking(g))
         /\ CallsTrue'
<1>1. /\ handler' \in [Handlers -> IdentityCalls] /\ handler'[h] = NotCalled
      /\ \A g \in Handlers : g # h => handler'[g] = handler[g]
  BY DEF Handle, IdentityInv, IdentityTyped, IdentityCalls
<1>2. handler'[h].op = "away" /\ ~Asking(h)'
  BY <1>1 DEF NotCalled, Asking
<1>3. \A g \in Handlers : g # h => handler'[g] = handler[g] /\ (Asking(g)' <=> Asking(g))
  BY <1>1 DEF Asking
<1>4. \A g \in Handlers : Asking(g) \/ handler[g].op = "webhook" => handler[g].v \in Verifications
  BY CallShape DEF Asking, IdentityInv, IdentityTyped
<1>5. \A g \in Handlers : Asking(g)' => g # h
  BY <1>2
<1>6. \A g \in Handlers : handler'[g].op = "webhook" => g # h
  BY <1>2
<1>7. CallsTrue'
  BY <1>3, <1>4, <1>5, <1>6 DEF IdentityInv, CallsTrue
<1> QED
  BY <1>1, <1>2, <1>3, <1>7

(* A provider that does not answer leaves the row behind.                  *)
LEMMA ProviderFailsKeeps ==
  ASSUME IdentityInv, NEW h \in Handlers, ProviderFails(h)
  PROVE  IdentityInv'
<1>1. /\ Asking(h) /\ handler[h].v \in Verifications /\ Handle(h, NotCalled)
      /\ leftBehind' = leftBehind \cup {handler[h].v} /\ Cardinality(leftBehind) < MaxRefusals
      /\ UNCHANGED <<provider, verified, checkOf, decided, overlapped>>
  BY CallShape DEF ProviderFails, Asking, IdentityInv, IdentityTyped
<1>2. /\ handler' \in [Handlers -> IdentityCalls] /\ handler'[h].op = "away"
      /\ \A g \in Handlers : g # h => handler'[g] = handler[g] /\ (Asking(g)' <=> Asking(g))
      /\ CallsTrue'
  BY <1>1, CallEnds
<1>3. leftBehind' \subseteq Verifications /\ Cardinality(leftBehind') <= MaxRefusals
  <2>1. leftBehind \subseteq Verifications
    BY DEF IdentityInv, IdentityTyped
  <2>2. IsFiniteSet(leftBehind) /\ Cardinality(leftBehind) \in Nat
    BY <2>1, KycConstants, FS_Subset, FS_CardinalityType
  <2>3. Cardinality(leftBehind') <= Cardinality(leftBehind) + 1 /\ Cardinality(leftBehind') \in Nat
    <3>1. PICK v : v = handler[h].v
      OBVIOUS
    <3>2. Cardinality(leftBehind \cup {v}) \in {Cardinality(leftBehind), Cardinality(leftBehind) + 1}
      BY <2>2, FS_AddElement
    <3> QED
      BY <1>1, <2>2, <3>1, <3>2
  <2> QED
    BY <1>1, <2>1, <2>2, <2>3, KycConstants
<1>4. IdentityTyped'
  BY <1>1, <1>2, <1>3 DEF IdentityInv, IdentityTyped
<1>5. RowsKept' /\ Grounded'
  BY <1>1 DEF IdentityInv, RowsKept, Grounded, HasGrounds
<1>6. Accounted'
  BY <1>1, <1>2 DEF IdentityInv, Accounted
<1>7. OneByOne'
  <2>1. \A g \in Handlers, c \in People : RunsFor(g, c)' => RunsFor(g, c)
    BY <1>2 DEF RunsFor
  <2>2. \A v \in Verifications, c \in People : ActiveRow(v, c)' => ActiveRow(v, c)
    BY <1>1 DEF ActiveRow, Active
  <2>3. \A g \in Handlers : Asking(g) /\ handler'[g].op = "initiate" =>
          Asking(g)' /\ handler'[g].v = handler[g].v
    BY <1>2
  <2> QED
    BY <1>1, <2>1, <2>2, <2>3, NoMoreActive
<1> QED
  BY <1>2, <1>4, <1>5, <1>6, <1>7 DEF IdentityInv

(* The row is pending again, whatever was decided about it meanwhile.      *)
LEMMA WritePendingKeeps ==
  ASSUME IdentityInv, NEW h \in Handlers, WritePending(h)
  PROVE  IdentityInv'
<1>1. PICK v \in Verifications : v = handler[h].v
  BY CallShape DEF WritePending, IdentityInv, IdentityTyped
<1>2. /\ Asking(h) /\ Handle(h, NotCalled) /\ handler[h].customer = verified[v].customer
      /\ verified[v].status # "none" /\ UNCHANGED <<provider, checkOf, leftBehind, overlapped>>
  BY <1>1 DEF WritePending, Asking, IdentityInv, CallsTrue
<1>3. PICK row \in VerifiedRows :
        /\ row = [verified[v] EXCEPT !.status = "PENDING", !.ref = v]
        /\ row.status = "PENDING" /\ row.ref = v /\ row.customer = verified[v].customer
  <2>1. PICK old \in VerifiedRows : old = verified[v]
    BY DEF IdentityInv, IdentityTyped
  <2>2. PICK new : new = [old EXCEPT !.status = "PENDING", !.ref = v]
    OBVIOUS
  <2>3. new \in VerifiedRows
    BY <2>1, <2>2 DEF VerifiedRows
  <2>4. new.status = "PENDING" /\ new.ref = v /\ new.customer = old.customer
    BY <2>1, <2>2 DEF VerifiedRows
  <2> QED
    BY <2>1, <2>2, <2>3, <2>4
<1>4. /\ verified' \in [Verifications -> VerifiedRows] /\ verified'[v] = row
      /\ \A w \in Verifications : w # v => verified'[w] = verified[w]
  <2>1. verified' = [verified EXCEPT ![v] = row]
    BY <1>1, <1>3 DEF WritePending, IdentityInv, IdentityTyped
  <2> QED
    BY <2>1 DEF IdentityInv, IdentityTyped
<1>5. /\ decided' \in [Verifications -> [by : {"none", "provider", "officer"},
                                         on : {0} \cup Verifications]]
      /\ \A w \in Verifications : w # v => decided'[w] = decided[w]
  BY <1>1 DEF WritePending, IdentityInv, IdentityTyped, Undecided
<1>6. \A w \in Verifications : /\ verified'[w].customer = verified[w].customer
                               /\ verified[w].status # "none" => verified'[w].status # "none"
  BY <1>3, <1>4
<1>7. /\ handler' \in [Handlers -> IdentityCalls] /\ handler'[h].op = "away"
      /\ \A g \in Handlers : g # h => handler'[g] = handler[g] /\ (Asking(g)' <=> Asking(g))
      /\ CallsTrue'
  BY <1>2, <1>6, CallEnds
<1>8. IdentityTyped'
  BY <1>2, <1>4, <1>5, <1>7 DEF IdentityInv, IdentityTyped
<1>9. RowsKept'
  BY <1>2, <1>3, <1>4 DEF IdentityInv, RowsKept
<1>10. Grounded'
  <2> SUFFICES ASSUME NEW w \in Verifications, verified'[w].status = "APPROVED"
               PROVE  HasGrounds(w)'
    BY DEF Grounded
  <2>1. w # v /\ verified[w].status = "APPROVED" /\ decided'[w] = decided[w]
    BY <1>3, <1>4, <1>5
  <2>2. HasGrounds(w)
    BY <2>1 DEF IdentityInv, Grounded
  <2> QED
    BY <1>2, <2>1, <2>2 DEF HasGrounds
<1>11. Accounted'
  <2> SUFFICES ASSUME NEW w \in Verifications, verified'[w].status = "INITIATED"
               PROVE  w \in leftBehind' \/ \E g \in Handlers : Asking(g)' /\ handler'[g].v = w
    BY DEF Accounted
  <2>1. w # v /\ verified[w].status = "INITIATED"
    BY <1>3, <1>4
  <2>2. w \in leftBehind \/ \E g \in Handlers : Asking(g) /\ handler[g].v = w
    BY <2>1 DEF IdentityInv, Accounted
  <2> QED
    BY <1>1, <1>2, <1>7, <2>1, <2>2
<1>12. OneByOne'
  <2> SUFFICES ASSUME NEW x \in People \ overlapped'
               PROVE  /\ \A g, k \in Handlers : RunsFor(g, x)' /\ RunsFor(k, x)' => g = k
                      /\ \A u, w \in Verifications : ActiveRow(u, x)' /\ ActiveRow(w, x)' => u = w
                      /\ \A k \in Handlers, u \in Verifications :
                           RunsFor(k, x)' /\ ActiveRow(u, x)' => Asking(k)' /\ handler'[k].v = u
    BY DEF OneByOne
  <2>1. x \in People \ overlapped
    BY <1>2
  <2>2. \A g \in Handlers : RunsFor(g, x)' => g # h /\ RunsFor(g, x)
    BY <1>7 DEF RunsFor
  <2>3. \A u \in Verifications : u # v => (ActiveRow(u, x)' <=> ActiveRow(u, x))
    BY <1>4 DEF ActiveRow, Active
  <2>4. CASE RunsFor(h, x)
    <3>1. \A u \in Verifications : ActiveRow(u, x) => u = v
      BY <1>1, <2>1, <2>4 DEF IdentityInv, OneByOne
    <3>2. \A k \in Handlers : ~RunsFor(k, x)'
      BY <2>1, <2>2, <2>4 DEF IdentityInv, OneByOne
    <3> QED
      BY <2>3, <3>1, <3>2
  <2>5. CASE ~RunsFor(h, x)
    <3>1. verified[v].customer # x
      BY <1>2, <2>5 DEF RunsFor, Asking
    <3>2. ~ActiveRow(v, x)' /\ ~ActiveRow(v, x)
      BY <1>3, <1>4, <3>1 DEF ActiveRow
    <3> QED
      BY <1>7, <2>1, <2>2, <2>3, <3>2 DEF IdentityInv, OneByOne
  <2> QED
    BY <2>4, <2>5
<1> QED
  BY <1>7, <1>8, <1>9, <1>10, <1>11, <1>12 DEF IdentityInv

(* A decision of the provider, known to it alone until its webhook.        *)
LEMMA ProviderDecidesKeeps ==
  ASSUME IdentityInv, NEW v \in Verifications, NEW result \in Results, ProviderDecides(v, result)
  PROVE  IdentityInv'
<1>1. /\ checkOf[v] = "started" /\ checkOf'[v] = result
      /\ checkOf' \in [Verifications -> CheckStates]
      /\ \A w \in Verifications : w # v => checkOf'[w] = checkOf[w]
      /\ UNCHANGED <<provider, verified, handler, decided, leftBehind, overlapped>>
  BY DEF ProviderDecides, IdentityInv, IdentityTyped, CheckStates
<1>2. result # "unknown"
  BY KycConstants
<1>3. \A w \in Verifications : /\ checkOf[w] = "passed" => checkOf'[w] = "passed"
                               /\ checkOf[w] # "unknown" <=> checkOf'[w] # "unknown"
  BY <1>1, <1>2
<1>4. IdentityTyped'
  BY <1>1 DEF IdentityInv, IdentityTyped
<1>5. RowsKept' /\ Grounded'
  BY <1>1, <1>3 DEF IdentityInv, RowsKept, Grounded, HasGrounds
<1>6. \A g \in Handlers : (Asking(g)' <=> Asking(g)) /\
        (Asking(g) => handler[g].v \in Verifications) /\
        (handler[g].op = "webhook" => handler[g].about \in Verifications)
  BY <1>1, CallShape DEF Asking, IdentityInv, IdentityTyped
<1>7. CallsTrue'
  BY <1>1, <1>3, <1>6 DEF IdentityInv, CallsTrue
<1>8. Accounted'
  BY <1>1, <1>6 DEF IdentityInv, Accounted
<1>9. OneByOne'
  <2>1. \A g \in Handlers, c \in People : RunsFor(g, c)' => RunsFor(g, c)
    BY <1>1 DEF RunsFor
  <2>2. \A w \in Verifications, c \in People : ActiveRow(w, c)' => ActiveRow(w, c)
    BY <1>1 DEF ActiveRow, Active
  <2> QED
    BY <1>1, <1>6, <2>1, <2>2, NoMoreActive
<1> QED
  BY <1>4, <1>5, <1>7, <1>8, <1>9 DEF IdentityInv

(* A webhook goes on: nothing but what it knows changes.                   *)
LEMMA WebhookGoesOn ==
  ASSUME IdentityInv, NEW h \in Handlers, NEW call \in IdentityCalls, Handle(h, call),
         handler[h].op # "initiate", call.op = "webhook",
         UNCHANGED <<provider, verified, checkOf, decided, leftBehind, overlapped>>,
         verified[call.v].status # "none", checkOf[call.about] # "unknown",
         provider = "JUMIO" => call.about = call.v,
         call.at = "write" /\ call.result = "passed" => checkOf[call.about] = "passed"
  PROVE  IdentityInv'
<1>1. /\ handler' \in [Handlers -> IdentityCalls] /\ handler'[h] = call
      /\ \A g \in Handlers : g # h => handler'[g] = handler[g]
  BY DEF Handle, IdentityInv, IdentityTyped
<1>2. IdentityTyped'
  BY <1>1 DEF IdentityInv, IdentityTyped
<1>3. RowsKept' /\ Grounded'
  BY DEF IdentityInv, RowsKept, Grounded, HasGrounds
<1>4. \A g \in Handlers : /\ Asking(g)' <=> Asking(g)
                          /\ Asking(g) => g # h
  BY <1>1 DEF Asking
<1>5. CallsTrue'
  BY <1>1, <1>4 DEF IdentityInv, CallsTrue
<1>6. Accounted'
  BY <1>1, <1>4 DEF IdentityInv, Accounted
<1>7. OneByOne'
  <2>1. \A g \in Handlers, c \in People : RunsFor(g, c)' => RunsFor(g, c)
    BY <1>1 DEF RunsFor
  <2>2. \A w \in Verifications, c \in People : ActiveRow(w, c)' => ActiveRow(w, c)
    BY DEF ActiveRow, Active
  <2> QED
    BY <1>1, <1>4, <2>1, <2>2, NoMoreActive
<1> QED
  BY <1>2, <1>3, <1>5, <1>6, <1>7 DEF IdentityInv

(* A webhook fetches the result and finds its row.                         *)
LEMMA WebhookKeeps ==
  ASSUME IdentityInv, NEW h \in Handlers,
         FetchResult(h) \/ \E v \in Verifications : FindVerification(h, v)
  PROVE  IdentityInv'
<1>1. CASE FetchResult(h)
  <2>0. PICK call : call = handler[h]
    OBVIOUS
  <2>1. /\ call.op = "webhook" /\ call.at = "fetch" /\ call.about \in Verifications
        /\ call.v \in Verifications
    BY <1>1, <2>0, CallShape DEF FetchResult, IdentityInv, IdentityTyped
  <2>2. PICK next : next = [op |-> "webhook", at |-> "write", about |-> call.about, v |-> call.v,
                            result |-> checkOf[call.about]]
    OBVIOUS
  <2>3. checkOf[call.about] \in CheckStates
    BY <2>1 DEF IdentityInv, IdentityTyped
  <2>4. /\ next.op = "webhook" /\ next.about = call.about /\ next.v = call.v
        /\ next.result = checkOf[call.about] /\ next \in IdentityCalls
    BY <2>1, <2>2, <2>3 DEF IdentityCalls
  <2>5. Handle(h, next) /\ UNCHANGED <<provider, verified, checkOf, decided, leftBehind, overlapped>>
    BY <1>1, <2>0, <2>2 DEF FetchResult
  <2>6. /\ verified[call.v].status # "none" /\ checkOf[call.about] # "unknown"
        /\ provider = "JUMIO" => call.about = call.v
    BY <2>0, <2>1 DEF IdentityInv, CallsTrue
  <2>7. handler[h].op # "initiate"
    BY <2>0, <2>1
  <2> QED
    BY <2>4, <2>5, <2>6, <2>7, WebhookGoesOn
<1>2. ASSUME NEW v \in Verifications, FindVerification(h, v) PROVE IdentityInv'
  <2>1. PICK w \in Used :
          /\ Matches(v, w)
          /\ Handle(h, [op |-> "webhook", at |-> "fetch", about |-> v, v |-> w])
    BY <1>2 DEF FindVerification
  <2>2. PICK next : next = [op |-> "webhook", at |-> "fetch", about |-> v, v |-> w]
    OBVIOUS
  <2>3. w \in Verifications /\ verified[w].status # "none" /\ verified[w].ref \in {0, w}
    BY UsedRows DEF Used, IdentityInv, RowsKept
  <2>4. /\ next.op = "webhook" /\ next.at = "fetch" /\ next.about = v /\ next.v = w
        /\ next \in IdentityCalls
    BY <2>2, <2>3 DEF IdentityCalls
  <2>5. /\ Handle(h, next) /\ UNCHANGED <<provider, verified, checkOf, decided, leftBehind, overlapped>>
        /\ checkOf[v] # "unknown" /\ handler[h] = NotCalled
    BY <1>2, <2>1, <2>2 DEF FindVerification
  <2>6. handler[h].op # "initiate"
    BY <2>5 DEF NotCalled
  <2>7. provider = "JUMIO" => v = w
    BY <2>1, <2>3, Numbered DEF Matches
  <2> QED
    BY <2>3, <2>4, <2>5, <2>6, <2>7, WebhookGoesOn
<1> QED
  BY <1>1, <1>2

(* A decision: the row is active no more, and approved on grounds only.    *)
LEMMA DecideKeeps ==
  ASSUME IdentityInv, NEW v \in Verifications, NEW who, NEW status,
         who \in [by : {"provider", "officer"}, on : Verifications],
         status \in {"APPROVED", "DECLINED", "REVIEW_REQUIRED"},
         verified[v].status # "none", Decide(v, status, who), UNCHANGED <<provider, checkOf, leftBehind>>,
         \/ UNCHANGED handler
         \/ \E h \in Handlers : handler[h].op = "webhook" /\ Handle(h, NotCalled),
         status = "APPROVED" =>
           \/ who.by = "officer"
           \/ /\ checkOf[who.on] = "passed"
              /\ who.on = v \/ (provider = "ONFIDO" /\ checkOf[who.on] # "unknown")
  PROVE  IdentityInv'
<1>1. PICK old \in VerifiedRows : old = verified[v]
  BY DEF IdentityInv, IdentityTyped
<1>2. PICK row : row = [old EXCEPT !.status = status]
  OBVIOUS
<1>3. row \in VerifiedRows /\ row.status = status /\ row.customer = old.customer /\ row.ref = old.ref
  BY <1>1, <1>2 DEF VerifiedRows
<1>4. /\ verified' \in [Verifications -> VerifiedRows] /\ verified'[v] = row
      /\ \A w \in Verifications : w # v => verified'[w] = verified[w]
  <2>1. verified' = [verified EXCEPT ![v] = row]
    BY <1>1, <1>2 DEF Decide, IdentityInv, IdentityTyped
  <2> QED
    BY <1>3, <2>1 DEF IdentityInv, IdentityTyped
<1>5. /\ decided' \in [Verifications -> [by : {"none", "provider", "officer"},
                                         on : {0} \cup Verifications]]
      /\ decided'[v] = who /\ \A w \in Verifications : w # v => decided'[w] = decided[w]
  BY DEF Decide, IdentityInv, IdentityTyped
<1>6. overlapped \subseteq overlapped' /\ overlapped' \subseteq People
  <2>1. Running(verified[v].customer) # {} => verified[v].customer \in People
    BY CallShape DEF Running, IdentityInv, IdentityTyped
  <2> QED
    BY <2>1 DEF Decide, IdentityInv, IdentityTyped
<1>7. \A w \in Verifications : /\ verified'[w].customer = verified[w].customer
                               /\ verified[w].status # "none" => verified'[w].status # "none"
  BY <1>1, <1>3, <1>4
<1>8. /\ handler' \in [Handlers -> IdentityCalls] /\ CallsTrue'
      /\ \A g \in Handlers : /\ Asking(g) => Asking(g)' /\ handler'[g] = handler[g]
                             /\ handler'[g].op = "initiate" => handler'[g] = handler[g]
  <2>1. CASE UNCHANGED handler
    <3>1. \A g \in Handlers : (Asking(g)' <=> Asking(g)) /\ handler'[g] = handler[g]
      BY <2>1 DEF Asking
    <3>2. \A g \in Handlers : Asking(g) \/ handler[g].op = "webhook" => handler[g].v \in Verifications
      BY CallShape DEF Asking, IdentityInv, IdentityTyped
    <3>3. CallsTrue'
      BY <1>7, <2>1, <3>1, <3>2 DEF IdentityInv, CallsTrue
    <3> QED
      BY <2>1, <3>1, <3>3 DEF IdentityInv, IdentityTyped
  <2>2. ASSUME NEW h \in Handlers, handler[h].op = "webhook", Handle(h, NotCalled)
        PROVE  /\ handler' \in [Handlers -> IdentityCalls] /\ CallsTrue'
               /\ \A g \in Handlers : /\ Asking(g) => Asking(g)' /\ handler'[g] = handler[g]
                                      /\ handler'[g].op = "initiate" => handler'[g] = handler[g]
    <3>1. /\ handler' \in [Handlers -> IdentityCalls] /\ handler'[h].op = "away"
          /\ \A g \in Handlers : g # h => handler'[g] = handler[g] /\ (Asking(g)' <=> Asking(g))
          /\ CallsTrue'
      BY <1>7, <2>2, CallEnds
    <3>2. ~Asking(h)
      BY <2>2 DEF Asking
    <3> QED
      BY <3>1, <3>2
  <2> QED
    BY <2>1, <2>2
<1>9. IdentityTyped'
  BY <1>4, <1>5, <1>6, <1>8 DEF IdentityInv, IdentityTyped
<1>10. RowsKept'
  BY <1>1, <1>3, <1>4 DEF IdentityInv, RowsKept
<1>11. Grounded'
  <2> SUFFICES ASSUME NEW w \in Verifications, verified'[w].status = "APPROVED"
               PROVE  HasGrounds(w)'
    BY DEF Grounded
  <2>1. CASE w # v
    <3>1. HasGrounds(w) /\ decided'[w] = decided[w]
      BY <1>4, <1>5, <2>1 DEF IdentityInv, Grounded
    <3> QED
      BY <3>1 DEF HasGrounds
  <2>2. CASE w = v
    <3>1. decided'[w] = who /\ status = "APPROVED"
      BY <1>3, <1>4, <1>5, <2>2
    <3> QED
      BY <2>2, <3>1 DEF HasGrounds
  <2> QED
    BY <2>1, <2>2
<1>12. Accounted'
  <2> SUFFICES ASSUME NEW w \in Verifications, verified'[w].status = "INITIATED"
               PROVE  w \in leftBehind' \/ \E g \in Handlers : Asking(g)' /\ handler'[g].v = w
    BY DEF Accounted
  <2>1. verified[w].status = "INITIATED"
    BY <1>3, <1>4
  <2> QED
    BY <1>8, <2>1 DEF IdentityInv, Accounted
<1>13. OneByOne'
  <2>1. \A g \in Handlers, c \in People : RunsFor(g, c)' => RunsFor(g, c)
    BY <1>8 DEF RunsFor
  <2>2. \A w \in Verifications, c \in People : ActiveRow(w, c)' => ActiveRow(w, c)
    BY <1>1, <1>3, <1>4 DEF ActiveRow, Active
  <2> QED
    BY <1>6, <1>8, <2>1, <2>2, NoMoreActive
<1> QED
  BY <1>8, <1>9, <1>10, <1>11, <1>12, <1>13 DEF IdentityInv

(* The row takes the result it was called with.                            *)
LEMMA WriteResultKeeps ==
  ASSUME IdentityInv, NEW h \in Handlers, WriteResult(h)
  PROVE  IdentityInv'
<1>0. PICK call : call = handler[h]
  OBVIOUS
<1>1. /\ call.op = "webhook" /\ call.at = "write" /\ call.about \in Verifications
      /\ call.v \in Verifications /\ call.result \in CheckStates
  BY <1>0, CallShape DEF WriteResult, IdentityInv, IdentityTyped
<1>2. PICK who : who = [by |-> "provider", on |-> call.about]
  OBVIOUS
<1>3. PICK status : status = Mapped(call.result)
  OBVIOUS
<1>4. /\ who.by = "provider" /\ who.on = call.about
      /\ who \in [by : {"provider", "officer"}, on : Verifications]
  BY <1>1, <1>2
<1>5. /\ status \in {"APPROVED", "DECLINED", "REVIEW_REQUIRED"}
      /\ status = "APPROVED" => call.result = "passed"
  BY <1>1, <1>3, KycConstants DEF Mapped, CheckStates
<1>6. /\ verified[call.v].status # "none" /\ checkOf[call.about] # "unknown"
      /\ provider = "JUMIO" => call.about = call.v
      /\ call.result = "passed" => checkOf[call.about] = "passed"
  BY <1>0, <1>1 DEF IdentityInv, CallsTrue
<1>7. Decide(call.v, status, who) /\ Handle(h, NotCalled) /\ UNCHANGED <<provider, checkOf, leftBehind>>
  BY <1>0, <1>2, <1>3 DEF WriteResult
<1>8. provider \in {"JUMIO", "ONFIDO"}
  BY DEF IdentityInv, IdentityTyped
<1>9. status = "APPROVED" =>
        \/ who.by = "officer"
        \/ /\ checkOf[who.on] = "passed"
           /\ who.on = call.v \/ (provider = "ONFIDO" /\ checkOf[who.on] # "unknown")
  BY <1>4, <1>5, <1>6, <1>8
<1>10. \E g \in Handlers : handler[g].op = "webhook" /\ Handle(g, NotCalled)
  BY <1>0, <1>1, <1>7
<1> QED
  BY <1>1, <1>4, <1>5, <1>6, <1>7, <1>9, <1>10, DecideKeeps

(* An officer decides.                                                     *)
LEMMA ManualReviewKeeps ==
  ASSUME IdentityInv, NEW v \in Verifications, NEW decision \in Reviews, ManualReview(v, decision)
  PROVE  IdentityInv'
<1>1. PICK who : who = [by |-> "officer", on |-> v]
  OBVIOUS
<1>2. who.by = "officer" /\ who \in [by : {"provider", "officer"}, on : Verifications]
  BY <1>1
<1>3. /\ verified[v].status # "none" /\ Decide(v, decision, who)
      /\ UNCHANGED <<provider, checkOf, leftBehind, handler>>
  BY <1>1, UsedRows DEF ManualReview
<1>4. decision \in {"APPROVED", "DECLINED", "REVIEW_REQUIRED"}
  BY KycConstants
<1> QED
  BY <1>2, <1>3, <1>4, DecideKeeps

(* Nobody has been verified.                                               *)
LEMMA IdentityStarts == KycInit => IdentityInv
<1> SUFFICES ASSUME KycInit PROVE IdentityInv
  OBVIOUS
<1>1. NoVerification \in VerifiedRows /\ NoVerification.status = "none" /\ NoVerification.ref = 0
  BY DEF NoVerification, VerifiedRows
<1>2. NotCalled.op = "away" /\ NotCalled \in IdentityCalls
  BY DEF NotCalled, IdentityCalls
<1>3. Cardinality({}) = 0 /\ MaxRefusals \in Nat
  BY FS_EmptySet, KycConstants
<1>4. IdentityTyped
  BY <1>1, <1>2, <1>3 DEF KycInit, IdentityTyped, CheckStates, Undecided
<1>5. RowsKept /\ Grounded /\ Accounted
  BY <1>1 DEF KycInit, RowsKept, Grounded, Accounted
<1>6. CallsTrue /\ OneByOne
  BY <1>1, <1>2 DEF KycInit, CallsTrue, OneByOne, Asking, RunsFor, ActiveRow, Active
<1> QED
  BY <1>4, <1>5, <1>6 DEF IdentityInv

(* Every step keeps the invariant of the identity checks.                  *)
LEMMA IdentityStep == IdentityInv /\ [KycNext]_kycVars => IdentityInv'
<1> SUFFICES ASSUME IdentityInv, [KycNext]_kycVars PROVE IdentityInv'
  OBVIOUS
<1>1. CASE UNCHANGED kycVars
  BY <1>1 DEF kycVars, IdentityInv, IdentityTyped, RowsKept, CallsTrue, Grounded, HasGrounds,
              OneByOne, Accounted, Asking, RunsFor, ActiveRow, Active
<1>2. CASE KycNext
  BY <1>2, FindActiveKeeps, SaveInitiatedKeeps, AskProviderKeeps, ProviderFailsKeeps,
     WritePendingKeeps, WebhookKeeps, WriteResultKeeps, ProviderDecidesKeeps, ManualReviewKeeps
     DEF KycNext
<1> QED
  BY <1>1, <1>2

(* The invariant says what is promised.                                    *)
LEMMA IdentityImplied == IdentityInv => ApprovedOnGrounds /\ OneActive /\ StuckWasAbandoned
<1> SUFFICES ASSUME IdentityInv PROVE ApprovedOnGrounds /\ OneActive /\ StuckWasAbandoned
  OBVIOUS
<1>1. ApprovedOnGrounds
  BY DEF ApprovedOnGrounds, IdentityInv, Grounded, HasGrounds, Used
<1>2. OneActive
  <2> SUFFICES ASSUME NEW c \in People \ overlapped PROVE Cardinality(ActiveFor(c)) <= 1
    BY DEF OneActive
  <2>1. \A v, w \in ActiveFor(c) : v = w
    BY UsedRows DEF IdentityInv, OneByOne
  <2>2. CASE ActiveFor(c) = {}
    BY <2>2, FS_EmptySet
  <2>3. ASSUME NEW v \in ActiveFor(c) PROVE Cardinality(ActiveFor(c)) <= 1
    <3>1. ActiveFor(c) = {v}
      BY <2>1, <2>3
    <3>2. Cardinality({v}) = 1
      BY FS_Singleton, Zenon
    <3> QED
      BY <3>1, <3>2
  <2> QED
    BY <2>2, <2>3
<1>3. StuckWasAbandoned
  <2> SUFFICES ASSUME NEW v \in Used, verified[v].status = "INITIATED"
               PROVE  \/ v \in leftBehind
                      \/ \E h \in Running(verified[v].customer) :
                           handler[h].at # "save" /\ handler[h].v = v
    BY DEF StuckWasAbandoned
  <2>1. v \in leftBehind \/ \E h \in Handlers : Asking(h) /\ handler[h].v = v
    BY DEF IdentityInv, Accounted, Used
  <2> QED
    BY <2>1 DEF IdentityInv, CallsTrue, Asking, Running
<1> QED
  BY <1>1, <1>2, <1>3

(* So it always holds.                                                     *)
LEMMA IdentityKept == KycInit /\ [][KycNext]_kycVars => []IdentityInv
BY IdentityStarts, IdentityStep, PTL

(* A customer of KycService is approved on grounds only and has one active *)
(* verification unless two calls of its own overlap; a verification stuck  *)
(* before it reached its customer was left by a provider that did not      *)
(* answer.                                                                 *)
THEOREM CustomersIdentified ==
  KycInit /\ [][KycNext]_kycVars => [](ApprovedOnGrounds /\ OneActive /\ StuckWasAbandoned)
<1>1. IdentityInv => ApprovedOnGrounds /\ OneActive /\ StuckWasAbandoned
  BY IdentityImplied
<1> QED
  BY <1>1, IdentityKept, PTL

-----------------------------------------------------------------------------
(* Screening: how far the searches have come tells what is on record.      *)
ScreeningRecords ==
  [next : BOOLEAN, status : {"none", "CLEAR", "HIT", "CONFIRMED_MATCH", "FALSE_POSITIVE"}]
SearchRows == [at : 0..7, country : {"none", "US", "RU"}, found : SUBSET ScreeningTypes,
               answer : {"none", "failed", "clear", "hits"}]
Verdicts == {"CONFIRMED_MATCH", "FALSE_POSITIVE"}

ScreeningInv ==
  /\ search \in SearchRows
  /\ screened \in [ScreeningTypes -> ScreeningRecords]
  /\ reviewed \subseteq ScreeningTypes /\ \A t \in reviewed : screened[t].status \in Verdicts
  /\ \A i \in 1..3 :
       /\ search.at \in 1..6 /\ i >= search.at => screened[Searches[i]].status = "none"
       /\ search.at \in 1..6 /\ i < search.at =>
            /\ screened[Searches[i]].status # "none"
            /\ Searches[i] \notin search.found =>
                 screened[Searches[i]].status = "CLEAR" \/ Searches[i] \in reviewed
  /\ search.at = 0 => \A t \in ScreeningTypes : screened[t].status = "none"
  /\ search.at \in 1..4 => screened["WATCHLIST"].status = "none"
  /\ search.at \in 5..6 /\ "WATCHLIST" \notin search.found => search.country \notin HighRisk
  /\ search.answer = "clear" => search.at = 6 /\ search.found = {}
  /\ search.answer \in {"clear", "hits"} <=> search.at = 6
  /\ search.at # 6 => \A t \in ScreeningTypes : ~screened[t].next
  /\ search.at = 6 => \A i \in 1..3 : screened[Searches[i]].next

(* The three searches.                                                     *)
LEMMA SearchesAre ==
  /\ Searches[1] = "SANCTIONS" /\ Searches[2] = "PEP" /\ Searches[3] = "ADVERSE_MEDIA"
  /\ 1..3 = {1, 2, 3}
BY DEF Searches

(* What a screening is made of.                                            *)
LEMMA SearchFields ==
  ASSUME ScreeningInv
  PROVE  /\ search.at \in 0..7 /\ search.country \in {"none", "US", "RU"}
         /\ search.found \in SUBSET ScreeningTypes
         /\ search.answer \in {"none", "failed", "clear", "hits"}
         /\ search = [at |-> search.at, country |-> search.country, found |-> search.found,
                      answer |-> search.answer]
BY DEF ScreeningInv, SearchRows

(* Nobody has been screened.                                               *)
LEMMA ScreeningStarts == SearchInit => ScreeningInv
BY SearchesAre DEF SearchInit, ScreeningInv, ScreeningRecords, ScreeningTypes, SearchRows

(* The invariant says what is promised.                                    *)
LEMMA ScreeningImplied == ScreeningInv => ClearIsComplete
BY SearchesAre DEF ScreeningInv, ClearIsComplete, Verdicts, ScreeningTypes

(* One search, or the check of the country, is done: its record was not    *)
(* there before.                                                           *)
LEMMA ScreeningStep == ScreeningInv /\ [SearchNext]_searchVars => ScreeningInv'
<1> SUFFICES ASSUME ScreeningInv, [SearchNext]_searchVars PROVE ScreeningInv'
  OBVIOUS
<1>0. /\ search \in SearchRows
      /\ screened \in [ScreeningTypes -> ScreeningRecords]
      /\ reviewed \subseteq ScreeningTypes
  BY DEF ScreeningInv
<1>1. ASSUME NEW country \in {"none", "US", "RU"}, ScreenCustomer(country) PROVE ScreeningInv'
  <2>1. /\ search.at = 0 /\ search'.at = 1 /\ search'.found = search.found
        /\ search'.answer = search.answer
        /\ search' \in SearchRows
        /\ UNCHANGED <<screened, reviewed>>
    <3>1. search' = [at |-> 1, country |-> country, found |-> search.found, answer |-> search.answer]
      BY <1>1, SearchFields DEF ScreenCustomer
    <3>2. UNCHANGED <<screened, reviewed>> /\ search.at = 0
      BY <1>1 DEF ScreenCustomer
    <3> QED
      BY <3>1, <3>2, SearchFields DEF SearchRows
  <2> QED
    BY <2>1, SearchesAre DEF ScreeningInv, ScreeningTypes
<1>2. ASSUME NEW status \in {"CLEAR", "HIT"}, RunScreening(status) PROVE ScreeningInv'
  <2>0. PICK i \in 1..3 : i = search.at
    BY <1>2 DEF RunScreening
  <2>1. PICK t \in ScreeningTypes : t = Searches[i]
    BY <2>0, SearchesAre DEF ScreeningTypes
  <2>2. PICK found \in SUBSET ScreeningTypes :
          found = IF status = "HIT" THEN search.found \cup {t} ELSE search.found
    BY SearchFields
  <2>3. /\ search' \in SearchRows
        /\ search'.at = i + 1 /\ search'.found = found /\ search'.answer = search.answer
        /\ search'.country = search.country /\ reviewed' = reviewed
    <3>1. search' = [search EXCEPT !.at = i + 1, !.found = found]
      BY <1>0, <1>2, <2>0, <2>1, <2>2 DEF RunScreening
    <3>2. search' = [at |-> i + 1, country |-> search.country, found |-> found,
                     answer |-> search.answer]
      BY <3>1, SearchFields
    <3>3. i + 1 \in 0..7 /\ reviewed' = reviewed
      BY <1>2 DEF RunScreening
    <3> QED
      BY <3>2, <3>3, SearchFields DEF SearchRows
  <2>4. /\ screened' \in [ScreeningTypes -> ScreeningRecords]
        /\ screened'[t].status = status /\ screened'[t].next = screened[t].next
        /\ \A u \in ScreeningTypes : u # t => screened'[u] = screened[u]
    <3>1. PICK row \in ScreeningRecords : row = [screened[t] EXCEPT !.status = status]
      BY <1>0 DEF ScreeningRecords
    <3>2. row.status = status /\ row.next = screened[t].next
      BY <1>0, <3>1 DEF ScreeningRecords
    <3>3. screened' = [screened EXCEPT ![t] = row]
      BY <1>0, <1>2, <2>0, <2>1, <3>1 DEF RunScreening
    <3> QED
      BY <1>0, <3>2, <3>3
  <2>5. /\ \A j \in 1..3 : Searches[j] = t => j = i
        /\ \A j \in 1..3 : Searches[j] \in ScreeningTypes
        /\ t # "WATCHLIST" /\ "WATCHLIST" \in ScreeningTypes
    BY <2>1, SearchesAre DEF ScreeningTypes
  <2>6. t \notin reviewed /\ search.answer \notin {"clear", "hits"}
    BY <2>0, <2>1 DEF ScreeningInv, Verdicts
  <2>7. \A j \in 1..3 : search'.at \in 1..6 /\ j >= search'.at =>
                           screened'[Searches[j]].status = "none"
    BY <2>0, <2>1, <2>3, <2>4, <2>5 DEF ScreeningInv
  <2>8. ASSUME NEW j \in 1..3, j < search'.at
        PROVE  /\ screened'[Searches[j]].status # "none"
               /\ Searches[j] \notin search'.found =>
                    screened'[Searches[j]].status = "CLEAR" \/ Searches[j] \in reviewed'
    <3>1. CASE j = i
      BY <2>1, <2>2, <2>3, <2>4, <3>1
    <3>2. CASE j # i
      <4>1. j < search.at /\ Searches[j] # t
        BY <2>0, <2>3, <2>5, <2>8, <3>2
      <4> QED
        BY <2>0, <2>2, <2>3, <2>4, <2>5, <4>1 DEF ScreeningInv
    <3> QED
      BY <3>1, <3>2
  <2>9. /\ \A u \in reviewed' : screened'[u].status \in Verdicts
        /\ search'.at \in 1..4 => screened'["WATCHLIST"].status = "none"
        /\ search'.at # 6 => \A u \in ScreeningTypes : ~screened'[u].next
        /\ search'.at \in 2..4
    BY <1>0, <2>0, <2>3, <2>4, <2>5, <2>6 DEF ScreeningInv
  <2> QED
    BY <2>3, <2>4, <2>6, <2>7, <2>8, <2>9, <1>0 DEF ScreeningInv
<1>3. CASE SearchFails
  <2>1. /\ search'.at = 7 /\ search'.answer = "failed" /\ search.at \in 1..3
        /\ search' \in SearchRows
        /\ UNCHANGED <<screened, reviewed>>
    <3>1. /\ search' = [search EXCEPT !.at = 7, !.answer = "failed"]
          /\ search.at \in 1..3 /\ UNCHANGED <<screened, reviewed>>
      BY <1>3 DEF SearchFails
    <3>2. search' = [at |-> 7, country |-> search.country, found |-> search.found,
                     answer |-> "failed"]
      BY <3>1, SearchFields
    <3> QED
      BY <3>1, <3>2, SearchFields DEF SearchRows
  <2> QED
    BY <2>1 DEF ScreeningInv
<1>4. CASE CheckJurisdiction
  <2>0. PICK risky : risky = (search.country \in HighRisk)
    OBVIOUS
  <2>1. PICK found \in SUBSET ScreeningTypes :
          found = IF risky THEN search.found \cup {"WATCHLIST"} ELSE search.found
    BY SearchFields DEF ScreeningTypes
  <2>2. /\ search' \in SearchRows
        /\ search.at = 4 /\ search'.at = 5 /\ search'.found = found /\ search'.answer = search.answer
        /\ search'.country = search.country /\ reviewed' = reviewed
    <3>1. search' = [search EXCEPT !.at = 5, !.found = found]
      BY <1>0, <1>4, <2>0, <2>1 DEF CheckJurisdiction
    <3>2. search' = [at |-> 5, country |-> search.country, found |-> found,
                     answer |-> search.answer]
      BY <3>1, SearchFields
    <3>3. search.at = 4 /\ reviewed' = reviewed
      BY <1>4 DEF CheckJurisdiction
    <3> QED
      BY <3>2, <3>3, SearchFields DEF SearchRows
  <2>3. "WATCHLIST" \in ScreeningTypes /\ \A j \in 1..3 : Searches[j] \in ScreeningTypes \ {"WATCHLIST"}
    BY SearchesAre DEF ScreeningTypes
  <2>4. /\ screened' \in [ScreeningTypes -> ScreeningRecords]
        /\ screened'["WATCHLIST"].next = screened["WATCHLIST"].next
        /\ \A u \in ScreeningTypes : u # "WATCHLIST" => screened'[u] = screened[u]
    <3>1. PICK row \in ScreeningRecords : row = [screened["WATCHLIST"] EXCEPT !.status = "HIT"]
      BY <1>0, <2>3 DEF ScreeningRecords
    <3>2. row.next = screened["WATCHLIST"].next
      BY <1>0, <2>3, <3>1 DEF ScreeningRecords
    <3>3. screened' = IF risky THEN [screened EXCEPT !["WATCHLIST"] = row] ELSE screened
      BY <1>0, <1>4, <2>0, <2>3, <3>1 DEF CheckJurisdiction
    <3> QED
      BY <1>0, <2>3, <3>2, <3>3
  <2>5. "WATCHLIST" \notin reviewed /\ search.answer \notin {"clear", "hits"}
    BY <2>2 DEF ScreeningInv, Verdicts
  <2>6. \A u \in reviewed' : screened'[u].status \in Verdicts
    BY <2>2, <2>4, <2>5 DEF ScreeningInv
  <2>7. \A j \in 1..3 : /\ screened'[Searches[j]].status # "none"
                        /\ Searches[j] \notin search'.found =>
                             screened'[Searches[j]].status = "CLEAR" \/ Searches[j] \in reviewed'
    <3>1. \A j \in 1..3 : Searches[j] \in search.found <=> Searches[j] \in found
      BY <2>1, <2>3
    <3> QED
      BY <2>2, <2>3, <2>4, <3>1 DEF ScreeningInv
  <2>8. "WATCHLIST" \notin search'.found => search'.country \notin HighRisk
    BY <2>0, <2>1, <2>2
  <2>9. \A u \in ScreeningTypes : ~screened'[u].next
    BY <2>2, <2>3, <2>4 DEF ScreeningInv
  <2> QED
    BY <1>0, <2>2, <2>4, <2>5, <2>6, <2>7, <2>8, <2>9 DEF ScreeningInv
<1>5. CASE ScheduleNext
  <2>1. /\ search' \in SearchRows
        /\ search.at = 5 /\ search'.at = 6 /\ search'.found = search.found
        /\ search'.answer = (IF search.found = {} THEN "clear" ELSE "hits")
        /\ search'.country = search.country /\ reviewed' = reviewed
    <3>1. PICK answer \in {"clear", "hits"} : answer = IF search.found = {} THEN "clear" ELSE "hits"
      OBVIOUS
    <3>2. /\ search' = [search EXCEPT !.at = 6, !.answer = answer]
          /\ search.at = 5 /\ reviewed' = reviewed
      BY <1>5, <3>1 DEF ScheduleNext
    <3>3. search' = [at |-> 6, country |-> search.country, found |-> search.found,
                     answer |-> answer]
      BY <3>2, SearchFields
    <3>4. /\ search' \in SearchRows /\ search'.at = 6 /\ search'.found = search.found
          /\ search'.country = search.country /\ search'.answer = answer
      BY <3>3, SearchFields DEF SearchRows
    <3> QED
      BY <3>1, <3>2, <3>4
  <2>2. ASSUME NEW t \in ScreeningTypes
        PROVE  /\ screened'[t] \in ScreeningRecords /\ screened'[t].status = screened[t].status
               /\ screened[t].status # "none" => screened'[t].next
    <3>1. screened'[t] = IF screened[t].status = "none" THEN screened[t]
                         ELSE [screened[t] EXCEPT !.next = TRUE]
      BY <1>5 DEF ScheduleNext
    <3>2. screened[t] \in ScreeningRecords
      BY <1>0
    <3> QED
      BY <3>1, <3>2 DEF ScreeningRecords
  <2>3. screened' \in [ScreeningTypes -> ScreeningRecords]
    <3>1. screened' = [t \in ScreeningTypes |-> screened'[t]]
      BY <1>5 DEF ScheduleNext
    <3> QED
      BY <2>2, <3>1
  <2>4. \A j \in 1..3 : Searches[j] \in ScreeningTypes
    BY SearchesAre DEF ScreeningTypes
  <2>5. \A j \in 1..3 : /\ screened[Searches[j]].status # "none"
                        /\ Searches[j] \notin search.found =>
                             screened[Searches[j]].status = "CLEAR" \/ Searches[j] \in reviewed
    BY <2>1 DEF ScreeningInv
  <2>6. \A j \in 1..3 : screened'[Searches[j]].next
    BY <2>2, <2>4, <2>5
  <2>7. \A u \in reviewed' : screened'[u].status \in Verdicts
    BY <1>0, <2>1, <2>2 DEF ScreeningInv
  <2>8. "WATCHLIST" \notin search.found => search.country \notin HighRisk
    BY <2>1 DEF ScreeningInv
  <2>9. \A j \in 1..3 : /\ screened'[Searches[j]].status # "none"
                        /\ Searches[j] \notin search'.found =>
                             screened'[Searches[j]].status = "CLEAR" \/ Searches[j] \in reviewed'
    BY <2>1, <2>2, <2>4, <2>5
  <2> QED
    BY <1>0, <2>1, <2>3, <2>6, <2>7, <2>8, <2>9 DEF ScreeningInv
<1>6. ASSUME NEW t \in ScreeningTypes, NEW decision \in Verdicts, ResolveScreening(t, decision)
      PROVE  ScreeningInv'
  <2>1. /\ screened[t].status # "none" /\ search' = search /\ reviewed' = reviewed \cup {t}
        /\ screened' = [screened EXCEPT ![t].status = decision]
    BY <1>6 DEF ResolveScreening
  <2>2. /\ screened' \in [ScreeningTypes -> ScreeningRecords]
        /\ screened'[t].status = decision /\ screened'[t].next = screened[t].next
        /\ \A u \in ScreeningTypes : u # t => screened'[u] = screened[u]
    <3>1. PICK row \in ScreeningRecords : row = [screened[t] EXCEPT !.status = decision]
      BY <1>0 DEF ScreeningRecords, Verdicts
    <3>2. row.status = decision /\ row.next = screened[t].next
      BY <1>0, <3>1 DEF ScreeningRecords
    <3>3. screened' = [screened EXCEPT ![t] = row]
      BY <1>0, <2>1, <3>1
    <3> QED
      BY <1>0, <3>2, <3>3
  <2>3. \A u \in ScreeningTypes : /\ screened'[u].next = screened[u].next
                                  /\ screened'[u].status = "none" <=> screened[u].status = "none"
                                  /\ u # t => screened'[u].status = screened[u].status
    BY <2>1, <2>2 DEF Verdicts
  <2>4. "WATCHLIST" \in ScreeningTypes /\ \A j \in 1..3 : Searches[j] \in ScreeningTypes
    BY SearchesAre DEF ScreeningTypes
  <2>5. \A u \in reviewed' : screened'[u].status \in Verdicts
    BY <1>0, <2>1, <2>2 DEF ScreeningInv
  <2>6. ASSUME NEW j \in 1..3
        PROVE  /\ search'.at \in 1..6 /\ j >= search'.at => screened'[Searches[j]].status = "none"
               /\ search'.at \in 1..6 /\ j < search'.at =>
                    /\ screened'[Searches[j]].status # "none"
                    /\ Searches[j] \notin search'.found =>
                         screened'[Searches[j]].status = "CLEAR" \/ Searches[j] \in reviewed'
    BY <2>1, <2>3, <2>4 DEF ScreeningInv
  <2>7. /\ search'.at = 0 => \A u \in ScreeningTypes : screened'[u].status = "none"
        /\ search'.at \in 1..4 => screened'["WATCHLIST"].status = "none"
        /\ search'.at # 6 => \A u \in ScreeningTypes : ~screened'[u].next
        /\ search'.at = 6 => \A i \in 1..3 : screened'[Searches[i]].next
    BY <2>1, <2>3, <2>4 DEF ScreeningInv
  <2> QED
    BY <1>0, <2>1, <2>2, <2>5, <2>6, <2>7 DEF ScreeningInv
<1>7. CASE UNCHANGED searchVars
  <2>1. search' = search /\ screened' = screened /\ reviewed' = reviewed
    BY <1>7 DEF searchVars
  <2> QED
    BY <2>1 DEF ScreeningInv
<1> QED
  BY <1>1, <1>2, <1>3, <1>4, <1>5, <1>6, <1>7 DEF SearchNext, Verdicts

(* Both invariants together give the types.                                *)
LEMMA KycTyped == IdentityInv /\ ScreeningInv => KycTypeOK
BY DEF IdentityInv, IdentityTyped, ScreeningInv, KycTypeOK, VerifiedRows, CheckStates,
       ScreeningRecords, SearchRows

(* So it always holds.                                                     *)
LEMMA ScreeningKept == SearchInit /\ [][SearchNext]_searchVars => []ScreeningInv
BY ScreeningStarts, ScreeningStep, PTL

(* ScreeningService finds a customer clear only after all three searches   *)
(* and off the list of countries, a screening that failed half-way leaves  *)
(* records that come up for no next one, and a review stands.              *)
THEOREM CustomersScreened == SearchInit /\ [][SearchNext]_searchVars => []ClearIsComplete
<1>1. ScreeningInv => ClearIsComplete
  BY ScreeningImplied
<1> QED
  BY <1>1, ScreeningKept, PTL

-----------------------------------------------------------------------------
(* Monitoring: what a call has saved and has yet to save is what the rules *)
(* found, and it saves in the order of the rules.                          *)

RuleNames == {"CTR_THRESHOLD", "STRUCTURING_CASH", "HIGH_VELOCITY_TRANSFERS",
              "LARGE_WIRE_TRANSFER", "HIGH_RISK_JURISDICTION", "ROUND_DOLLAR_TRANSACTIONS"}
MonitoredCalls ==
  [on : Contexts, at : {"saving", "ended", "cutOff"},
   found : SUBSET RuleNames, saved : SUBSET RuleNames]

CallSound(call) ==
  /\ call.found \cup call.saved = Evaluate(call.on)
  /\ call.at = "ended" => call.found = {}
  /\ \A i, j \in 1..6 : i < j /\ Rules[j] \in call.saved => Rules[i] \notin call.found

MonitorInv ==
  /\ monitored \in Seq(MonitoredCalls)
  /\ \A n \in 1..Len(monitored) : CallSound(monitored[n])

(* The six rules in their order.                                           *)
LEMMA RulesAre ==
  /\ DOMAIN Rules = 1..6 /\ 1..6 = {1, 2, 3, 4, 5, 6} /\ Range(Rules) = RuleNames
  /\ Rules[1] = "CTR_THRESHOLD" /\ Rules[2] = "STRUCTURING_CASH"
  /\ Rules[3] = "HIGH_VELOCITY_TRANSFERS" /\ Rules[4] = "LARGE_WIRE_TRANSFER"
  /\ Rules[5] = "HIGH_RISK_JURISDICTION" /\ Rules[6] = "ROUND_DOLLAR_TRANSACTIONS"
BY DEF Rules, Range, RuleNames

(* The rules have their places, one each.                                  *)
LEMMA RulesDiffer == \A i, j \in 1..6 : Rules[i] = Rules[j] => i = j
BY RulesAre

(* A call's alerts concern its transaction, and need no query.             *)
LEMMA EvaluateIs ==
  ASSUME NEW t, NEW rule \in RuleNames
  PROVE  rule \in Evaluate(t) <=> Concerns(rule, t) /\ rule \notin Queries
BY RulesAre DEF Evaluate, RuleOutcome

(* A call begins with all it found before it.                              *)
LEMMA MonitorTransactionKeeps ==
  ASSUME MonitorInv, NEW t \in Contexts, MonitorTransaction(t)
  PROVE  MonitorInv'
<1>1. PICK call : call = [on |-> t, at |-> "saving", found |-> Evaluate(t), saved |-> {}]
  OBVIOUS
<1>2. monitored' = Append(monitored, call) /\ monitored \in Seq(MonitoredCalls)
  BY <1>1 DEF MonitorTransaction, MonitorInv
<1>3. call \in MonitoredCalls
  BY <1>1, RulesAre DEF MonitoredCalls, Evaluate
<1>4. CallSound(call)
  BY <1>1 DEF CallSound
<1>5. /\ monitored' \in Seq(MonitoredCalls) /\ Len(monitored') = Len(monitored) + 1
      /\ Len(monitored) \in Nat /\ monitored'[Len(monitored) + 1] = call
      /\ \A n \in 1..Len(monitored) : monitored'[n] = monitored[n]
  BY <1>2, <1>3
<1>6. ASSUME NEW n \in 1..Len(monitored') PROVE CallSound(monitored'[n])
  <2>1. n \in 1..Len(monitored) \/ n = Len(monitored) + 1
    BY <1>5
  <2> QED
    BY <1>4, <1>5, <2>1 DEF MonitorInv
<1> QED
  BY <1>5, <1>6 DEF MonitorInv

(* One call moves, and the others stand as they are.                       *)
LEMMA OneCallMoves ==
  ASSUME MonitorInv, NEW n \in 1..Len(monitored), NEW call \in MonitoredCalls, CallSound(call),
         monitored' = [monitored EXCEPT ![n] = call]
  PROVE  MonitorInv'
<1>1. monitored \in Seq(MonitoredCalls) /\ Len(monitored) \in Nat
  BY DEF MonitorInv
<1>2. /\ monitored' \in Seq(MonitoredCalls) /\ Len(monitored') = Len(monitored)
      /\ monitored'[n] = call
      /\ \A m \in 1..Len(monitored) : m # n => monitored'[m] = monitored[m]
  BY <1>1
<1> QED
  BY <1>2 DEF MonitorInv

(* A call's record.                                                        *)
LEMMA MonitoredShape ==
  ASSUME MonitorInv, NEW n \in 1..Len(monitored)
  PROVE  /\ monitored[n] \in MonitoredCalls /\ CallSound(monitored[n])
         /\ monitored[n].on \in Contexts /\ monitored[n].at \in {"saving", "ended", "cutOff"}
         /\ monitored[n].found \in SUBSET RuleNames /\ monitored[n].saved \in SUBSET RuleNames
<1>1. monitored[n] \in MonitoredCalls /\ CallSound(monitored[n])
  BY DEF MonitorInv
<1>2. \A call \in MonitoredCalls :
        /\ call.on \in Contexts /\ call.at \in {"saving", "ended", "cutOff"}
        /\ call.found \in SUBSET RuleNames /\ call.saved \in SUBSET RuleNames
  BY DEF MonitoredCalls
<1> QED
  BY <1>1, <1>2

(* A record with two fields replaced.                                      *)
LEMMA TwoFieldsMove ==
  ASSUME NEW call \in MonitoredCalls, NEW found, NEW saved
  PROVE  [call EXCEPT !.found = found, !.saved = saved]
           = [on |-> call.on, at |-> call.at, found |-> found, saved |-> saved]
<1>1. PICK once : once = [call EXCEPT !.found = found]
  OBVIOUS
<1>2. once = [on |-> call.on, at |-> call.at, found |-> found, saved |-> call.saved]
  BY <1>1 DEF MonitoredCalls
<1>3. [once EXCEPT !.saved = saved]
        = [on |-> call.on, at |-> call.at, found |-> found, saved |-> saved]
  BY <1>2
<1> QED
  BY <1>1, <1>3

(* The first rule found becomes an alert.                                  *)
LEMMA SaveAlertKeeps ==
  ASSUME MonitorInv, NEW n \in 1..Len(monitored), SaveAlert(n)
  PROVE  MonitorInv'
<1> DEFINE old == monitored[n]
<1>0. /\ old \in MonitoredCalls /\ CallSound(old) /\ old.on \in Contexts /\ old.at = "saving"
      /\ old.found \in SUBSET RuleNames /\ old.saved \in SUBSET RuleNames
  BY MonitoredShape DEF SaveAlert
<1>1. PICK i \in 1..6 :
        /\ Rules[i] \in old.found
        /\ \A j \in 1..(i - 1) : Rules[j] \notin old.found
        /\ monitored' = [monitored EXCEPT ![n] =
             [old EXCEPT !.found = old.found \ {Rules[i]}, !.saved = old.saved \cup {Rules[i]}]]
  BY <1>0, RulesAre DEF SaveAlert
<1>2. PICK call : call = [on |-> old.on, at |-> old.at, found |-> old.found \ {Rules[i]},
                          saved |-> old.saved \cup {Rules[i]}]
  OBVIOUS
<1>3. call \in MonitoredCalls
  BY <1>0, <1>1, <1>2 DEF MonitoredCalls
<1>4. monitored' = [monitored EXCEPT ![n] = call]
  <2>1. [old EXCEPT !.found = old.found \ {Rules[i]}, !.saved = old.saved \cup {Rules[i]}] = call
    BY <1>0, <1>2, TwoFieldsMove
  <2> QED
    BY <1>1, <2>1
<1>5. CallSound(call)
  <2>1. call.found \cup call.saved = Evaluate(call.on)
    BY <1>0, <1>1, <1>2 DEF CallSound
  <2>2. call.at = "ended" => call.found = {}
    BY <1>0, <1>2
  <2>3. ASSUME NEW h \in 1..6, NEW j \in 1..6, h < j, Rules[j] \in call.saved
        PROVE  Rules[h] \notin call.found
    <3>1. CASE Rules[j] \in old.saved
      BY <1>0, <1>2, <2>3, <3>1 DEF CallSound
    <3>2. CASE Rules[j] = Rules[i]
      <4>1. j = i
        BY <1>1, <3>2, RulesDiffer
      <4>2. h \in 1..(i - 1)
        BY <2>3, <4>1
      <4> QED
        BY <1>1, <1>2, <4>2
    <3> QED
      BY <1>2, <2>3, <3>1, <3>2
  <2> QED
    BY <2>1, <2>2, <2>3 DEF CallSound
<1> QED
  BY <1>3, <1>4, <1>5, OneCallMoves

(* A call ends with nothing left to save, or is cut off.                   *)
LEMMA CallOverKeeps ==
  ASSUME MonitorInv, NEW n \in 1..Len(monitored), EndMonitoring(n) \/ CutOffMonitoring(n)
  PROVE  MonitorInv'
<1> DEFINE old == monitored[n]
<1>0. old \in MonitoredCalls /\ CallSound(old)
  BY MonitoredShape
<1>1. PICK at \in {"ended", "cutOff"} :
        /\ monitored' = [monitored EXCEPT ![n] = [old EXCEPT !.at = at]]
        /\ at = "ended" => old.found = {}
  BY DEF EndMonitoring, CutOffMonitoring
<1>2. PICK call : call = [old EXCEPT !.at = at]
  OBVIOUS
<1>3. /\ call \in MonitoredCalls /\ call.on = old.on /\ call.at = at
      /\ call.found = old.found /\ call.saved = old.saved
  BY <1>0, <1>2 DEF MonitoredCalls
<1>4. CallSound(call)
  BY <1>0, <1>1, <1>3 DEF CallSound
<1> QED
  BY <1>1, <1>2, <1>3, <1>4, OneCallMoves

(* Every step keeps the invariant of monitoring.                           *)
LEMMA MonitorStep == ASSUME MonitorInv, [MonitorNext]_monitorVars PROVE MonitorInv'
<1>1. DOMAIN monitored = 1..Len(monitored)
  BY DEF MonitorInv
<1>2. CASE UNCHANGED monitorVars
  BY <1>2 DEF monitorVars, MonitorInv
<1> QED
  BY <1>1, <1>2, MonitorTransactionKeeps, SaveAlertKeeps, CallOverKeeps DEF MonitorNext

(* The score of an alert says when it is due.                              *)
LEMMA DueByScore ==
  ASSUME NEW rule, NEW t
  PROVE  /\ AlertRiskScore(rule, t) \in {70, 80, 90, 95}
         /\ DueDateHours[Severity(rule, t)] = IF AlertRiskScore(rule, t) >= 90 THEN 24 ELSE 48
BY DEF AlertRiskScore, Severity, DueDateHours

(* The invariant says what is promised.                                    *)
LEMMA MonitorImplied == ASSUME MonitorInv PROVE MonitorTypeOK /\ MonitoringSound
<1>0. DOMAIN monitored = 1..Len(monitored)
  BY DEF MonitorInv
<1>1. MonitorTypeOK
  BY <1>0, MonitoredShape, RulesAre DEF MonitorTypeOK
<1>2. PlainRulesStand
  <2>1. SUFFICES ASSUME NEW n \in 1..Len(monitored), NEW rule \in RuleNames \ Queries
                 PROVE  IF Concerns(rule, monitored[n].on)
                        THEN monitored[n].at = "ended" => rule \in monitored[n].saved
                        ELSE rule \notin monitored[n].saved
    BY <1>0, RulesAre DEF PlainRulesStand
  <2> QED
    BY MonitoredShape, EvaluateIs DEF CallSound
<1>3. AlertsInOrder
  <2>1. ASSUME NEW n \in 1..Len(monitored), NEW i \in 1..6, NEW j \in 1..6, i < j,
               Rules[j] \in monitored[n].saved,
               Concerns(Rules[i], monitored[n].on), Rules[i] \notin Queries
        PROVE  Rules[i] \in monitored[n].saved
    <3>1. Rules[i] \in RuleNames
      BY RulesAre DEF RuleNames
    <3>2. Rules[i] \in Evaluate(monitored[n].on)
      BY <2>1, <3>1, EvaluateIs
    <3> QED
      BY <2>1, <3>2, MonitoredShape DEF CallSound
  <2>2. ASSUME NEW m \in 1..Len(monitored), NEW n \in 1..Len(monitored),
               NEW high \in monitored[m].saved, NEW low \in monitored[n].saved,
               AlertRiskScore(high, monitored[m].on) > AlertRiskScore(low, monitored[n].on)
        PROVE  DueDateHours[Severity(high, monitored[m].on)]
                 <= DueDateHours[Severity(low, monitored[n].on)]
    BY <2>2, DueByScore
  <2> QED
    BY <1>0, <2>1, <2>2, RulesAre DEF AlertsInOrder
<1> QED
  BY <1>1, <1>2, <1>3 DEF MonitoringSound

(* AmlService.monitorTransaction as AmlModule wires it: the rules that are *)
(* rejected cost no other its alert, and a call that is cut off leaves no  *)
(* gap, for any transactions and any number of calls.                      *)
THEOREM TransactionsWatched == MonitorSpec => [](MonitorTypeOK /\ MonitoringSound)
<1>1. MonitorInit => MonitorInv
  BY DEF MonitorInit, MonitorInv
<1>2. MonitorInv /\ [MonitorNext]_monitorVars => MonitorInv'
  BY MonitorStep
<1>3. MonitorInv => MonitorTypeOK /\ MonitoringSound
  BY MonitorImplied
<1> QED
  BY <1>1, <1>2, <1>3, PTL DEF MonitorSpec

-----------------------------------------------------------------------------
(* The families: the policy in force and what was found against it.        *)

(* A policy is well formed, its id is one of createIPS, and every open     *)
(* violation is against a policy on record.                                *)
PoliciesTyped ==
  /\ DOMAIN policies \subseteq PolicyIds
  /\ \A i \in DOMAIN policies :
       policies[i] \in [group : Groups, status : {"ACTIVE", "SUPERSEDED"}, body : Policies]
  /\ DOMAIN accepted = Groups /\ checked \subseteq Groups
  /\ \A e \in DOMAIN entities : entities[e] \in [group : Groups, held : HoldingSets]

(* Every open violation names a policy on record.                          *)
ViolationsTyped ==
  \A k \in DOMAIN violations :
    /\ \E i \in DOMAIN policies : \E v : k = <<i, v>>
    /\ violations[k] \in 0..MaxOpen

(* What every step of the families keeps of policies and violations.       *)
PolicyInv == PoliciesTyped /\ ViolationsTyped /\ PolicyInForce /\ ViolationsShow

(* Superseding takes a group's policies out of force and leaves the others *)
(* and all the bodies as they were.                                        *)
LEMMA SupersededIs ==
  ASSUME PoliciesTyped, NEW g
  PROVE  /\ DOMAIN Superseded(g) = DOMAIN policies
         /\ \A i \in DOMAIN policies :
              /\ Superseded(g)[i] \in [group : Groups, status : {"ACTIVE", "SUPERSEDED"},
                                       body : Policies]
              /\ Superseded(g)[i].group = policies[i].group
              /\ Superseded(g)[i].body = policies[i].body
              /\ policies[i].group = g => Superseded(g)[i].status = "SUPERSEDED"
              /\ policies[i].group # g => Superseded(g)[i] = policies[i]
<1> SUFFICES ASSUME NEW i \in DOMAIN policies
             PROVE  /\ Superseded(g)[i] \in [group : Groups, status : {"ACTIVE", "SUPERSEDED"},
                                             body : Policies]
                    /\ Superseded(g)[i].group = policies[i].group
                    /\ Superseded(g)[i].body = policies[i].body
                    /\ policies[i].group = g => Superseded(g)[i].status = "SUPERSEDED"
                    /\ policies[i].group # g => Superseded(g)[i] = policies[i]
  BY DEF Superseded
<1>1. PICK p \in [group : Groups, status : {"ACTIVE", "SUPERSEDED"}, body : Policies] : p = policies[i]
  BY DEF PoliciesTyped
<1>2. Superseded(g)[i] = IF p.group = g /\ p.status = "ACTIVE"
                         THEN [p EXCEPT !.status = "SUPERSEDED"] ELSE p
  BY <1>1 DEF Superseded
<1>3. p.status \in {"ACTIVE", "SUPERSEDED"}
  BY <1>1
<1> QED
  BY <1>1, <1>2, <1>3

(* The holdings of a group depend on its own entities alone.               *)
LEMMA HoldingsFollow ==
  ASSUME NEW g,
         {d \in DOMAIN entities' : entities'[d].group = g} = {d \in DOMAIN entities : entities[d].group = g},
         \A d \in DOMAIN entities : entities[d].group = g => entities'[d] = entities[d]
  PROVE  AllHoldings(g)' = AllHoldings(g)
<1> DEFINE own == {d \in DOMAIN entities : entities[d].group = g}
<1>1. \A d \in own : entities'[d].held = entities[d].held
  OBVIOUS
<1>2. AllHoldings(g) = UNION {{[entity |-> e, item |-> h] : h \in entities[e].held} : e \in own}
  BY DEF AllHoldings
<1>3. AllHoldings(g)' = UNION {{[entity |-> e, item |-> h] : h \in entities'[e].held} : e \in own}
  BY DEF AllHoldings
<1> HIDE DEF own
<1>4. {{[entity |-> e, item |-> h] : h \in entities'[e].held} : e \in own}
        = {{[entity |-> e, item |-> h] : h \in entities[e].held} : e \in own}
  BY <1>1
<1> QED
  BY <1>2, <1>3, <1>4

(* A change of one entity of group g leaves the others' policies kept.     *)
LEMMA EntityKeeps ==
  ASSUME PolicyInv, NEW e, NEW g \in Groups, NEW held \in HoldingSets,
         entities' = Put(entities, e, [group |-> g, held |-> held]),
         e \in DOMAIN entities => entities[e].group = g,
         checked' = checked \ {g},
         UNCHANGED <<policies, violations, accepted, refused>>
  PROVE  PolicyInv'
<1>1. DOMAIN entities' = DOMAIN entities \cup {e}
  BY DEF Put
<1>2. entities'[e] = [group |-> g, held |-> held]
  BY DEF Put
<1>3. \A d \in DOMAIN entities : d # e => entities'[d] = entities[d]
  BY DEF Put
<1>4. PoliciesTyped'
  BY <1>1, <1>2, <1>3 DEF PolicyInv, PoliciesTyped
<1>5. ViolationsTyped'
  BY DEF PolicyInv, ViolationsTyped
<1>6. PolicyInForce'
  BY DEF PolicyInv, PolicyInForce, ActiveOf
<1>7. ViolationsShow'
  <2> SUFFICES ASSUME NEW f \in checked', NEW i \in ActiveOf(f)', NEW v \in Found(f, policies[i].body)'
               PROVE  Open(i, v)' > 0
    BY DEF ViolationsShow
  <2>1. f \in checked /\ f # g
    OBVIOUS
  <2>2. i \in ActiveOf(f) /\ policies'[i].body = policies[i].body
    BY DEF ActiveOf
  <2>3. entities'[e].group = g
    BY <1>2
  <2>4. {d \in DOMAIN entities' : entities'[d].group = f} = {d \in DOMAIN entities : entities[d].group = f}
    BY <1>1, <1>3, <2>1, <2>3
  <2>5. \A d \in DOMAIN entities : entities[d].group = f => entities'[d] = entities[d]
    BY <1>3, <2>1
  <2>6. AllHoldings(f)' = AllHoldings(f)
    BY <2>4, <2>5, HoldingsFollow
  <2>7. Found(f, policies[i].body)' = Found(f, policies[i].body)
    BY <2>2, <2>6 DEF Found
  <2>8. v \in Found(f, policies[i].body)
    BY <2>7
  <2>9. Open(i, v)' = Open(i, v)
    BY DEF Open
  <2> QED
    BY <2>1, <2>2, <2>8, <2>9 DEF PolicyInv, ViolationsShow
<1> QED
  BY <1>4, <1>5, <1>6, <1>7 DEF PolicyInv

(* createIPS, accepted or refused.                                         *)
LEMMA CreateIPSKeeps ==
  ASSUME PolicyInv, NEW g \in Groups, NEW i \in PolicyIds, NEW p \in Policies, CreateIPS(g, i, p)
  PROVE  PolicyInv'
<1> DEFINE whole == MapThenSumSet(LAMBDA k : p.target[k], AssetKinds) = 100
<1>1. /\ i \notin DOMAIN policies /\ checked' = checked \ {g}
      /\ UNCHANGED <<entities, violations>>
  BY DEF CreateIPS
<1>2. whole => /\ policies' = Put(Superseded(g), i, [group |-> g, status |-> "ACTIVE", body |-> p])
               /\ accepted' = [accepted EXCEPT ![g] = i] /\ refused' = refused \ {g}
  BY DEF CreateIPS
<1>3. ~whole => policies' = Superseded(g) /\ refused' = refused \cup {g} /\ UNCHANGED accepted
  BY DEF CreateIPS
<1> HIDE DEF whole
<1>4. PoliciesTyped
  BY DEF PolicyInv
<1>5. /\ DOMAIN Superseded(g) = DOMAIN policies
      /\ \A j \in DOMAIN policies :
           /\ Superseded(g)[j] \in [group : Groups, status : {"ACTIVE", "SUPERSEDED"},
                                    body : Policies]
           /\ Superseded(g)[j].group = policies[j].group
           /\ Superseded(g)[j].body = policies[j].body
           /\ policies[j].group = g => Superseded(g)[j].status = "SUPERSEDED"
           /\ policies[j].group # g => Superseded(g)[j] = policies[j]
  BY <1>4, SupersededIs
<1>6. /\ DOMAIN policies' = DOMAIN policies \cup (IF whole THEN {i} ELSE {})
      /\ \A j \in DOMAIN policies : policies'[j] = Superseded(g)[j]
      /\ whole => policies'[i] = [group |-> g, status |-> "ACTIVE", body |-> p]
  BY <1>1, <1>2, <1>3, <1>5 DEF Put
<1>7. PoliciesTyped'
  BY <1>1, <1>2, <1>3, <1>4, <1>5, <1>6 DEF PoliciesTyped
<1>8. ViolationsTyped'
  BY <1>1, <1>6 DEF PolicyInv, ViolationsTyped
<1>9. ASSUME NEW f \in Groups, f # g PROVE ActiveOf(f)' = ActiveOf(f)
  BY <1>5, <1>6, <1>9 DEF ActiveOf
<1>10. ActiveOf(g)' = IF whole THEN {i} ELSE {}
  <2>1. \A j \in DOMAIN policies : ~(policies'[j].group = g /\ policies'[j].status = "ACTIVE")
    BY <1>5, <1>6
  <2>2. whole => policies'[i].group = g /\ policies'[i].status = "ACTIVE"
    BY <1>6
  <2> QED
    BY <1>6, <2>1, <2>2 DEF ActiveOf
<1>11. PolicyInForce'
  <2> SUFFICES ASSUME NEW f \in Groups
               PROVE  ActiveOf(f)' = IF accepted'[f] = None \/ f \in refused' THEN {} ELSE {accepted'[f]}
    BY DEF PolicyInForce
  <2>1. CASE f # g
    <3>1. accepted'[f] = accepted[f] /\ (f \in refused' <=> f \in refused)
      BY <1>2, <1>3, <1>4, <2>1 DEF PoliciesTyped
    <3> QED
      BY <1>9, <2>1, <3>1 DEF PolicyInv, PolicyInForce
  <2>2. CASE f = g
    <3>1. whole => accepted'[g] = i /\ g \notin refused'
      BY <1>2, <1>4 DEF PoliciesTyped
    <3>2. ~whole => g \in refused'
      BY <1>3
    <3>3. i # None
      BY FamilyConstants DEF None
    <3> QED
      BY <1>10, <2>2, <3>1, <3>2, <3>3
  <2> QED
    BY <2>1, <2>2
<1>12. ViolationsShow'
  <2> SUFFICES ASSUME NEW f \in checked', NEW j \in ActiveOf(f)', NEW v \in Found(f, policies[j].body)'
               PROVE  Open(j, v)' > 0
    BY DEF ViolationsShow
  <2>1. f \in checked /\ f # g /\ f \in Groups
    BY <1>1, <1>4 DEF PoliciesTyped
  <2>2. j \in ActiveOf(f)
    BY <1>9, <2>1
  <2>3. policies'[j].body = policies[j].body
    BY <1>5, <1>6, <2>2 DEF ActiveOf
  <2>4. Found(f, policies[j].body)' = Found(f, policies[j].body)
    <3>1. AllHoldings(f)' = AllHoldings(f)
      BY <1>1 DEF AllHoldings
    <3> QED
      BY <2>3, <3>1 DEF Found
  <2>5. v \in Found(f, policies[j].body)
    BY <2>3, <2>4
  <2>6. Open(j, v)' = Open(j, v)
    BY <1>1 DEF Open
  <2> QED
    BY <2>1, <2>2, <2>5, <2>6 DEF PolicyInv, ViolationsShow
<1> QED
  BY <1>7, <1>8, <1>11, <1>12 DEF PolicyInv

(* enforceIPS.                                                             *)
LEMMA EnforceKeeps ==
  ASSUME PolicyInv, NEW g \in Groups, EnforceIPS(g)
  PROVE  PolicyInv'
<1>1. PICK i \in ActiveOf(g) :
        LET found == Found(g, policies[i].body)
        IN  /\ \A v \in found : Open(i, v) < MaxOpen
            /\ violations' = [k \in DOMAIN violations \cup {<<i, v>> : v \in found} |->
                                IF k \in {<<i, v>> : v \in found} THEN Open(i, k[2]) + 1
                                ELSE violations[k]]
            /\ checked' = checked \cup {g}
            /\ UNCHANGED <<entities, policies, accepted, refused, vault, payoutVars>>
  BY DEF EnforceIPS
<1> DEFINE found == Found(g, policies[i].body)
           rows == {<<i, v>> : v \in found}
<1>2. /\ \A v \in found : Open(i, v) < MaxOpen
      /\ DOMAIN violations' = DOMAIN violations \cup rows
      /\ \A k \in DOMAIN violations \cup rows :
           violations'[k] = IF k \in rows THEN Open(i, k[2]) + 1 ELSE violations[k]
      /\ checked' = checked \cup {g}
      /\ UNCHANGED <<entities, policies, accepted, refused>>
  BY <1>1
<1>3. i \in DOMAIN policies /\ MaxOpen \in Nat
  BY FamilyConstants DEF ActiveOf
<1>4. \A k \in rows : \E v \in found : k = <<i, v>> /\ k[2] = v
  OBVIOUS
<1>5. \A v \in found : <<i, v>> \in rows
  OBVIOUS
<1> HIDE DEF found, rows
<1>6. ASSUME NEW v PROVE Open(i, v) \in Nat
  BY FamilyConstants DEF Open, PolicyInv, ViolationsTyped
<1>7. PoliciesTyped'
  BY <1>2 DEF PolicyInv, PoliciesTyped
<1>8. ViolationsTyped'
  <2> SUFFICES ASSUME NEW k \in DOMAIN violations'
               PROVE  /\ \E j \in DOMAIN policies' : \E v : k = <<j, v>>
                      /\ violations'[k] \in 0..MaxOpen
    BY DEF ViolationsTyped
  <2>1. CASE k \in rows
    <3>1. PICK v \in found : k = <<i, v>> /\ k[2] = v
      BY <1>4, <2>1
    <3>2. violations'[k] = Open(i, v) + 1 /\ Open(i, v) < MaxOpen /\ Open(i, v) \in Nat
      BY <1>2, <1>6, <2>1, <3>1
    <3>3. violations'[k] \in 0..MaxOpen
      BY <1>3, <3>2
    <3> QED
      BY <1>2, <1>3, <3>1, <3>3
  <2>2. CASE k \notin rows
    BY <1>2, <2>2 DEF PolicyInv, ViolationsTyped
  <2> QED
    BY <2>1, <2>2
<1>9. \A f : ActiveOf(f)' = ActiveOf(f)
  BY <1>2 DEF ActiveOf
<1>10. PolicyInForce'
  BY <1>2, <1>9 DEF PolicyInv, PolicyInForce
<1>11. ViolationsShow'
  <2> SUFFICES ASSUME NEW f \in checked', NEW j \in ActiveOf(f)', NEW v \in Found(f, policies[j].body)'
               PROVE  Open(j, v)' > 0
    BY DEF ViolationsShow
  <2>1. j \in ActiveOf(f) /\ policies'[j].body = policies[j].body
    BY <1>2, <1>9
  <2>2. Found(f, policies[j].body)' = Found(f, policies[j].body)
    <3>1. AllHoldings(f)' = AllHoldings(f)
      BY <1>2 DEF AllHoldings
    <3> QED
      BY <2>1, <3>1 DEF Found
  <2>3. v \in Found(f, policies[j].body)
    BY <2>1, <2>2
  <2>4. CASE <<j, v>> \in rows
    <3>1. PICK u \in found : <<j, v>> = <<i, u>> /\ <<j, v>>[2] = u
      BY <1>4, <2>4
    <3>2. violations'[<<j, v>>] = Open(i, u) + 1
      BY <1>2, <2>4, <3>1
    <3>3. Open(j, v)' = Open(i, u) + 1
      BY <1>2, <2>4, <3>2 DEF Open
    <3> QED
      BY <1>6, <3>3
  <2>5. CASE <<j, v>> \notin rows
    <3>1. f # g \/ j # i
      BY <1>5, <2>3, <2>5 DEF found
    <3>2. f \in checked
      <4>1. CASE f = g
        <5>1. ActiveOf(g) = {} \/ \E a : ActiveOf(g) = {a}
          BY DEF PolicyInv, PolicyInForce
        <5>2. i = j
          BY <1>1, <2>1, <4>1, <5>1
        <5> QED
          BY <3>1, <4>1, <5>2
      <4>2. CASE f # g
        BY <1>2, <4>2
      <4> QED
        BY <4>1, <4>2
    <3>3. Open(j, v) > 0
      BY <2>1, <2>3, <3>2 DEF PolicyInv, ViolationsShow
    <3>4. Open(j, v)' = Open(j, v)
      BY <1>2, <2>5 DEF Open
    <3> QED
      BY <3>3, <3>4
  <2> QED
    BY <2>4, <2>5
<1> QED
  BY <1>7, <1>8, <1>10, <1>11 DEF PolicyInv

(* resolveIPSViolation.                                                    *)
LEMMA ResolveKeeps ==
  ASSUME PolicyInv, NEW k \in DOMAIN violations, ResolveIPSViolation(k)
  PROVE  PolicyInv'
<1>1. /\ violations[k] > 0 /\ violations' = [violations EXCEPT ![k] = @ - 1]
      /\ checked' = checked \ {policies[k[1]].group}
      /\ UNCHANGED <<entities, policies, accepted, refused>>
  BY DEF ResolveIPSViolation
<1>2. /\ DOMAIN violations' = DOMAIN violations
      /\ violations'[k] = violations[k] - 1
      /\ \A r \in DOMAIN violations : r # k => violations'[r] = violations[r]
  BY <1>1
<1>3. PoliciesTyped'
  BY <1>1 DEF PolicyInv, PoliciesTyped
<1>4. ViolationsTyped'
  <2>1. violations[k] - 1 \in 0..MaxOpen
    BY <1>1, FamilyConstants DEF PolicyInv, ViolationsTyped
  <2> QED
    BY <1>1, <1>2, <2>1 DEF PolicyInv, ViolationsTyped
<1>5. \A f : ActiveOf(f)' = ActiveOf(f)
  BY <1>1 DEF ActiveOf
<1>6. PolicyInForce'
  BY <1>1, <1>5 DEF PolicyInv, PolicyInForce
<1>7. ViolationsShow'
  <2> SUFFICES ASSUME NEW f \in checked', NEW j \in ActiveOf(f)', NEW v \in Found(f, policies[j].body)'
               PROVE  Open(j, v)' > 0
    BY DEF ViolationsShow
  <2>1. j \in ActiveOf(f) /\ policies'[j].body = policies[j].body
    BY <1>1, <1>5
  <2>2. Found(f, policies[j].body)' = Found(f, policies[j].body)
    <3>1. AllHoldings(f)' = AllHoldings(f)
      BY <1>1 DEF AllHoldings
    <3> QED
      BY <2>1, <3>1 DEF Found
  <2>3. f \in checked /\ f # policies[k[1]].group
    BY <1>1
  <2>4. policies[j].group = f
    BY <2>1 DEF ActiveOf
  <2>5. <<j, v>> # k
    BY <2>3, <2>4
  <2>6. Open(j, v)' = Open(j, v)
    BY <1>2, <2>5 DEF Open
  <2> QED
    BY <2>1, <2>2, <2>3, <2>6 DEF PolicyInv, ViolationsShow
<1> QED
  BY <1>3, <1>4, <1>6, <1>7 DEF PolicyInv

(* Payouts and documents touch none of this.                               *)
LEMMA PoliciesStand == PolicyInv /\ UNCHANGED policyVars => PolicyInv'
<1> SUFFICES ASSUME PolicyInv, UNCHANGED policyVars PROVE PolicyInv'
  OBVIOUS
<1>1. UNCHANGED <<entities, policies, violations, accepted, refused, checked>>
  BY DEF policyVars
<1>2. ASSUME NEW f PROVE ActiveOf(f)' = ActiveOf(f) /\ AllHoldings(f)' = AllHoldings(f)
  BY <1>1 DEF ActiveOf, AllHoldings
<1>3. ASSUME NEW f, NEW j PROVE Found(f, policies[j].body)' = Found(f, policies[j].body)
  <2>1. AllHoldings(f)' = AllHoldings(f)
    BY <1>2
  <2>2. policies'[j].body = policies[j].body
    BY <1>1
  <2> QED
    BY <2>1, <2>2 DEF Found
<1>4. ViolationsShow'
  <2> SUFFICES ASSUME NEW f \in checked', NEW j \in ActiveOf(f)', NEW v \in Found(f, policies[j].body)'
               PROVE  Open(j, v)' > 0
    BY DEF ViolationsShow
  <2>1. j \in ActiveOf(f) /\ f \in checked
    BY <1>1, <1>2
  <2>2. v \in Found(f, policies[j].body)
    BY <1>1, <1>3
  <2> QED
    BY <1>1, <2>1, <2>2 DEF PolicyInv, ViolationsShow, Open
<1>5. PolicyInForce'
  BY <1>1, <1>2 DEF PolicyInv, PolicyInForce
<1> QED
  BY <1>1, <1>4, <1>5 DEF PolicyInv, PoliciesTyped, ViolationsTyped

(* Every step of the families keeps that.                                  *)
LEMMA PolicyStep == PolicyInv /\ [FamilyNext]_familyVars => PolicyInv'
<1> SUFFICES ASSUME PolicyInv, [FamilyNext]_familyVars PROVE PolicyInv'
  OBVIOUS
<1>1. CASE UNCHANGED policyVars
  BY <1>1, PoliciesStand
<1>2. CASE UNCHANGED familyVars
  BY <1>2, PoliciesStand DEF familyVars, policyVars
<1>3. CASE PayoutNext \/ VaultNext
  <2>1. UNCHANGED policyVars
    BY <1>3 DEF PayoutNext, VaultNext, NewYear, RecordDistribution, GetDocument, StoreDocument
  <2> QED
    BY <2>1, PoliciesStand
<1>4. CASE PolicyNext
  <2>1. ASSUME NEW e \in Entities, NEW h \in HoldingSets, UpdateEntityHoldings(e, h)
        PROVE  PolicyInv'
    <3>1. /\ e \in DOMAIN entities /\ entities' = [entities EXCEPT ![e].held = h]
          /\ checked' = checked \ {entities[e].group}
          /\ UNCHANGED <<policies, violations, accepted, refused>>
      BY <2>1 DEF UpdateEntityHoldings
    <3>2. PICK was \in [group : Groups, held : HoldingSets] : was = entities[e]
      BY <3>1 DEF PolicyInv, PoliciesTyped
    <3>3. [was EXCEPT !.held = h] = [group |-> was.group, held |-> h]
      BY <3>2
    <3>4. entities' = [entities EXCEPT ![e] = [was EXCEPT !.held = h]]
      BY <3>1, <3>2
    <3>5. entities' = [d \in DOMAIN entities |-> IF d = e THEN [was EXCEPT !.held = h] ELSE entities[d]]
      BY <3>4
    <3>6. entities' = Put(entities, e, [group |-> was.group, held |-> h])
      <4>1. DOMAIN entities \cup {e} = DOMAIN entities
        BY <3>1
      <4> QED
        BY <3>3, <3>5, <4>1 DEF Put
    <3> QED
      BY <3>1, <3>2, <3>6, EntityKeeps
  <2>2. ASSUME NEW e \in Entities, NEW h \in HoldingSets, NEW g \in Groups, AddEntity(e, g, h)
        PROVE  PolicyInv'
    BY <2>2, EntityKeeps DEF AddEntity
  <2> QED
    BY <1>4, <2>1, <2>2, EnforceKeeps, CreateIPSKeeps, ResolveKeeps DEF PolicyNext
<1> QED
  BY <1>2, <1>3, <1>4 DEF FamilyNext

(* So the policies and violations are always as they should be.            *)
LEMMA PolicyKept == FamilySpec => []PolicyInv
<1>1. FamilyInit => PolicyInv
  <2> SUFFICES ASSUME FamilyInit PROVE PolicyInv
    OBVIOUS
  <2>1. /\ DOMAIN policies = {} /\ DOMAIN violations = {} /\ DOMAIN entities = {}
        /\ accepted = [g \in Groups |-> None] /\ checked = {}
    BY DEF FamilyInit, NoEntries
  <2>2. PolicyInForce
    BY <2>1 DEF PolicyInForce, ActiveOf
  <2> QED
    BY <2>1, <2>2 DEF PolicyInv, PoliciesTyped, ViolationsTyped, ViolationsShow
<1> QED
  BY <1>1, PolicyStep, PTL DEF FamilySpec

(* A family has one policy in force, the last one accepted, and right      *)
(* after an enforcement every breach of it has an open violation.          *)
THEOREM PoliciesEnforced == FamilySpec => [](PolicyInForce /\ ViolationsShow)
<1>1. PolicyInv => PolicyInForce /\ ViolationsShow
  BY DEF PolicyInv
<1> QED
  BY <1>1, PolicyKept, PTL

-----------------------------------------------------------------------------
(* The families: distributions and documents.                              *)

(* What was distributed each year, and that the totals follow it.          *)
PaidOut == [y \in 1..LastYear |-> payouts[y][1]]

PayoutInv ==
  /\ year \in 1..LastYear /\ payouts \in [1..LastYear -> Nat \X Nat]
  /\ running \in [lifetime : Nat, ytd : Nat, last : 0..LastYear] /\ running.last <= year
  /\ running.lifetime = IntegerSum(PaidOut)
  /\ running.last > 0 => running.ytd = payouts[running.last][1]

(* The total of the distributions is a sum over the years.                 *)
LEMMA PayoutsSummed == MapThenSumSet(LAMBDA y : payouts[y][1], 1..LastYear) = IntegerSum(PaidOut)
<1> DEFINE S == 1..LastYear
           U(it) == it = [s \in SUBSET S |-> IF s = {} THEN 0
                            ELSE payouts[Chosen(s)][1] + it[s \ {Chosen(s)}]]
           fold == CHOOSE it : U(it)
<1>1. MapThenSumSet(LAMBDA y : payouts[y][1], S) = fold[S]
  BY Zenon DEF MapThenSumSet, MapThenFoldSet, Chosen
<1>2. ASSUME NEW it PROVE U(it) <=> Unfolds(it, PaidOut)
  <2>1. \A s \in SUBSET S : s # {} => Chosen(s) \in S
    BY DEF Chosen
  <2>2. \A s \in SUBSET S : s # {} => PaidOut[Chosen(s)] = payouts[Chosen(s)][1]
    BY <2>1 DEF PaidOut
  <2>3. DOMAIN PaidOut = S
    BY DEF PaidOut
  <2> QED
    BY <2>2, <2>3 DEF Unfolds
<1>3. IsFiniteSet(DOMAIN PaidOut)
  <2>1. 1 \in Int /\ LastYear \in Int
    BY FamilyConstants
  <2> QED
    BY <2>1, FS_Interval DEF PaidOut
<1>4. U(fold)
  <2>1. \E it : U(it)
    BY <1>2, <1>3, Recursion
  <2> HIDE DEF U
  <2> QED
    BY <2>1
<1>5. Unfolds(fold, PaidOut) /\ DOMAIN PaidOut = S
  BY <1>2, <1>4 DEF PaidOut
<1> HIDE DEF fold
<1>6. fold[S] = IntegerSum(PaidOut)
  BY <1>3, <1>5, FoldEndsInSum
<1> QED
  BY <1>1, <1>6

(* Every step of the families keeps the totals of the distributions.       *)
LEMMA PayoutStep == PayoutInv /\ [FamilyNext]_familyVars => PayoutInv'
<1> SUFFICES ASSUME PayoutInv, [FamilyNext]_familyVars PROVE PayoutInv'
  OBVIOUS
<1>1. CASE UNCHANGED <<payouts, running, year>>
  <2>1. PaidOut' = PaidOut
    BY <1>1 DEF PaidOut
  <2> QED
    BY <1>1, <2>1 DEF PayoutInv
<1>2. CASE NewYear
  <2>1. PaidOut' = PaidOut /\ UNCHANGED <<payouts, running>> /\ year' \in 1..LastYear /\ year' = year + 1
    BY <1>2, FamilyConstants DEF PaidOut, NewYear, PayoutInv
  <2> QED
    BY <2>1 DEF PayoutInv
<1>3. ASSUME NEW a \in Payouts, RecordDistribution(a) PROVE PayoutInv'
  <2>1. /\ payouts' = [payouts EXCEPT ![year] = <<@[1] + a, @[2] + 1>>]
        /\ running' = [lifetime |-> running.lifetime + a, ytd |-> payouts'[year][1], last |-> year]
        /\ year' = year /\ a \in Nat
    BY <1>3, FamilyConstants DEF RecordDistribution
  <2>2. PICK n, m \in Nat : payouts[year] = <<n, m>>
    BY DEF PayoutInv
  <2>3. payouts' = [payouts EXCEPT ![year] = <<n + a, m + 1>>]
    BY <2>1, <2>2
  <2>4. /\ payouts'[year] = <<n + a, m + 1>> /\ payouts' \in [1..LastYear -> Nat \X Nat]
        /\ \A y \in 1..LastYear : y # year => payouts'[y] = payouts[y]
    BY <2>1, <2>3 DEF PayoutInv
  <2>5. /\ IsFiniteSet(DOMAIN PaidOut) /\ DOMAIN PaidOut' = DOMAIN PaidOut
        /\ \A y \in DOMAIN PaidOut : PaidOut[y] \in Int
        /\ year \in DOMAIN PaidOut /\ PaidOut[year] = n /\ PaidOut'[year] = n + a
        /\ \A y \in DOMAIN PaidOut : y # year => PaidOut'[y] = PaidOut[y]
    <3>1. DOMAIN PaidOut = 1..LastYear /\ DOMAIN PaidOut' = 1..LastYear /\ year \in 1..LastYear
      BY DEF PaidOut, PayoutInv
    <3>2. \A y \in 1..LastYear : PaidOut[y] = payouts[y][1] /\ PaidOut'[y] = payouts'[y][1]
      BY DEF PaidOut
    <3>3. \A y \in 1..LastYear : payouts[y][1] \in Nat
      BY DEF PayoutInv
    <3>4. payouts[year][1] = n /\ payouts'[year][1] = n + a
      BY <2>2, <2>4
    <3>5. IsFiniteSet(1..LastYear)
      <4>1. 1 \in Int /\ LastYear \in Int
        BY FamilyConstants
      <4> QED
        BY <4>1, FS_Interval
    <3> QED
      BY <2>4, <3>1, <3>2, <3>3, <3>4, <3>5
  <2>6. IntegerSum(PaidOut') = IntegerSum(PaidOut) - n + (n + a)
    BY <2>1, <2>5, SumChange
  <2>7. IntegerSum(PaidOut) \in Int
    BY <2>5, SumType
  <2>8. IntegerSum(PaidOut)' = IntegerSum(PaidOut) + a
    BY <2>1, <2>6, <2>7
  <2>9. payouts'[year][1] = n + a
    BY <2>4
  <2>10. /\ running.lifetime \in Nat /\ running.lifetime = IntegerSum(PaidOut) /\ year \in 1..LastYear
         /\ running'.lifetime = running.lifetime + a /\ running'.ytd = n + a /\ running'.last = year
    BY <2>1, <2>9 DEF PayoutInv
  <2>11. running' \in [lifetime : Nat, ytd : Nat, last : 0..LastYear]
    BY <2>1, <2>9, <2>10
  <2> QED
    BY <2>1, <2>4, <2>8, <2>9, <2>10, <2>11 DEF PayoutInv
<1>4. CASE PolicyNext \/ VaultNext
  <2>1. UNCHANGED payoutVars
    BY <1>4 DEF PolicyNext, VaultNext, UpdateEntityHoldings, AddEntity, EnforceIPS, CreateIPS,
                ResolveIPSViolation, GetDocument, StoreDocument
  <2> QED
    BY <1>1, <2>1 DEF payoutVars
<1> QED
  BY <1>1, <1>2, <1>3, <1>4 DEF FamilyNext, PayoutNext, familyVars

(* The documents of a group and their access logs are well formed.         *)
VaultTyped == \A d \in DOMAIN vault : vault[d] \in [group : Groups, views : 0..MaxViews]

(* Every step of the families keeps the documents well formed.             *)
LEMMA VaultStep == VaultTyped /\ [FamilyNext]_familyVars => VaultTyped'
<1> SUFFICES ASSUME VaultTyped, [FamilyNext]_familyVars PROVE VaultTyped'
  OBVIOUS
<1>1. CASE UNCHANGED vault
  BY <1>1 DEF VaultTyped
<1>2. ASSUME NEW d \in Documents, NEW g \in Groups, StoreDocument(d, g) PROVE VaultTyped'
  BY <1>2, FamilyConstants DEF VaultTyped, StoreDocument, Put
<1>3. ASSUME NEW d \in Documents, GetDocument(d) PROVE VaultTyped'
  <2>1. PICK r \in [group : Groups, views : 0..MaxViews] : r = vault[d]
    BY <1>3 DEF GetDocument, VaultTyped
  <2>2. r.views \in 0..MaxViews /\ r.views < MaxViews
    BY <1>3, <2>1 DEF GetDocument
  <2>3. vault' = [vault EXCEPT ![d] = [r EXCEPT !.views = r.views + 1]]
    BY <1>3, <2>1 DEF GetDocument
  <2>4. [r EXCEPT !.views = r.views + 1] \in [group : Groups, views : 0..MaxViews]
    BY <2>1, <2>2, FamilyConstants
  <2> QED
    BY <2>3, <2>4 DEF VaultTyped
<1>4. CASE PolicyNext \/ PayoutNext
  <2>1. UNCHANGED vault
    BY <1>4 DEF PolicyNext, PayoutNext, UpdateEntityHoldings, AddEntity, EnforceIPS, CreateIPS,
                ResolveIPSViolation, NewYear, RecordDistribution
  <2> QED
    BY <1>1, <2>1
<1> QED
  BY <1>1, <1>2, <1>3, <1>4 DEF FamilyNext, VaultNext, familyVars

(* So the totals and the vault are always as they should be.               *)
LEMMA PayoutKept == FamilySpec => [](PayoutInv /\ VaultTyped)
<1>1. FamilyInit => PayoutInv /\ VaultTyped
  <2> SUFFICES ASSUME FamilyInit PROVE PayoutInv /\ VaultTyped
    OBVIOUS
  <2>1. /\ payouts = [y \in 1..LastYear |-> <<0, 0>>] /\ year = 1
        /\ running = [lifetime |-> 0, ytd |-> 0, last |-> 0] /\ DOMAIN vault = {}
    BY DEF FamilyInit, NoEntries
  <2>2. PaidOut = [y \in 1..LastYear |-> 0]
    BY <2>1 DEF PaidOut
  <2>3. IsFiniteSet(1..LastYear)
    <3>1. 1 \in Int /\ LastYear \in Int
      BY FamilyConstants
    <3> QED
      BY <3>1, FS_Interval
  <2>4. IntegerSum([y \in 1..LastYear |-> 0]) = 0
    BY <2>3, SumOfNaturals
  <2> QED
    BY <2>1, <2>2, <2>4, FamilyConstants DEF PayoutInv, VaultTyped
<1> QED
  BY <1>1, PayoutStep, VaultStep, PTL DEF FamilySpec

(* What a family's totals say it was paid, in all and in the last year it  *)
(* was paid anything, is what it was paid, whatever years pass in between. *)
THEOREM PayoutsCounted == FamilySpec => [](VaultTyped /\ TotalsFollowPayouts)
<1>1. PayoutInv => TotalsFollowPayouts
  BY PayoutsSummed DEF PayoutInv, TotalsFollowPayouts
<1> QED
  BY <1>1, PayoutKept, PTL

(* What the family office keeps is of its types.                           *)
LEMMA FamilyTyped == PolicyInv /\ PayoutInv /\ VaultTyped => FamilyTypeOK
<1> SUFFICES ASSUME PolicyInv, PayoutInv, VaultTyped PROVE FamilyTypeOK
  OBVIOUS
<1>1. \A k \in DOMAIN violations : k[1] \in DOMAIN policies /\ violations[k] \in 0..MaxOpen
  BY DEF PolicyInv, ViolationsTyped
<1>2. running.last \in 0..year
  BY DEF PayoutInv
<1> QED
  BY <1>1, <1>2 DEF PolicyInv, PoliciesTyped, VaultTyped, FamilyTypeOK

-----------------------------------------------------------------------------
(* A person's books: net worth, goals and beneficiaries.                   *)

(* The values a customer has in a store.                                   *)
OwnedIn(store, c) == {k \in DOMAIN store : store[k].owner = c}

(* What each of them is worth.                                             *)
ValuesOf(store, c) == [k \in OwnedIn(store, c) |-> store[k].value]

(* A finite store of such entries.                                         *)
Kept(store) ==
  IsFiniteSet(DOMAIN store) /\ store \in [DOMAIN store -> [owner : Customers, value : Worths]]

(* Their sum is a sum.                                                     *)
LEMMA OwnedSummed ==
  ASSUME NEW store, NEW c, IsFiniteSet(DOMAIN store)
  PROVE  SumOwned(store, c) = IntegerSum(ValuesOf(store, c))
<1> DEFINE S == OwnedIn(store, c)
           w == ValuesOf(store, c)
           U(it) == it = [s \in SUBSET S |-> IF s = {} THEN 0
                            ELSE store[Chosen(s)].value + it[s \ {Chosen(s)}]]
           fold == CHOOSE it : U(it)
<1>1. SumOwned(store, c) = fold[S]
  BY Zenon DEF SumOwned, MapThenSumSet, MapThenFoldSet, Chosen, OwnedIn
<1>2. DOMAIN w = S /\ IsFiniteSet(S)
  BY FS_Subset DEF OwnedIn, ValuesOf
<1>3. ASSUME NEW it PROVE U(it) <=> Unfolds(it, w)
  <2>1. \A s \in SUBSET S : s # {} => Chosen(s) \in S
    BY DEF Chosen
  <2>2. \A s \in SUBSET S : s # {} => w[Chosen(s)] = store[Chosen(s)].value
    BY <2>1 DEF ValuesOf
  <2> HIDE DEF w, S
  <2> QED
    BY <1>2, <2>2 DEF Unfolds
<1>4. U(fold)
  <2>1. \E it : U(it)
    BY <1>2, <1>3, Recursion
  <2> HIDE DEF U
  <2> QED
    BY <2>1
<1>5. Unfolds(fold, w)
  BY <1>3, <1>4
<1> HIDE DEF fold, w, S
<1>6. fold[S] = IntegerSum(w)
  BY <1>2, <1>5, FoldEndsInSum
<1> QED
  BY <1>1, <1>6 DEF w

(* What a customer owns in a store is finite, worth natural numbers, and   *)
(* adds up to what SumOwned says.                                          *)
LEMMA OwnedTyped ==
  ASSUME NEW store, NEW c, Kept(store)
  PROVE  /\ DOMAIN ValuesOf(store, c) = OwnedIn(store, c) /\ IsFiniteSet(OwnedIn(store, c))
         /\ \A k \in OwnedIn(store, c) :
              ValuesOf(store, c)[k] = store[k].value /\ ValuesOf(store, c)[k] \in Nat
         /\ IntegerSum(ValuesOf(store, c)) \in Int
         /\ SumOwned(store, c) = IntegerSum(ValuesOf(store, c))
<1>1. IsFiniteSet(DOMAIN store)
  BY DEF Kept
<1>2. DOMAIN ValuesOf(store, c) = OwnedIn(store, c) /\ IsFiniteSet(OwnedIn(store, c))
  BY <1>1, FS_Subset DEF ValuesOf, OwnedIn
<1>3. \A k \in OwnedIn(store, c) :
        ValuesOf(store, c)[k] = store[k].value /\ ValuesOf(store, c)[k] \in Nat
  BY PersonalConstants DEF ValuesOf, OwnedIn, Kept
<1> QED
  BY <1>1, <1>2, <1>3, SumType, OwnedSummed

(* Another entry adds its value to its owner's sum.                        *)
LEMMA OwnedStored ==
  ASSUME NEW store, Kept(store), NEW k, k \notin DOMAIN store, NEW c \in Customers,
         NEW v \in Worths, NEW next, next = Stored(store, k, [owner |-> c, value |-> v]), NEW d
  PROVE  /\ Kept(next)
         /\ SumOwned(next, d) = SumOwned(store, d) + (IF d = c THEN v ELSE 0)
<1>1. /\ DOMAIN next = DOMAIN store \cup {k} /\ next[k] = [owner |-> c, value |-> v]
      /\ \A j \in DOMAIN store : next[j] = store[j]
  BY DEF Stored
<1>2. Kept(next)
  <2>1. IsFiniteSet(DOMAIN next)
    BY <1>1, FS_AddElement DEF Kept
  <2>2. next = [x \in DOMAIN next |-> next[x]]
    BY <1>1 DEF Stored
  <2>3. \A x \in DOMAIN next : next[x] \in [owner : Customers, value : Worths]
    BY <1>1 DEF Kept
  <2> QED
    BY <2>1, <2>2, <2>3 DEF Kept
<1>3. /\ DOMAIN ValuesOf(store, d) = OwnedIn(store, d)
      /\ SumOwned(store, d) = IntegerSum(ValuesOf(store, d)) /\ SumOwned(store, d) \in Int
      /\ \A j \in OwnedIn(store, d) : ValuesOf(store, d)[j] = store[j].value
  BY OwnedTyped
<1>4. /\ DOMAIN ValuesOf(next, d) = OwnedIn(next, d) /\ IsFiniteSet(OwnedIn(next, d))
      /\ SumOwned(next, d) = IntegerSum(ValuesOf(next, d))
      /\ \A j \in OwnedIn(next, d) : ValuesOf(next, d)[j] = next[j].value /\ ValuesOf(next, d)[j] \in Nat
  BY <1>2, OwnedTyped
<1>5. OwnedIn(next, d) = IF d = c THEN OwnedIn(store, d) \cup {k} ELSE OwnedIn(store, d)
  BY <1>1 DEF OwnedIn
<1>6. \A j \in OwnedIn(store, d) : ValuesOf(next, d)[j] = ValuesOf(store, d)[j]
  BY <1>1, <1>3, <1>4, <1>5 DEF OwnedIn
<1>7. CASE d = c
  <2>1. /\ k \in DOMAIN ValuesOf(next, d) /\ ValuesOf(next, d)[k] = v
        /\ DOMAIN ValuesOf(store, d) = DOMAIN ValuesOf(next, d) \ {k}
    BY <1>1, <1>3, <1>4, <1>5, <1>7 DEF OwnedIn
  <2>2. IntegerSum(ValuesOf(next, d)) = v + IntegerSum(ValuesOf(store, d))
    <3>1. /\ IsFiniteSet(DOMAIN ValuesOf(next, d))
          /\ \A x \in DOMAIN ValuesOf(next, d) : ValuesOf(next, d)[x] \in Int
          /\ \A x \in DOMAIN ValuesOf(store, d) : ValuesOf(store, d)[x] = ValuesOf(next, d)[x]
      BY <1>3, <1>4, <1>6
    <3>2. PICK f, g : f = ValuesOf(next, d) /\ g = ValuesOf(store, d)
      OBVIOUS
    <3>3. IntegerSum(f) = f[k] + IntegerSum(g)
      BY <2>1, <3>1, <3>2, SumWithout
    <3> QED
      BY <2>1, <3>2, <3>3
  <2>3. v \in Int
    BY PersonalConstants
  <2> QED
    BY <1>2, <1>3, <1>4, <1>7, <2>2, <2>3
<1>8. CASE d # c
  <2>1. IntegerSum(ValuesOf(next, d)) = IntegerSum(ValuesOf(store, d))
    BY <1>3, <1>4, <1>5, <1>6, <1>8, SumSame
  <2> QED
    BY <1>2, <1>3, <1>4, <1>8, <2>1
<1> QED
  BY <1>7, <1>8

(* An entry taken out takes its value from its owner's sum: what was there *)
(* is what remains with the entry stored again.                            *)
LEMMA OwnedDropped ==
  ASSUME NEW store, Kept(store), NEW k \in DOMAIN store, NEW d
  PROVE  /\ Kept(Dropped(store, k))
         /\ SumOwned(Dropped(store, k), d)
              = SumOwned(store, d) - (IF d = store[k].owner THEN store[k].value ELSE 0)
<1>1. PICK less : less = Dropped(store, k)
  OBVIOUS
<1>2. DOMAIN less = DOMAIN store \ {k} /\ \A j \in DOMAIN less : less[j] = store[j]
  BY <1>1 DEF Dropped
<1>3. Kept(less)
  <2>1. IsFiniteSet(DOMAIN less)
    BY <1>2, FS_Subset DEF Kept
  <2>2. less = [x \in DOMAIN less |-> less[x]]
    BY <1>1, <1>2 DEF Dropped
  <2>3. \A x \in DOMAIN less : less[x] \in [owner : Customers, value : Worths]
    BY <1>2 DEF Kept
  <2> QED
    BY <2>1, <2>2, <2>3 DEF Kept
<1>4. PICK c \in Customers, v \in Worths : store[k] = [owner |-> c, value |-> v]
  BY DEF Kept
<1>5. store = Stored(less, k, [owner |-> c, value |-> v])
  <2>1. DOMAIN less \cup {k} = DOMAIN store
    BY <1>2
  <2>2. store = [x \in DOMAIN store |-> store[x]]
    BY DEF Kept
  <2>3. \A x \in DOMAIN store : store[x] = IF x = k THEN [owner |-> c, value |-> v] ELSE less[x]
    BY <1>2, <1>4
  <2> QED
    BY <2>1, <2>2, <2>3 DEF Stored
<1>6. SumOwned(store, d) = SumOwned(less, d) + (IF d = c THEN v ELSE 0)
  BY <1>2, <1>3, <1>5, OwnedStored
<1>7. store[k].owner = c /\ store[k].value = v /\ v \in Int /\ SumOwned(less, d) \in Int
  BY <1>3, <1>4, OwnedTyped, PersonalConstants
<1> QED
  BY <1>1, <1>3, <1>6, <1>7

(* A store with one of its values changed.                                 *)
Revalued(store, k, v) == [store EXCEPT ![k].value = v]

(* A new value takes the place of the old one in its owner's sum.          *)
LEMMA OwnedUpdated ==
  ASSUME NEW store, Kept(store), NEW k \in DOMAIN store, NEW v \in Worths,
         NEW next, next = Revalued(store, k, v), NEW d
  PROVE  /\ Kept(next)
         /\ SumOwned(next, d)
              = SumOwned(store, d) + (IF d = store[k].owner THEN v - store[k].value ELSE 0)
<1>1. PICK r \in [owner : Customers, value : Worths] : r = store[k]
  BY DEF Kept
<1>2. PICK less : less = Dropped(store, k)
  OBVIOUS
<1>3. DOMAIN less = DOMAIN store \ {k} /\ \A j \in DOMAIN less : less[j] = store[j]
  BY <1>2 DEF Dropped
<1>4. next = [store EXCEPT ![k] = [r EXCEPT !.value = v]]
  BY <1>1 DEF Revalued
<1>5. [r EXCEPT !.value = v] = [owner |-> r.owner, value |-> v]
  BY <1>1
<1>6. next = [x \in DOMAIN store |-> IF x = k THEN [owner |-> r.owner, value |-> v] ELSE store[x]]
  BY <1>4, <1>5
<1>7. next = Stored(less, k, [owner |-> r.owner, value |-> v])
  <2>1. DOMAIN less \cup {k} = DOMAIN store
    BY <1>3
  <2>2. Stored(less, k, [owner |-> r.owner, value |-> v])
          = [x \in DOMAIN store |-> IF x = k THEN [owner |-> r.owner, value |-> v] ELSE less[x]]
    BY <2>1 DEF Stored
  <2>3. \A x \in DOMAIN store : x # k => less[x] = store[x]
    BY <1>3
  <2> QED
    BY <1>6, <2>2, <2>3
<1>8. Kept(less) /\ SumOwned(less, d) = SumOwned(store, d) - (IF d = r.owner THEN r.value ELSE 0)
  BY <1>1, <1>2, OwnedDropped
<1>9. Kept(next) /\ SumOwned(next, d) = SumOwned(less, d) + (IF d = r.owner THEN v ELSE 0)
  <2>1. PICK c \in Customers : c = r.owner
    BY <1>1
  <2>2. k \notin DOMAIN less /\ next = Stored(less, k, [owner |-> c, value |-> v])
    BY <1>3, <1>7, <2>1
  <2>3. Kept(next) /\ SumOwned(next, d) = SumOwned(less, d) + (IF d = c THEN v ELSE 0)
    BY <1>8, <2>2, OwnedStored
  <2> QED
    BY <2>1, <2>3
<1>10. SumOwned(store, d) \in Int /\ r.value \in Int /\ v \in Int
  BY <1>1, OwnedTyped, PersonalConstants
<1> QED
  BY <1>1, <1>8, <1>9, <1>10

(* What is owned and owed, and that the sum of the changes is the net.     *)
WealthInv ==
  /\ Kept(assets) /\ Kept(liabilities)
  /\ worth \in [Customers -> Int]
  /\ \A c \in Customers : SumOwned(assets, c) - SumOwned(liabilities, c) = worth[c]

(* A change of one customer's books by as much as that customer's worth    *)
(* changes keeps every net worth right.                                    *)
LEMMA WealthMoves ==
  ASSUME WealthInv, NEW c \in Customers, NEW n \in Int,
         Kept(assets'), Kept(liabilities'),
         worth' = [worth EXCEPT ![c] = worth[c] + n],
         \A d \in Customers : SumOwned(assets', d) - SumOwned(liabilities', d)
                              = SumOwned(assets, d) - SumOwned(liabilities, d)
                                + (IF d = c THEN n ELSE 0)
  PROVE  WealthInv'
<1>1. worth' \in [Customers -> Int] /\ worth'[c] = worth[c] + n
      /\ \A d \in Customers : d # c => worth'[d] = worth[d]
  BY DEF WealthInv
<1>2. ASSUME NEW d \in Customers
      PROVE  SumOwned(assets', d) - SumOwned(liabilities', d) = worth'[d]
  <2>1. SumOwned(assets, d) - SumOwned(liabilities, d) = worth[d] /\ worth[d] \in Int
    BY DEF WealthInv
  <2> QED
    BY <1>1, <2>1
<1> QED
  BY <1>1, <1>2 DEF WealthInv

(* Every change of assets and liabilities keeps that.                      *)
LEMMA WealthStep == WealthInv /\ [NetWorthNext]_wealthVars => WealthInv'
<1> SUFFICES ASSUME WealthInv, [NetWorthNext]_wealthVars PROVE WealthInv'
  OBVIOUS
<1>1. CASE UNCHANGED wealthVars
  BY <1>1 DEF wealthVars, WealthInv
<1>2. Kept(assets) /\ Kept(liabilities)
  BY DEF WealthInv
<1>3. ASSUME NEW d
      PROVE  SumOwned(assets, d) \in Int /\ SumOwned(liabilities, d) \in Int
  BY <1>2, OwnedTyped
<1>4. \A c \in Customers : worth[c] \in Int
  BY DEF WealthInv
<1>5. Worths \subseteq Int
  BY PersonalConstants
<1>6. ASSUME NEW c \in Customers, NEW t \in Things, NEW v \in Worths,
             AddAsset(c, t, v) \/ AddLiability(c, t, v)
      PROVE  WealthInv'
  <2>1. CASE AddAsset(c, t, v)
    <3>1. /\ t \notin DOMAIN assets /\ assets' = Stored(assets, t, [owner |-> c, value |-> v])
          /\ worth' = [worth EXCEPT ![c] = worth[c] + v] /\ liabilities' = liabilities
      BY <2>1 DEF AddAsset
    <3>2. ASSUME NEW d
          PROVE  Kept(assets') /\ SumOwned(assets', d) = SumOwned(assets, d) + (IF d = c THEN v ELSE 0)
      BY <1>2, <3>1, OwnedStored
    <3>3. \A d \in Customers : SumOwned(assets', d) - SumOwned(liabilities', d)
                               = SumOwned(assets, d) - SumOwned(liabilities, d)
                                 + (IF d = c THEN v ELSE 0)
      BY <1>3, <1>5, <3>1, <3>2
    <3> QED
      BY <1>2, <1>5, <3>1, <3>2, <3>3, WealthMoves
  <2>2. CASE AddLiability(c, t, v)
    <3>1. /\ t \notin DOMAIN liabilities
          /\ liabilities' = Stored(liabilities, t, [owner |-> c, value |-> v])
          /\ worth' = [worth EXCEPT ![c] = worth[c] - v] /\ assets' = assets
      BY <2>2 DEF AddLiability
    <3>2. ASSUME NEW d
          PROVE  /\ Kept(liabilities')
                 /\ SumOwned(liabilities', d) = SumOwned(liabilities, d) + (IF d = c THEN v ELSE 0)
      BY <1>2, <3>1, OwnedStored
    <3>3. worth' = [worth EXCEPT ![c] = worth[c] + (-v)] /\ -v \in Int
      <4>1. worth[c] + (-v) = worth[c] - v /\ -v \in Int
        BY <1>4, <1>5
      <4> QED
        BY <3>1, <4>1
    <3>4. \A d \in Customers : SumOwned(assets', d) - SumOwned(liabilities', d)
                               = SumOwned(assets, d) - SumOwned(liabilities, d)
                                 + (IF d = c THEN -v ELSE 0)
      BY <1>3, <1>5, <3>1, <3>2
    <3> QED
      BY <1>2, <3>1, <3>2, <3>3, <3>4, WealthMoves
  <2> QED
    BY <1>6, <2>1, <2>2
<1>7. ASSUME NEW c \in Customers, NEW t \in Things, NEW v \in Worths,
             UpdateAsset(c, t, v) \/ UpdateLiability(c, t, v)
      PROVE  WealthInv'
  <2>1. CASE UpdateAsset(c, t, v)
    <3>1. /\ t \in DOMAIN assets /\ assets[t].owner = c /\ assets' = Revalued(assets, t, v)
          /\ worth' = [worth EXCEPT ![c] = worth[c] + v - assets[t].value]
          /\ liabilities' = liabilities
      BY <2>1 DEF UpdateAsset, Owns, Revalued
    <3>2. PICK w \in Int : w = assets[t].value
      BY <1>2, <1>5, <3>1 DEF Kept
    <3>3. ASSUME NEW d
          PROVE  /\ Kept(assets')
                 /\ SumOwned(assets', d) = SumOwned(assets, d) + (IF d = c THEN v - w ELSE 0)
      <4>1. /\ Kept(assets')
            /\ SumOwned(assets', d) = SumOwned(assets, d) + (IF d = assets[t].owner THEN v - assets[t].value ELSE 0)
        BY <1>2, <3>1, OwnedUpdated
      <4> QED
        BY <3>1, <3>2, <4>1
    <3>4. worth' = [worth EXCEPT ![c] = worth[c] + (v - w)] /\ v - w \in Int
      <4>1. worth[c] + (v - w) = worth[c] + v - w /\ v - w \in Int
        BY <1>4, <1>5, <3>2
      <4> QED
        BY <3>1, <3>2, <4>1
    <3>5. \A d \in Customers : SumOwned(assets', d) - SumOwned(liabilities', d)
                               = SumOwned(assets, d) - SumOwned(liabilities, d)
                                 + (IF d = c THEN v - w ELSE 0)
      <4> SUFFICES ASSUME NEW d \in Customers
                   PROVE  SumOwned(assets', d) - SumOwned(liabilities', d)
                            = SumOwned(assets, d) - SumOwned(liabilities, d) + (IF d = c THEN v - w ELSE 0)
        OBVIOUS
      <4> QED
        BY <1>3, <1>5, <3>1, <3>2, <3>3
    <3> QED
      BY <1>2, <3>1, <3>3, <3>4, <3>5, WealthMoves
  <2>2. CASE UpdateLiability(c, t, v)
    <3>1. /\ t \in DOMAIN liabilities /\ liabilities[t].owner = c
          /\ liabilities' = Revalued(liabilities, t, v)
          /\ worth' = [worth EXCEPT ![c] = worth[c] - v + liabilities[t].value]
          /\ assets' = assets
      BY <2>2 DEF UpdateLiability, Owns, Revalued
    <3>2. PICK w \in Int : w = liabilities[t].value
      BY <1>2, <1>5, <3>1 DEF Kept
    <3>3. ASSUME NEW d
          PROVE  /\ Kept(liabilities')
                 /\ SumOwned(liabilities', d) = SumOwned(liabilities, d) + (IF d = c THEN v - w ELSE 0)
      <4>1. /\ Kept(liabilities')
            /\ SumOwned(liabilities', d) = SumOwned(liabilities, d) + (IF d = liabilities[t].owner THEN v - liabilities[t].value ELSE 0)
        BY <1>2, <3>1, OwnedUpdated
      <4> QED
        BY <3>1, <3>2, <4>1
    <3>4. worth' = [worth EXCEPT ![c] = worth[c] + (w - v)] /\ w - v \in Int
      <4>1. worth[c] + (w - v) = worth[c] - v + w /\ w - v \in Int
        BY <1>4, <1>5, <3>2
      <4> QED
        BY <3>1, <3>2, <4>1
    <3>5. \A d \in Customers : SumOwned(assets', d) - SumOwned(liabilities', d)
                               = SumOwned(assets, d) - SumOwned(liabilities, d)
                                 + (IF d = c THEN w - v ELSE 0)
      <4> SUFFICES ASSUME NEW d \in Customers
                   PROVE  SumOwned(assets', d) - SumOwned(liabilities', d)
                            = SumOwned(assets, d) - SumOwned(liabilities, d) + (IF d = c THEN w - v ELSE 0)
        OBVIOUS
      <4> QED
        BY <1>3, <1>5, <3>1, <3>2, <3>3
    <3> QED
      BY <1>2, <3>1, <3>3, <3>4, <3>5, WealthMoves
  <2> QED
    BY <1>7, <2>1, <2>2
<1>8. ASSUME NEW c \in Customers, NEW t \in Things, RemoveAsset(c, t) \/ RemoveLiability(c, t)
      PROVE  WealthInv'
  <2>1. CASE RemoveAsset(c, t)
    <3>1. /\ t \in DOMAIN assets /\ assets[t].owner = c /\ assets' = Dropped(assets, t)
          /\ worth' = [worth EXCEPT ![c] = worth[c] - assets[t].value]
          /\ liabilities' = liabilities
      BY <2>1 DEF RemoveAsset, Owns
    <3>2. PICK w \in Int : w = assets[t].value
      BY <1>2, <1>5, <3>1 DEF Kept
    <3>3. ASSUME NEW d
          PROVE  /\ Kept(assets')
                 /\ SumOwned(assets', d) = SumOwned(assets, d) - (IF d = c THEN w ELSE 0)
      BY <1>2, <3>1, <3>2, OwnedDropped
    <3>4. worth' = [worth EXCEPT ![c] = worth[c] + (-w)] /\ -w \in Int
      <4>1. worth[c] + (-w) = worth[c] - w /\ -w \in Int
        BY <1>4, <3>2
      <4> QED
        BY <3>1, <3>2, <4>1
    <3>5. \A d \in Customers : SumOwned(assets', d) - SumOwned(liabilities', d)
                               = SumOwned(assets, d) - SumOwned(liabilities, d)
                                 + (IF d = c THEN -w ELSE 0)
      BY <1>3, <3>1, <3>2, <3>3
    <3> QED
      BY <1>2, <3>1, <3>3, <3>4, <3>5, WealthMoves
  <2>2. CASE RemoveLiability(c, t)
    <3>1. /\ t \in DOMAIN liabilities /\ liabilities[t].owner = c
          /\ liabilities' = Dropped(liabilities, t)
          /\ worth' = [worth EXCEPT ![c] = worth[c] + liabilities[t].value]
          /\ assets' = assets
      BY <2>2 DEF RemoveLiability, Owns
    <3>2. PICK w \in Int : w = liabilities[t].value
      BY <1>2, <1>5, <3>1 DEF Kept
    <3>3. ASSUME NEW d
          PROVE  /\ Kept(liabilities')
                 /\ SumOwned(liabilities', d) = SumOwned(liabilities, d) - (IF d = c THEN w ELSE 0)
      BY <1>2, <3>1, <3>2, OwnedDropped
    <3>4. \A d \in Customers : SumOwned(assets', d) - SumOwned(liabilities', d)
                               = SumOwned(assets, d) - SumOwned(liabilities, d)
                                 + (IF d = c THEN w ELSE 0)
      BY <1>3, <3>1, <3>2, <3>3
    <3> QED
      BY <1>2, <3>1, <3>2, <3>3, <3>4, WealthMoves
  <2> QED
    BY <1>8, <2>1, <2>2
<1> QED
  BY <1>1, <1>6, <1>7, <1>8 DEF NetWorthNext

(* Nobody has or owes anything at first.                                   *)
LEMMA WealthStarts == PersonalInit => WealthInv
<1> SUFFICES ASSUME PersonalInit PROVE WealthInv
  OBVIOUS
<1>1. assets = NoOne /\ liabilities = NoOne /\ worth = [c \in Customers |-> 0]
  BY DEF PersonalInit
<1>2. Kept(NoOne)
  BY FS_EmptySet DEF Kept, NoOne
<1>3. ASSUME NEW c PROVE SumOwned(NoOne, c) = 0
  <2>1. DOMAIN ValuesOf(NoOne, c) = {}
    BY DEF ValuesOf, OwnedIn, NoOne
  <2> QED
    BY <1>2, <2>1, SumEmpty, OwnedTyped
<1> QED
  BY <1>1, <1>2, <1>3 DEF WealthInv

(* So the stores always add up.                                            *)
LEMMA WealthKept == PersonalInit /\ [][NetWorthNext]_wealthVars => []WealthInv
BY WealthStarts, WealthStep, PTL

(* A customer's net worth is always the sum of that customer's changes,    *)
(* whatever was added, revalued and removed, and in whatever order.        *)
THEOREM NetWorthKept == PersonalInit /\ [][NetWorthNext]_wealthVars => []NetWorthFollows
<1>1. WealthInv => NetWorthFollows
  BY DEF WealthInv, NetWorthFollows, NetWorth
<1> QED
  BY <1>1, WealthKept, PTL

-----------------------------------------------------------------------------
(* Goals.                                                                  *)
GoalStatuses == {"ON_TRACK", "BEHIND", "AT_RISK", "ACHIEVED", "PAUSED"}

(* A goal of a customer.                                                   *)
GoalRows == [status : GoalStatuses, owner : Customers, current : Nat, monthly : Nat, until : Nat]

(* Every goal is such a row, and none is stored as worse than it is.       *)
GoalInv ==
  /\ month \in Nat
  /\ \A k \in DOMAIN goals : goals[k] \in GoalRows
  /\ StoredStatusIsOld

(* A goal looks no better next month.                                      *)
LEMMA GoalsFade ==
  ASSUME NEW g, NEW m \in Nat, g.current \in Int, g.monthly \in Nat, g.until \in Int
  PROVE  Rank(ComputeGoalStatus(g, m)) >= Rank(ComputeGoalStatus(g, m + 1))
<1>1. PICK gap \in Int : gap = GoalTarget - g.current
  BY PersonalConstants
<1>2. PICK left \in Int : left = g.until - m
  OBVIOUS
<1>3. PICK p \in Nat : p = g.monthly
  OBVIOUS
<1>4. PICK now \in Int : now = p * left
  OBVIOUS
<1>5. PICK then \in Int : then = p * (g.until - (m + 1))
  OBVIOUS
<1>6. then <= now
  <2>1. g.until - (m + 1) = left - 1
    BY <1>2
  <2>2. \A a, b \in Int : a * (b - 1) = a * b - a
    OBVIOUS
  <2>3. then = now - p
    BY <1>4, <1>5, <2>1, <2>2
  <2> QED
    BY <2>3
<1>7. ComputeGoalStatus(g, m)
        = IF gap <= 0 THEN "ACHIEVED"
          ELSE IF left <= 0 THEN "AT_RISK"
          ELSE IF p = 0 THEN "BEHIND"
          ELSE IF now >= gap THEN "ON_TRACK"
          ELSE IF 10 * now >= 8 * gap THEN "BEHIND" ELSE "AT_RISK"
  <2>1. g.until <= m <=> left <= 0
    BY <1>2
  <2> QED
    BY <1>1, <1>2, <1>3, <1>4, <2>1 DEF ComputeGoalStatus
<1>8. ComputeGoalStatus(g, m + 1)
        = IF gap <= 0 THEN "ACHIEVED"
          ELSE IF left - 1 <= 0 THEN "AT_RISK"
          ELSE IF p = 0 THEN "BEHIND"
          ELSE IF then >= gap THEN "ON_TRACK"
          ELSE IF 10 * then >= 8 * gap THEN "BEHIND" ELSE "AT_RISK"
  <2>1. g.until <= m + 1 <=> left - 1 <= 0
    BY <1>2
  <2> QED
    BY <1>1, <1>3, <1>5, <2>1 DEF ComputeGoalStatus
<1>9. PICK a, b : a = ComputeGoalStatus(g, m) /\ b = ComputeGoalStatus(g, m + 1)
  OBVIOUS
<1>10. \/ gap <= 0 /\ b = "ACHIEVED" /\ a = "ACHIEVED"
       \/ gap > 0 /\ a = "ON_TRACK" /\ b \in {"ON_TRACK", "BEHIND", "AT_RISK"}
       \/ gap > 0 /\ a = "BEHIND" /\ b \in {"BEHIND", "AT_RISK"}
       \/ gap > 0 /\ a = "AT_RISK" /\ b = "AT_RISK"
  BY <1>6, <1>7, <1>8, <1>9
<1>11. Rank("ACHIEVED") = 3 /\ Rank("ON_TRACK") = 2 /\ Rank("BEHIND") = 1 /\ Rank("AT_RISK") = 0
  BY DEF Rank
<1> QED
  BY <1>9, <1>10, <1>11

(* What a listing computes is a status with a rank, and never PAUSED.      *)
LEMMA StatusComputed ==
  ASSUME NEW g, NEW m
  PROVE  /\ ComputeGoalStatus(g, m) \in GoalStatuses \ {"PAUSED"}
         /\ Rank(ComputeGoalStatus(g, m)) \in 0..3
         /\ \A s : Rank(s) \in 0..3
BY DEF ComputeGoalStatus, GoalStatuses, Rank

(* Every step of the goals keeps that.                                     *)
LEMMA GoalStep == GoalInv /\ [GoalNext]_goalVars => GoalInv'
<1> SUFFICES ASSUME GoalInv, [GoalNext]_goalVars PROVE GoalInv'
  OBVIOUS
<1>1. CASE UNCHANGED goalVars
  BY <1>1 DEF goalVars, GoalInv, StoredStatusIsOld
<1>2. ASSUME NEW c \in Customers, NEW k \in Goals, RemoveGoal(c, k) PROVE GoalInv'
  <2>1. /\ DOMAIN goals' = DOMAIN goals \ {k} /\ month' = month
        /\ \A j \in DOMAIN goals' : goals'[j] = goals[j]
    BY <1>2 DEF RemoveGoal, Dropped
  <2> QED
    BY <2>1 DEF GoalInv, StoredStatusIsOld
<1>3. ASSUME NEW c \in Customers, NEW k \in Goals, NEW s \in Savings, NEW y \in Monthly,
             NEW u \in GoalDates, CreateGoal(c, k, s, y, u)
      PROVE  GoalInv'
  <2>1. PICK g : g = [current |-> s, monthly |-> y, until |-> u]
    OBVIOUS
  <2>2. PICK st : st = ComputeGoalStatus(g, month)
    OBVIOUS
  <2>3. PICK n : n = [owner |-> c, current |-> s, monthly |-> y, until |-> u, status |-> st]
    OBVIOUS
  <2>4. /\ k \notin DOMAIN goals /\ goals' = Stored(goals, k, n) /\ month' = month
    BY <1>3, <2>1, <2>2, <2>3 DEF CreateGoal
  <2>5. n = [status |-> st, owner |-> c, current |-> s, monthly |-> y, until |-> u]
    BY <2>3
  <2>6. s \in Nat /\ y \in Nat /\ u \in Nat
    BY PersonalConstants
  <2>7. n \in GoalRows /\ n.status = st
    BY <2>2, <2>5, <2>6, StatusComputed DEF GoalRows
  <2>8. ComputeGoalStatus(n, month) = st
    <3>1. n.current = g.current /\ n.monthly = g.monthly /\ n.until = g.until
      BY <2>1, <2>5
    <3> QED
      BY <2>2, <3>1 DEF ComputeGoalStatus
  <2>9. /\ DOMAIN goals' = DOMAIN goals \cup {k} /\ goals'[k] = n
        /\ \A j \in DOMAIN goals : goals'[j] = goals[j]
    BY <2>4 DEF Stored
  <2>10. Rank(st) \in Int
    BY StatusComputed
  <2> QED
    BY <2>4, <2>7, <2>8, <2>9, <2>10 DEF GoalInv, StoredStatusIsOld
<1>4. ASSUME NEW c \in Customers, NEW k \in Goals, NEW s \in Savings, NEW y \in Monthly,
             NEW u \in GoalDates, NEW status, UpdateGoal(c, k, s, y, u, status)
      PROVE  GoalInv'
  <2>1. PICK r \in GoalRows : r = goals[k] /\ k \in DOMAIN goals
    BY <1>4 DEF UpdateGoal, Owns, GoalInv
  <2>2. PICK g : g = [status |-> r.status, owner |-> r.owner, current |-> s, monthly |-> y,
                      until |-> u]
    OBVIOUS
  <2>3. g = [goals[k] EXCEPT !.current = s, !.monthly = y, !.until = u]
    <3>1. PICK one : one = [r EXCEPT !.current = s]
      OBVIOUS
    <3>2. one = [status |-> r.status, owner |-> r.owner, current |-> s, monthly |-> r.monthly,
                 until |-> r.until]
      BY <2>1, <3>1 DEF GoalRows
    <3>3. PICK two : two = [one EXCEPT !.monthly = y]
      OBVIOUS
    <3>4. two = [status |-> r.status, owner |-> r.owner, current |-> s, monthly |-> y,
                 until |-> r.until]
      BY <3>2, <3>3
    <3>5. [two EXCEPT !.until = u] = g
      BY <2>2, <3>4
    <3> QED
      BY <2>1, <3>1, <3>3, <3>5
  <2>4. PICK st : st = IF status = "PAUSED" THEN "PAUSED" ELSE ComputeGoalStatus(g, month)
    OBVIOUS
  <2>5. PICK n : n = [g EXCEPT !.status = st]
    OBVIOUS
  <2>6. goals' = [goals EXCEPT ![k] = n] /\ month' = month
    BY <1>4, <2>3, <2>4, <2>5 DEF UpdateGoal, Settled
  <2>7. n = [status |-> st, owner |-> r.owner, current |-> s, monthly |-> y, until |-> u]
    BY <2>2, <2>5
  <2>8. s \in Nat /\ y \in Nat /\ u \in Nat /\ r.owner \in Customers /\ st \in GoalStatuses
    BY <2>1, <2>4, PersonalConstants, StatusComputed DEF GoalRows, GoalStatuses
  <2>9. n \in GoalRows /\ n.status = st
    BY <2>7, <2>8 DEF GoalRows
  <2>10. ComputeGoalStatus(n, month) = ComputeGoalStatus(g, month)
    <3>1. n.current = g.current /\ n.monthly = g.monthly /\ n.until = g.until
      BY <2>2, <2>7
    <3> QED
      BY <3>1 DEF ComputeGoalStatus
  <2>11. st # "PAUSED" => Rank(st) >= Rank(ComputeGoalStatus(n, month))
    BY <2>4, <2>10, StatusComputed
  <2>12. /\ DOMAIN goals' = DOMAIN goals /\ goals'[k] = n
         /\ \A j \in DOMAIN goals : j # k => goals'[j] = goals[j]
    BY <2>1, <2>6
  <2> QED
    BY <2>6, <2>9, <2>11, <2>12 DEF GoalInv, StoredStatusIsOld
<1>5. CASE MonthPasses
  <2>1. month \in Nat /\ month' = month + 1 /\ goals' = goals
    BY <1>5 DEF GoalInv, MonthPasses
  <2>2. ASSUME NEW k \in DOMAIN goals, goals[k].status # "PAUSED"
        PROVE  Rank(goals[k].status) >= Rank(ComputeGoalStatus(goals[k], month + 1))
    <3>1. PICK r \in GoalRows : r = goals[k]
      BY DEF GoalInv
    <3>2. r.current \in Int /\ r.monthly \in Nat /\ r.until \in Int
      BY <3>1 DEF GoalRows
    <3>3. Rank(ComputeGoalStatus(r, month)) >= Rank(ComputeGoalStatus(r, month + 1))
      BY <2>1, <3>2, GoalsFade
    <3>4. Rank(r.status) >= Rank(ComputeGoalStatus(r, month))
      BY <2>2, <3>1 DEF GoalInv, StoredStatusIsOld
    <3>5. PICK a, b, d \in Int : /\ a = Rank(r.status) /\ b = Rank(ComputeGoalStatus(r, month))
                                 /\ d = Rank(ComputeGoalStatus(r, month + 1))
      BY StatusComputed
    <3> QED
      BY <3>1, <3>3, <3>4, <3>5
  <2> QED
    BY <2>1, <2>2 DEF GoalInv, StoredStatusIsOld
<1> QED
  BY <1>1, <1>2, <1>3, <1>4, <1>5 DEF GoalNext

(* So the goals are always as they should be.                              *)
LEMMA GoalKept == PersonalInit /\ [][GoalNext]_goalVars => []GoalInv
<1>1. PersonalInit => GoalInv
  BY DEF PersonalInit, GoalInv, StoredStatusIsOld, NoOne
<1> QED
  BY <1>1, GoalStep, PTL

(* The stored status of a goal is never worse than the one a listing       *)
(* computes: time passes without improving it.                             *)
THEOREM GoalsNotWorse == PersonalInit /\ [][GoalNext]_goalVars => []StoredStatusIsOld
<1>1. GoalInv => StoredStatusIsOld
  BY DEF GoalInv
<1> QED
  BY <1>1, GoalKept, PTL

-----------------------------------------------------------------------------
(* Beneficiaries.                                                          *)
Sharing(store, c, r, but) ==
  {h \in DOMAIN store \ but : store[h].owner = c /\ store[h].rank = r}

(* Their shares, and what those come to.                                   *)
SharesIn(store, c, r, but) == [h \in Sharing(store, c, r, but) |-> store[h].share]
TotalShare(store, c, r, but) == IntegerSum(SharesIn(store, c, r, but))

(* The stores of beneficiaries and documents.                              *)
HeirsKept ==
  /\ IsFiniteSet(DOMAIN heirs)
  /\ \A h \in DOMAIN heirs : heirs[h] \in [owner : Customers, rank : Ranks, share : Shares]

(* The sums of shares the service forms are such totals.                   *)
SharesAreSums ==
  \A c \in Customers, r \in Ranks : \A h :
    /\ SharesOf(c, r, {}) = TotalShare(heirs, c, r, {})
    /\ SharesOf(c, r, {h}) = TotalShare(heirs, c, r, {h})

(* The shares updateBeneficiary and its siblings add up are sums.          *)
LEMMA SharesSummed == HeirsKept => SharesAreSums
<1> SUFFICES ASSUME HeirsKept PROVE SharesAreSums
  OBVIOUS
<1>1. ASSUME NEW c \in Customers, NEW r \in Ranks, NEW but
      PROVE  SharesOf(c, r, but) = TotalShare(heirs, c, r, but)
  <2> DEFINE S == Sharing(heirs, c, r, but)
             w == SharesIn(heirs, c, r, but)
             U(it) == it = [s \in SUBSET S |-> IF s = {} THEN 0
                              ELSE heirs[Chosen(s)].share + it[s \ {Chosen(s)}]]
             fold == CHOOSE it : U(it)
  <2>1. SharesOf(c, r, but) = fold[S]
    BY Zenon DEF SharesOf, MapThenSumSet, MapThenFoldSet, Chosen, Sharing
  <2>2. DOMAIN w = S /\ IsFiniteSet(S)
    BY FS_Subset DEF Sharing, SharesIn, HeirsKept
  <2>3. ASSUME NEW it PROVE U(it) <=> Unfolds(it, w)
    <3>1. \A s \in SUBSET S : s # {} => Chosen(s) \in S
      BY DEF Chosen
    <3>2. \A s \in SUBSET S : s # {} => w[Chosen(s)] = heirs[Chosen(s)].share
      BY <3>1 DEF SharesIn
    <3> HIDE DEF w, S
    <3> QED
      BY <2>2, <3>2 DEF Unfolds
  <2>4. U(fold)
    <3>1. \E it : U(it)
      BY <2>2, <2>3, Recursion
    <3> HIDE DEF U
    <3> QED
      BY <3>1
  <2>5. Unfolds(fold, w)
    BY <2>3, <2>4
  <2> HIDE DEF fold, w, S
  <2>6. fold[S] = IntegerSum(w)
    BY <2>2, <2>5, FoldEndsInSum
  <2> QED
    BY <2>1, <2>6 DEF w, TotalShare
<1> QED
  BY <1>1 DEF SharesAreSums

(* One beneficiary's share is what the others leave of the total.          *)
LEMMA OneShare ==
  ASSUME NEW store, IsFiniteSet(DOMAIN store), NEW c, NEW r, NEW h,
         \A k \in DOMAIN store : store[k].share \in Nat
  PROVE  /\ TotalShare(store, c, r, {h}) \in Int
         /\ TotalShare(store, c, r, {})
              = TotalShare(store, c, r, {h})
                + (IF h \in Sharing(store, c, r, {}) THEN store[h].share ELSE 0)
<1>1. PICK f, g : f = SharesIn(store, c, r, {}) /\ g = SharesIn(store, c, r, {h})
  OBVIOUS
<1>2. /\ DOMAIN f = Sharing(store, c, r, {}) /\ DOMAIN g = Sharing(store, c, r, {}) \ {h}
      /\ IsFiniteSet(DOMAIN f) /\ IsFiniteSet(DOMAIN g)
  <2>1. DOMAIN f = Sharing(store, c, r, {}) /\ DOMAIN g = Sharing(store, c, r, {}) \ {h}
    BY <1>1 DEF SharesIn, Sharing
  <2>2. DOMAIN f \subseteq DOMAIN store /\ DOMAIN g \subseteq DOMAIN store
    BY <2>1 DEF Sharing
  <2> QED
    BY <2>1, <2>2, FS_Subset
<1>3. /\ \A k \in DOMAIN f : f[k] = store[k].share /\ f[k] \in Int
      /\ \A k \in DOMAIN g : g[k] = store[k].share /\ g[k] \in Int
  BY <1>1, <1>2 DEF SharesIn, Sharing
<1>4. IntegerSum(g) \in Int
  BY <1>2, <1>3, SumType
<1>5. CASE h \in Sharing(store, c, r, {})
  <2>1. \A k \in DOMAIN g : g[k] = f[k]
    BY <1>2, <1>3
  <2>2. IntegerSum(f) = f[h] + IntegerSum(g)
    BY <1>2, <1>3, <1>5, <2>1, SumWithout
  <2>3. f[h] = store[h].share /\ f[h] \in Int
    BY <1>2, <1>3, <1>5
  <2> QED
    BY <1>1, <1>4, <1>5, <2>2, <2>3 DEF TotalShare
<1>6. CASE h \notin Sharing(store, c, r, {})
  <2>1. DOMAIN g = DOMAIN f /\ \A k \in DOMAIN f : g[k] = f[k]
    BY <1>2, <1>3, <1>6
  <2>2. IntegerSum(g) = IntegerSum(f)
    BY <1>2, <2>1, SumSame
  <2> QED
    BY <1>1, <1>4, <1>6, <2>2 DEF TotalShare
<1> QED
  BY <1>5, <1>6

(* The others' shares do not depend on it.                                 *)
LEMMA OtherShares ==
  ASSUME NEW store, NEW next, NEW c, NEW r, NEW h,
         DOMAIN store \ {h} = DOMAIN next \ {h},
         \A k \in DOMAIN store \ {h} : next[k] = store[k]
  PROVE  TotalShare(next, c, r, {h}) = TotalShare(store, c, r, {h})
<1>1. Sharing(next, c, r, {h}) = Sharing(store, c, r, {h})
  BY DEF Sharing
<1>2. SharesIn(next, c, r, {h}) = SharesIn(store, c, r, {h})
  BY <1>1 DEF SharesIn, Sharing
<1> QED
  BY <1>2 DEF TotalShare

(* The shares of one rank are within the whole.                            *)
HeirInv ==
  /\ HeirsKept
  /\ \A d \in DOMAIN papers : papers[d] \in [owner : Customers, reads : 0..MaxReads]
  /\ \A c \in Customers, r \in Ranks : TotalShare(heirs, c, r, {}) <= 100

(* The heirs after a change of one of them.                                *)
LEMMA HeirsMove ==
  ASSUME HeirInv, HeirsKept', NEW h, UNCHANGED papers,
         DOMAIN heirs' \ {h} = DOMAIN heirs \ {h},
         \A k \in DOMAIN heirs \ {h} : heirs'[k] = heirs[k],
         \/ h \notin DOMAIN heirs'
         \/ /\ h \in DOMAIN heirs'
            /\ SharesOf(heirs'[h].owner, heirs'[h].rank, {h}) + heirs'[h].share <= 100
  PROVE  HeirInv'
<1>1. ASSUME NEW c \in Customers, NEW r \in Ranks
      PROVE  TotalShare(heirs', c, r, {}) <= 100
  <2>1. IsFiniteSet(DOMAIN heirs) /\ \A k \in DOMAIN heirs : heirs[k].share \in Nat
    BY PersonalConstants DEF HeirInv, HeirsKept
  <2>2. IsFiniteSet(DOMAIN heirs') /\ \A k \in DOMAIN heirs' : heirs'[k].share \in Nat
    BY PersonalConstants DEF HeirsKept
  <2>3. /\ TotalShare(heirs, c, r, {h}) \in Int
        /\ TotalShare(heirs, c, r, {})
             = TotalShare(heirs, c, r, {h})
               + (IF h \in Sharing(heirs, c, r, {}) THEN heirs[h].share ELSE 0)
    BY <2>1, OneShare
  <2>4. TotalShare(heirs', c, r, {})
          = TotalShare(heirs', c, r, {h})
            + (IF h \in Sharing(heirs', c, r, {}) THEN heirs'[h].share ELSE 0)
    BY <2>2, OneShare
  <2>5. TotalShare(heirs', c, r, {h}) = TotalShare(heirs, c, r, {h})
    BY OtherShares
  <2>6. h \in Sharing(heirs, c, r, {}) => heirs[h].share \in Nat
    BY <2>1 DEF Sharing
  <2>7. TotalShare(heirs, c, r, {}) <= 100
    BY DEF HeirInv
  <2>8. CASE h \in Sharing(heirs', c, r, {})
    <3>1. /\ h \in DOMAIN heirs' /\ heirs'[h].owner = c /\ heirs'[h].rank = r
          /\ heirs'[h].share \in Nat
      BY <2>2, <2>8 DEF Sharing
    <3>2. SharesOf(c, r, {h}) + heirs'[h].share <= 100
      BY <3>1
    <3>3. SharesOf(c, r, {h}) = TotalShare(heirs, c, r, {h})
      BY SharesSummed DEF HeirInv, SharesAreSums
    <3> QED
      BY <2>3, <2>4, <2>5, <2>8, <3>1, <3>2, <3>3
  <2>9. CASE h \notin Sharing(heirs', c, r, {})
    BY <2>3, <2>4, <2>5, <2>6, <2>7, <2>9
  <2> QED
    BY <2>8, <2>9
<1> QED
  BY <1>1 DEF HeirInv

(* Every step of the beneficiaries keeps their shares within the whole.    *)
LEMMA HeirStep == HeirInv /\ [HeirNext]_heirVars => HeirInv'
<1> SUFFICES ASSUME HeirInv, [HeirNext]_heirVars PROVE HeirInv'
  OBVIOUS
<1>1. CASE UNCHANGED heirVars
  BY <1>1 DEF heirVars, HeirInv, HeirsKept
<1>2. ASSUME NEW c \in Customers, NEW h \in Heirs, RemoveBeneficiary(c, h) PROVE HeirInv'
  <2>1. /\ DOMAIN heirs' = DOMAIN heirs \ {h} /\ UNCHANGED papers
        /\ \A k \in DOMAIN heirs' : heirs'[k] = heirs[k]
    BY <1>2 DEF RemoveBeneficiary, Dropped
  <2>2. HeirsKept'
    BY <2>1, FS_Subset DEF HeirInv, HeirsKept
  <2> QED
    BY <2>1, <2>2, HeirsMove
<1>3. ASSUME NEW c \in Customers, NEW h \in Heirs, NEW r \in Ranks, NEW s \in Shares,
             AddBeneficiary(c, h, r, s)
      PROVE  HeirInv'
  <2>1. /\ h \notin DOMAIN heirs /\ DOMAIN heirs' = DOMAIN heirs \cup {h} /\ UNCHANGED papers
        /\ heirs'[h] = [owner |-> c, rank |-> r, share |-> s]
        /\ \A k \in DOMAIN heirs : heirs'[k] = heirs[k]
        /\ SharesOf(c, r, {}) + s <= 100
    BY <1>3 DEF AddBeneficiary, Stored
  <2>2. HeirsKept'
    BY <2>1, FS_AddElement DEF HeirInv, HeirsKept
  <2>3. SharesOf(c, r, {h}) = SharesOf(c, r, {})
    <3>1. Sharing(heirs, c, r, {h}) = Sharing(heirs, c, r, {})
      BY <2>1 DEF Sharing
    <3>2. TotalShare(heirs, c, r, {h}) = TotalShare(heirs, c, r, {})
      BY <3>1 DEF TotalShare, SharesIn
    <3> QED
      BY <3>2, SharesSummed DEF HeirInv, SharesAreSums
  <2>4. heirs'[h].owner = c /\ heirs'[h].rank = r /\ heirs'[h].share = s
    BY <2>1
  <2> QED
    BY <2>1, <2>2, <2>3, <2>4, HeirsMove
<1>4. ASSUME NEW c \in Customers, NEW h \in Heirs, NEW s \in Shares, UpdateBeneficiary(c, h, s)
      PROVE  HeirInv'
  <2>1. /\ h \in DOMAIN heirs /\ heirs[h].owner = c /\ UNCHANGED papers
        /\ heirs' = [heirs EXCEPT ![h].share = s] /\ SharesOf(c, heirs[h].rank, {h}) + s <= 100
    BY <1>4 DEF UpdateBeneficiary, Owns
  <2>2. PICK o \in [owner : Customers, rank : Ranks, share : Shares] : o = heirs[h]
    BY <2>1 DEF HeirInv, HeirsKept
  <2>3. PICK n \in [owner : Customers, rank : Ranks, share : Shares] :
          n = [o EXCEPT !.share = s] /\ n.owner = o.owner /\ n.rank = o.rank /\ n.share = s
    <3>1. [o EXCEPT !.share = s] = [owner |-> o.owner, rank |-> o.rank, share |-> s]
      BY <2>2
    <3>2. [owner |-> o.owner, rank |-> o.rank, share |-> s]
            \in [owner : Customers, rank : Ranks, share : Shares]
      BY <2>2
    <3> QED
      BY <3>1, <3>2
  <2>4. heirs' = [heirs EXCEPT ![h] = n]
    BY <2>1, <2>2, <2>3
  <2>5. /\ DOMAIN heirs' = DOMAIN heirs /\ heirs'[h] = n
        /\ \A k \in DOMAIN heirs \ {h} : heirs'[k] = heirs[k]
    BY <2>1, <2>4
  <2>6. HeirsKept'
    BY <2>3, <2>5 DEF HeirInv, HeirsKept
  <2>7. heirs'[h].owner = c /\ heirs'[h].rank = heirs[h].rank /\ heirs'[h].share = s
    BY <2>1, <2>2, <2>3, <2>5
  <2> QED
    BY <2>1, <2>5, <2>6, <2>7, HeirsMove
<1>5. ASSUME NEW c \in Customers, NEW d \in Papers,
             KeepDocument(c, d) \/ ReadDocument(c, d) \/ RemoveDocument(c, d)
      PROVE  HeirInv'
  <2>1. UNCHANGED heirs
    BY <1>5 DEF KeepDocument, ReadDocument, RemoveDocument
  <2>2. CASE KeepDocument(c, d)
    BY <2>1, <2>2, PersonalConstants DEF KeepDocument, Stored, HeirInv, HeirsKept
  <2>3. CASE RemoveDocument(c, d)
    BY <2>1, <2>3 DEF RemoveDocument, Dropped, HeirInv, HeirsKept
  <2>4. CASE ReadDocument(c, d)
    <3>1. PICK o \in [owner : Customers, reads : 0..MaxReads] : o = papers[d]
      BY <2>4 DEF ReadDocument, Owns, HeirInv
    <3>2. o.reads \in 0..MaxReads /\ o.reads < MaxReads /\ d \in DOMAIN papers
      BY <2>4, <3>1 DEF ReadDocument, Owns
    <3>3. [o EXCEPT !.reads = o.reads + 1] \in [owner : Customers, reads : 0..MaxReads]
      BY <3>1, <3>2, PersonalConstants
    <3>4. papers' = [papers EXCEPT ![d] = [o EXCEPT !.reads = o.reads + 1]]
      BY <2>4, <3>1 DEF ReadDocument
    <3> QED
      BY <2>1, <3>2, <3>3, <3>4 DEF HeirInv, HeirsKept
  <2> QED
    BY <1>5, <2>2, <2>3, <2>4
<1> QED
  BY <1>1, <1>2, <1>3, <1>4, <1>5 DEF HeirNext

(* So the beneficiaries are always as they should be.                      *)
LEMMA HeirsAlwaysKept == PersonalInit /\ [][HeirNext]_heirVars => []HeirInv
<1>1. PersonalInit => HeirInv
  <2> SUFFICES ASSUME PersonalInit PROVE HeirInv
    OBVIOUS
  <2>1. DOMAIN heirs = {} /\ DOMAIN papers = {}
    BY DEF PersonalInit, NoOne
  <2>2. ASSUME NEW c, NEW r PROVE TotalShare(heirs, c, r, {}) = 0
    <3>1. DOMAIN SharesIn(heirs, c, r, {}) = {}
      BY <2>1 DEF SharesIn, Sharing
    <3> QED
      BY <3>1, SumEmpty DEF TotalShare
  <2> QED
    BY <2>1, <2>2, FS_EmptySet DEF HeirInv, HeirsKept
<1> QED
  BY <1>1, HeirStep, PTL

(* The shares of a customer's beneficiaries of one rank never come to more *)
(* than the whole, whatever is added, changed and removed.                 *)
THEOREM SharesKept == PersonalInit /\ [][HeirNext]_heirVars => []SharesWithinWhole
<1>1. HeirInv => SharesWithinWhole
  BY SharesSummed DEF HeirInv, SharesWithinWhole, SharesAreSums
<1> QED
  BY <1>1, HeirsAlwaysKept, PTL

(* What the personal office keeps is of its types.                         *)
LEMMA PersonalTyped == WealthInv /\ GoalInv /\ HeirInv => PersonalTypeOK
BY DEF WealthInv, Kept, GoalInv, GoalRows, GoalStatuses, HeirInv, HeirsKept, PersonalTypeOK

-----------------------------------------------------------------------------
(* The robo-adviser: plans and drift.                                      *)

(* Values within a bound have a sum within as many of it.                  *)
LEMMA SumWithin ==
  ASSUME NEW f, IsFiniteSet(DOMAIN f), NEW b \in Int,
         \A x \in DOMAIN f : f[x] \in Int /\ -b <= f[x] /\ f[x] <= b
  PROVE  /\ IntegerSum(f) \in Int /\ Cardinality(DOMAIN f) \in Nat
         /\ -(b * Cardinality(DOMAIN f)) <= IntegerSum(f)
         /\ IntegerSum(f) <= b * Cardinality(DOMAIN f)
<1> DEFINE D == DOMAIN f
           hi == [x \in D |-> b]
           lo == [x \in D |-> -b]
<1>1. /\ IsFiniteSet(D) /\ IsFiniteSet(DOMAIN f) /\ DOMAIN f = D /\ IsFiniteSet(DOMAIN lo)
      /\ IsFiniteSet(DOMAIN hi) /\ DOMAIN hi = D /\ DOMAIN lo = D /\ -b \in Int
      /\ \A x \in D : f[x] \in Int /\ hi[x] \in Int /\ lo[x] \in Int /\ f[x] <= hi[x] /\ lo[x] <= f[x]
  OBVIOUS
<1>2. IntegerSum(hi) = b * Cardinality(D)
  BY SumConstant
<1>3. IntegerSum(lo) = (-b) * Cardinality(D)
  BY <1>1, SumConstant
<1>4. Cardinality(D) \in Nat
  BY FS_CardinalityType
<1> HIDE DEF D, hi, lo
<1>5. IntegerSum(f) <= IntegerSum(hi)
  BY <1>1, SumMonotone
<1>6. IntegerSum(lo) <= IntegerSum(f)
  BY <1>1, SumMonotone
<1>7. IntegerSum(f) \in Int
  BY <1>1, SumType
<1>8. (-b) * Cardinality(D) = -(b * Cardinality(D)) /\ b * Cardinality(D) \in Int
  <2>1. \A x, y \in Int : (-x) * y = -(x * y) /\ x * y \in Int
    OBVIOUS
  <2> QED
    BY <1>4, <2>1
<1> QED
  BY <1>1, <1>2, <1>3, <1>4, <1>5, <1>6, <1>7, <1>8

(* What holds of every account that has enrolled.                          *)
RoboRows ==
  [enrolled : {TRUE}, target : Models, threshold : Thresholds,
   held : Snapshots \cup {[c \in Classes |-> 0]}, rebalanced : BOOLEAN]

(* Every plan was made from such an account, when it held something.       *)
PlansFromRows ==
  /\ DOMAIN roboPlans # {} => robo.enrolled
  /\ \A p \in DOMAIN roboPlans : \E a \in RoboRows, st \in {"PENDING", "EXECUTED"} :
       /\ Portfolio(a.held) > 0
       /\ roboPlans[p] = [status |-> st, from |-> a, trades |-> Trades(a)]

(* What such an account holds are numbers, and its targets are the whole.  *)
LEMMA RowsTyped ==
  ASSUME NEW a \in RoboRows
  PROVE  /\ a.held \in [Classes -> Nat] /\ a.target \in [Classes -> 0..100]
         /\ a.threshold \in Nat \ {0}
         /\ Portfolio(a.held) = IntegerSum(a.held) /\ Portfolio(a.held) \in Nat
         /\ IntegerSum(a.target) = 100
<1>1. a.held \in [Classes -> Nat] /\ a.target \in [Classes -> 0..100] /\ a.threshold \in Nat \ {0}
      /\ a.target \in Models
  BY RoboConstants DEF RoboRows
<1>2. ASSUME NEW f, DOMAIN f = Classes PROVE Portfolio(f) = IntegerSum(f)
  BY <1>2, Zenon DEF Portfolio, IntegerSum, FoldFunction, FoldFunctionOnSet, MapThenSumSet
<1>3. Portfolio(a.held) = IntegerSum(a.held)
  BY <1>1, <1>2
<1>4. IntegerSum(a.target) = 100
  <2>1. \A m \in Models : Portfolio(m) = 100
    BY RoboConstants, Zenon DEF Portfolio
  <2> QED
    BY <1>1, <1>2, <2>1
<1>5. IntegerSum(a.held) \in Nat
  BY <1>1, RoboConstants, SumOfNaturals
<1> QED
  BY <1>1, <1>3, <1>4, <1>5

(* Rounding to basis points is off by at most half of one.                 *)
LEMMA ActualNear ==
  ASSUME NEW v \in Int, NEW t \in Nat, t > 0
  PROVE  /\ ActualPct(v, t) \in Int
         /\ 2 * (t * ActualPct(v, t)) <= 20000 * v + t
         /\ 20000 * v + t < 2 * (t * ActualPct(v, t)) + 2 * t
<1>1. PICK n, d \in Int : n = 20000 * v + t /\ d = 2 * t /\ d > 0
  OBVIOUS
<1>2. PICK q \in Int : q = n \div d
  BY <1>1
<1>3. d * q <= n /\ n < d * q + d
  BY <1>1, <1>2
<1>4. d * q = 2 * (t * q)
  BY <1>1
<1>5. ActualPct(v, t) = q
  BY <1>1, <1>2 DEF ActualPct
<1> QED
  BY <1>1, <1>2, <1>3, <1>4, <1>5

(* How far a class is from its target, in the units of the trades.         *)
Exact(a, c) == 10000 * a.held[c] - 100 * a.target[c] * Portfolio(a.held)

(* Products of integers.                                                   *)
LEMMA Products ==
  /\ \A x, y \in Int : x * y \in Int /\ x * y = y * x
  /\ \A x, y, z \in Int : x * (y - z) = x * y - x * z /\ (x - y) * z = x * z - y * z
  /\ \A x, y, n \in Int : n * (x * y) = (n * x) * y /\ x * (n * y) = n * (x * y)
  /\ \A t, x, y \in Int : t > 0 /\ x <= y => t * x <= t * y
<1>1. \A t, x, y \in Int : t > 0 /\ x <= y => t * x <= t * y
  <2> SUFFICES ASSUME NEW t \in Int, NEW x \in Int, NEW y \in Int, t > 0, x <= y
               PROVE  t * x <= t * y
    OBVIOUS
  <2>1. t * (y - x) >= 0
    OBVIOUS
  <2>2. t * (y - x) = t * y - t * x
    OBVIOUS
  <2> QED
    BY <2>1, <2>2
<1> QED
  BY <1>1

(* The drift in basis points is that distance, but for half a basis point. *)
LEMMA DriftNear ==
  ASSUME NEW a \in RoboRows, Portfolio(a.held) > 0, NEW c \in Classes
  PROVE  /\ DriftPct(a, c) \in Int /\ Exact(a, c) \in Int
         /\ Portfolio(a.held) * DriftPct(a, c) \in Int
         /\ 2 * (Portfolio(a.held) * DriftPct(a, c)) <= 2 * Exact(a, c) + Portfolio(a.held)
         /\ 2 * (Portfolio(a.held) * DriftPct(a, c)) >= 2 * Exact(a, c) - Portfolio(a.held)
<1>1. PICK t \in Nat : t = Portfolio(a.held) /\ t > 0
  BY RowsTyped
<1>2. PICK v \in Int, g \in Int : v = a.held[c] /\ g = a.target[c]
  BY RowsTyped
<1>3. PICK q : q = ActualPct(v, t)
  OBVIOUS
<1>4. q \in Int /\ 2 * (t * q) <= 20000 * v + t /\ 20000 * v + t < 2 * (t * q) + 2 * t
  <2>1. v \in Int /\ t \in Nat /\ t > 0
    BY <1>1
  <2>2. /\ ActualPct(v, t) \in Int
        /\ 2 * (t * ActualPct(v, t)) <= 20000 * v + t
        /\ 20000 * v + t < 2 * (t * ActualPct(v, t)) + 2 * t
    BY <2>1, ActualNear
  <2> QED
    BY <1>3, <2>2
<1>5. PICK w \in Int, y \in Int : w = g * t /\ y = t * q
  BY <1>4, Products
<1>6. t * (q - 100 * g) = y - 100 * w
  <2>1. t * (100 * g) = 100 * (t * g) /\ t * g = g * t /\ 100 * g \in Int
    BY Products
  <2>2. t * (q - 100 * g) = t * q - t * (100 * g)
    BY <1>4, <2>1, Products
  <2> QED
    BY <1>5, <2>1, <2>2
<1>7. 100 * g * t = 100 * w
  BY <1>5, Products
<1>8. Exact(a, c) = 10000 * v - 100 * w
  BY <1>1, <1>2, <1>7 DEF Exact
<1>9. DriftPct(a, c) = q - 100 * g
  BY <1>1, <1>2, <1>3 DEF DriftPct
<1>10. PICK d \in Int : d = t * (q - 100 * g) /\ d = y - 100 * w
  BY <1>6
<1>11. 2 * d <= 2 * (10000 * v - 100 * w) + t /\ 2 * d >= 2 * (10000 * v - 100 * w) - t
  BY <1>4, <1>5, <1>10
<1>12. PICK e : e = 10000 * v - 100 * w
  OBVIOUS
<1>13. DriftPct(a, c) \in Int /\ Portfolio(a.held) * DriftPct(a, c) = d
  BY <1>1, <1>4, <1>9, <1>10
<1>14. e \in Int /\ Exact(a, c) = e /\ 2 * d <= 2 * e + t /\ 2 * d >= 2 * e - t
  BY <1>8, <1>11, <1>12
<1> QED
  BY <1>1, <1>13, <1>14

(* A plan trades what is breached, and nothing nearer than the threshold.  *)
LEMMA TradesFollow ==
  ASSUME NEW a \in RoboRows, Portfolio(a.held) > 0, NEW c \in Classes
  PROVE  /\ Breached(a, c) => c \in DOMAIN Trades(a)
         /\ c \in DOMAIN Trades(a) =>
              2 * Magnitude(Exact(a, c)) >= (200 * a.threshold - 1) * Portfolio(a.held)
<1>1. PICK t \in Nat : t = Portfolio(a.held) /\ t > 0
  BY RowsTyped
<1>2. PICK v \in Int, g \in Int, h \in Int : v = a.held[c] /\ g = a.target[c] /\ h = a.threshold
  BY RowsTyped
<1>3. PICK d \in Int, e \in Int : d = DriftPct(a, c) /\ e = Exact(a, c)
  BY DriftNear
<1>4. PICK k \in Int : k = t * d
  BY Products
<1>5. 2 * k <= 2 * e + t /\ 2 * k >= 2 * e - t
  BY <1>1, <1>3, <1>4, DriftNear
<1>6. PICK w \in Int, u \in Int : w = g * t /\ u = h * t
  BY Products
<1>7. e = 10000 * v - 100 * w
  <2>1. 100 * g * t = 100 * w
    BY <1>6, Products
  <2> QED
    BY <1>1, <1>2, <1>3, <2>1 DEF Exact
<1>8. c \in DOMAIN Trades(a) <=> Magnitude(d) >= 100 * h
  BY <1>2, <1>3 DEF Trades
<1>9. Breached(a, c) <=> Magnitude(100 * v - w) >= u
  BY <1>1, <1>2, <1>6 DEF Breached
<1>10. t * (100 * h) = 100 * u
  BY <1>6, Products
<1>11. t * (100 * h - 1) = 100 * u - t
  <2>1. t * (100 * h - 1) = t * (100 * h) - t * 1
    BY Products
  <2> QED
    BY <1>10, <2>1
<1>12. t * (1 - 100 * h) = t - 100 * u
  <2>1. t * (1 - 100 * h) = t * 1 - t * (100 * h)
    BY Products
  <2> QED
    BY <1>10, <2>1
<1>13. t * (-(100 * h)) = -(100 * u)
  BY <1>10
<1>14. (200 * h - 1) * t = 200 * u - t
  <2>1. (200 * h - 1) * t = (200 * h) * t - 1 * t
    BY Products
  <2>2. (200 * h) * t = 200 * u
    BY <1>6, Products
  <2> QED
    BY <2>1, <2>2
<1>15. d <= 100 * h - 1 => k <= 100 * u - t
  <2>1. 100 * h - 1 \in Int
    OBVIOUS
  <2>2. d <= 100 * h - 1 => t * d <= t * (100 * h - 1)
    BY <1>1, <2>1, Products
  <2> QED
    BY <1>4, <1>11, <2>2
<1>16. d >= 1 - 100 * h => k >= t - 100 * u
  <2>1. 1 - 100 * h \in Int
    OBVIOUS
  <2>2. 1 - 100 * h <= d => t * (1 - 100 * h) <= t * d
    BY <1>1, <2>1, Products
  <2> QED
    BY <1>4, <1>12, <2>2
<1>17. d >= 100 * h => k >= 100 * u
  <2>1. 100 * h \in Int
    OBVIOUS
  <2>2. 100 * h <= d => t * (100 * h) <= t * d
    BY <1>1, <2>1, Products
  <2> QED
    BY <1>4, <1>10, <2>2
<1>18. d <= -(100 * h) => k <= -(100 * u)
  <2>1. -(100 * h) \in Int
    OBVIOUS
  <2>2. d <= -(100 * h) => t * d <= t * (-(100 * h))
    BY <1>1, <2>1, Products
  <2> QED
    BY <1>4, <1>13, <2>2
<1>19. Magnitude(100 * v - w) >= u => Magnitude(d) >= 100 * h
  <2>1. CASE 100 * v - w >= u
    <3>1. d >= 100 * h
      BY <1>1, <1>5, <1>7, <1>15, <2>1
    <3> QED
      BY <3>1 DEF Magnitude
  <2>2. CASE w - 100 * v >= u
    <3>1. d <= -(100 * h)
      BY <1>1, <1>5, <1>7, <1>16, <2>2
    <3> QED
      BY <3>1 DEF Magnitude
  <2> QED
    BY <2>1, <2>2 DEF Magnitude
<1>20. Magnitude(d) >= 100 * h => 2 * Magnitude(e) >= 200 * u - t
  <2>1. CASE d >= 100 * h
    BY <1>5, <1>17, <2>1 DEF Magnitude
  <2>2. CASE d <= -(100 * h)
    BY <1>5, <1>18, <2>2 DEF Magnitude
  <2> QED
    BY <2>1, <2>2 DEF Magnitude
<1> QED
  BY <1>1, <1>2, <1>3, <1>8, <1>9, <1>14, <1>19, <1>20

(* What is traded brings a class within half a basis point of its target.  *)
LEMMA TradeHits ==
  ASSUME NEW a \in RoboRows, Portfolio(a.held) > 0, NEW c \in DOMAIN Trades(a)
  PROVE  /\ Trades(a)[c] \in Int
         /\ Trades(a)[c] = -(Portfolio(a.held) * DriftPct(a, c))
         /\ 2 * Magnitude(10000 * a.held[c] + Trades(a)[c] - 100 * a.target[c] * Portfolio(a.held))
              <= Portfolio(a.held)
<1>1. PICK t \in Nat : t = Portfolio(a.held) /\ t > 0
  BY RowsTyped
<1>2. c \in Classes
  BY DEF Trades
<1>3. PICK d \in Int, e \in Int : d = DriftPct(a, c) /\ e = Exact(a, c)
  BY <1>2, DriftNear
<1>4. PICK k \in Int : k = t * d
  BY Products
<1>5. 2 * k <= 2 * e + t /\ 2 * k >= 2 * e - t
  BY <1>1, <1>2, <1>3, <1>4, DriftNear
<1>6. (-t) * d = -k
  BY <1>4
<1>7. Trades(a)[c] = -k
  BY <1>1, <1>3, <1>6 DEF Trades
<1>8. PICK v \in Int, w \in Int : v = 10000 * a.held[c] /\ w = 100 * a.target[c] * t
  <2>1. PICK n \in Int, g \in Int : n = a.held[c] /\ g = a.target[c]
    BY <1>2, RowsTyped
  <2>2. 10000 * n \in Int /\ 100 * g \in Int
    OBVIOUS
  <2>3. 100 * g * t \in Int
    BY <2>2, Products
  <2> QED
    BY <2>1, <2>2, <2>3
<1>9. e = v - w
  BY <1>1, <1>3, <1>8 DEF Exact
<1>10. 2 * Magnitude(v + (-k) - w) <= t
  BY <1>5, <1>9 DEF Magnitude
<1> QED
  BY <1>1, <1>3, <1>4, <1>7, <1>8, <1>10

(* A class a plan leaves alone is within the threshold of its target.      *)
LEMMA LeftNear ==
  ASSUME NEW a \in RoboRows, Portfolio(a.held) > 0, NEW c \in Classes \ DOMAIN Trades(a)
  PROVE  /\ 2 * (Portfolio(a.held) * DriftPct(a, c)) <= 200 * (a.threshold * Portfolio(a.held))
         /\ -(200 * (a.threshold * Portfolio(a.held))) <= 2 * (Portfolio(a.held) * DriftPct(a, c))
<1>1. PICK t \in Nat : t = Portfolio(a.held) /\ t > 0
  BY RowsTyped
<1>2. PICK h \in Int : h = a.threshold
  BY RowsTyped
<1>3. PICK d \in Int : d = DriftPct(a, c)
  BY DriftNear
<1>4. ~(Magnitude(d) >= 100 * h)
  BY <1>2, <1>3 DEF Trades
<1>5. d <= 100 * h /\ -(100 * h) <= d
  BY <1>4 DEF Magnitude
<1>6. PICK u \in Int, k \in Int : u = h * t /\ k = t * d
  BY Products
<1>7. t * (100 * h) = 100 * u
  BY <1>6, Products
<1>8. t * (-(100 * h)) = -(100 * u)
  BY <1>7
<1>9. 100 * h \in Int /\ -(100 * h) \in Int
  OBVIOUS
<1>10. k <= 100 * u
  <2>1. t * d <= t * (100 * h)
    BY <1>1, <1>5, <1>9, Products
  <2> QED
    BY <1>6, <1>7, <2>1
<1>11. -(100 * u) <= k
  <2>1. t * (-(100 * h)) <= t * d
    BY <1>1, <1>5, <1>9, Products
  <2> QED
    BY <1>6, <1>8, <2>1
<1> QED
  BY <1>1, <1>2, <1>3, <1>6, <1>10, <1>11

(* Before rounding the drifts of all classes cancel out, so what a plan    *)
(* buys and sells balances but for the rounding and the classes it leaves. *)
LEMMA TradesBalance ==
  ASSUME NEW a \in RoboRows, Portfolio(a.held) > 0
  PROVE  2 * Magnitude(IntegerSum(Trades(a)))
           <= (Cardinality(Classes \ DOMAIN Trades(a)) * 200 * a.threshold
               + Cardinality(Classes)) * Portfolio(a.held)
<1> DEFINE traded == DOMAIN Trades(a)
           left == Classes \ traded
<1>1. PICK t \in Nat, h \in Nat : t = Portfolio(a.held) /\ h = a.threshold /\ t > 0
  BY RowsTyped
<1>2. PICK F : F = [c \in Classes |-> 2 * (t * DriftPct(a, c))]
  OBVIOUS
<1>3. PICK E : E = [c \in Classes |-> 2 * Exact(a, c)]
  OBVIOUS
<1>4. PICK R : R = [c \in Classes |-> F[c] - E[c]]
  OBVIOUS
<1>5. /\ DOMAIN F = Classes /\ DOMAIN E = Classes /\ DOMAIN R = Classes
      /\ \A c \in Classes : /\ F[c] = 2 * (t * DriftPct(a, c)) /\ E[c] = 2 * Exact(a, c)
                            /\ R[c] = F[c] - E[c]
  BY <1>2, <1>3, <1>4
<1>6. \A c \in Classes : /\ F[c] \in Int /\ E[c] \in Int /\ R[c] \in Int
                         /\ F[c] = E[c] + R[c] /\ -t <= R[c] /\ R[c] <= t
  <2> SUFFICES ASSUME NEW c \in Classes
               PROVE  /\ F[c] \in Int /\ E[c] \in Int /\ R[c] \in Int
                      /\ F[c] = E[c] + R[c] /\ -t <= R[c] /\ R[c] <= t
    OBVIOUS
  <2>1. PICK k : k = t * DriftPct(a, c)
    OBVIOUS
  <2>2. PICK e : e = Exact(a, c)
    OBVIOUS
  <2>3. k \in Int /\ e \in Int /\ 2 * k <= 2 * e + t /\ 2 * k >= 2 * e - t
    BY <1>1, <2>1, <2>2, DriftNear
  <2>4. F[c] = 2 * k /\ E[c] = 2 * e /\ R[c] = F[c] - E[c]
    BY <1>5, <2>1, <2>2
  <2> QED
    BY <1>1, <2>3, <2>4
<1>7. IsFiniteSet(Classes)
  BY RoboConstants
<1>8. PICK n \in Nat, m \in Nat : n = Cardinality(Classes) /\ m = Cardinality(left) /\ IsFiniteSet(left)
  BY <1>7, FS_Subset, FS_CardinalityType
<1>9. IntegerSum(E) = 0
  <2>1. PICK had : had = a.held
    OBVIOUS
  <2> DEFINE X == [c \in Classes |-> 20000 * had[c]]
  <2>2. PICK w : w = -(200 * t)
    OBVIOUS
  <2>3. PICK Y : Y = [c \in Classes |-> w * a.target[c]]
    OBVIOUS
  <2>4. /\ DOMAIN X = Classes /\ DOMAIN Y = Classes /\ DOMAIN a.held = Classes
        /\ DOMAIN a.target = Classes
        /\ \A c \in Classes : /\ a.held[c] \in Int /\ X[c] = 20000 * a.held[c]
                              /\ a.target[c] \in Int /\ Y[c] = w * a.target[c]
    BY <2>1, <2>3, RowsTyped
  <2> HIDE DEF X
  <2>5. IntegerSum(X) = 20000 * IntegerSum(a.held)
    BY <1>7, <2>4, SumScaled
  <2>6. IntegerSum(Y) = w * IntegerSum(a.target)
    BY <1>7, <2>2, <2>4, SumScaled
  <2>7. IntegerSum(a.held) = t /\ IntegerSum(a.target) = 100
    BY <1>1, RowsTyped
  <2>8. \A c \in Classes : X[c] \in Int /\ Y[c] \in Int /\ E[c] = X[c] + Y[c]
    <3> SUFFICES ASSUME NEW c \in Classes
                 PROVE  X[c] \in Int /\ Y[c] \in Int /\ E[c] = X[c] + Y[c]
      OBVIOUS
    <3>1. PICK v \in Int, g \in Int : v = a.held[c] /\ g = a.target[c]
      BY <2>4
    <3>2. PICK y \in Int : y = g * t
      BY Products
    <3>3. 100 * g * t = 100 * y /\ w * g = -(200 * y)
      BY <2>2, <3>2
    <3>4. E[c] = 2 * (10000 * v - 100 * y)
      BY <1>1, <1>5, <3>1, <3>3 DEF Exact
    <3>5. X[c] = 20000 * v /\ Y[c] = -(200 * y)
      BY <2>4, <3>1, <3>3
    <3> QED
      BY <3>4, <3>5
  <2>9. IntegerSum(E) = IntegerSum(X) + IntegerSum(Y)
    BY <1>5, <1>7, <2>4, <2>8, SumPlus
  <2> QED
    BY <1>1, <2>2, <2>5, <2>6, <2>7, <2>9
<1>10. PICK r : r = IntegerSum(R)
  OBVIOUS
<1>11. r \in Int /\ -(t * n) <= r /\ r <= t * n
  BY <1>5, <1>6, <1>7, <1>8, <1>10, SumWithin
<1>12. IntegerSum(F) = r
  <2>1. IntegerSum(F) = IntegerSum(E) + IntegerSum(R)
    BY <1>5, <1>6, <1>7, SumPlus
  <2> QED
    BY <1>9, <1>10, <1>11, <2>1
<1>13. PICK G, H, G1, H1 :
         /\ G = [c \in Classes |-> IF c \in traded THEN F[c] ELSE 0]
         /\ H = [c \in Classes |-> IF c \in traded THEN 0 ELSE F[c]]
         /\ G1 = [c \in traded |-> F[c]] /\ H1 = [c \in left |-> F[c]]
  OBVIOUS
<1>14. /\ DOMAIN G = Classes /\ DOMAIN H = Classes /\ DOMAIN G1 = traded /\ DOMAIN H1 = left
       /\ traded \subseteq Classes /\ left \subseteq Classes
  BY <1>13 DEF Trades
<1>15. ASSUME NEW c \in Classes
       PROVE  /\ G[c] \in Int /\ H[c] \in Int /\ F[c] = G[c] + H[c]
              /\ c \in traded => (G1[c] = G[c] /\ H[c] = 0)
              /\ c \in left => (H1[c] = H[c] /\ G[c] = 0)
  BY <1>6, <1>13
<1>16. IntegerSum(F) = IntegerSum(G) + IntegerSum(H)
  BY <1>5, <1>6, <1>7, <1>14, <1>15, SumPlus
<1>17. IntegerSum(G1) = IntegerSum(G)
  <2>1. /\ DOMAIN G1 \subseteq DOMAIN G /\ \A c \in DOMAIN G1 : G1[c] = G[c]
        /\ \A c \in DOMAIN G \ DOMAIN G1 : G[c] = 0 /\ G[c] >= 0
        /\ \A c \in DOMAIN G : G[c] \in Int
    BY <1>14, <1>15
  <2> QED
    BY <1>7, <1>14, <2>1, SumPart
<1>18. IntegerSum(H1) = IntegerSum(H)
  <2>1. /\ DOMAIN H1 \subseteq DOMAIN H /\ \A c \in DOMAIN H1 : H1[c] = H[c]
        /\ \A c \in DOMAIN H \ DOMAIN H1 : H[c] = 0 /\ H[c] >= 0
        /\ \A c \in DOMAIN H : H[c] \in Int
    BY <1>14, <1>15
  <2> QED
    BY <1>7, <1>14, <2>1, SumPart
<1>19. PICK T : T = Trades(a)
  OBVIOUS
<1>20. PICK s : s = IntegerSum(T)
  OBVIOUS
<1>21. s \in Int /\ IntegerSum(G1) = (-2) * s
  <2>1. IsFiniteSet(traded)
    BY <1>7, <1>14, FS_Subset
  <2>2. ASSUME NEW c \in traded PROVE T[c] \in Int /\ G1[c] = (-2) * T[c]
    <3>1. T[c] \in Int /\ T[c] = -(t * DriftPct(a, c))
      BY <1>1, <1>19, TradeHits
    <3>2. G1[c] = 2 * (t * DriftPct(a, c))
      BY <1>5, <1>13, <1>14
    <3>3. PICK k : k = t * DriftPct(a, c)
      OBVIOUS
    <3>4. k \in Int
      BY <1>1, <1>14, <3>3, DriftNear
    <3> QED
      BY <3>1, <3>2, <3>3, <3>4
  <2>3. IsFiniteSet(DOMAIN T) /\ DOMAIN G1 = DOMAIN T /\ -2 \in Int
    BY <1>14, <1>19, <2>1
  <2>4. \A c \in DOMAIN T : T[c] \in Int /\ G1[c] = (-2) * T[c]
    BY <1>19, <2>2
  <2> QED
    BY <1>20, <2>3, <2>4, SumScaled, SumType
<1>22. PICK u \in Int : u = h * t
  BY Products
<1>23. PICK l : l = IntegerSum(H1)
  OBVIOUS
<1>24. l \in Int /\ -((200 * u) * m) <= l /\ l <= (200 * u) * m
  <2>1. ASSUME NEW c \in left PROVE H1[c] \in Int /\ -(200 * u) <= H1[c] /\ H1[c] <= 200 * u
    <3>1. H1[c] = F[c] /\ H1[c] \in Int
      BY <1>6, <1>13
    <3>2. F[c] = 2 * (t * DriftPct(a, c))
      BY <1>5
    <3> QED
      BY <1>1, <1>22, <3>1, <3>2, LeftNear
  <2>2. 200 * u \in Int
    OBVIOUS
  <2> QED
    BY <1>8, <1>14, <1>23, <2>1, <2>2, SumWithin
<1>25. r = (-2) * s + l
  BY <1>12, <1>16, <1>17, <1>18, <1>21, <1>23
<1>26. (m * 200 * h + n) * t = (200 * u) * m + t * n
  <2>1. m * 200 * h = 200 * (m * h)
    OBVIOUS
  <2>2. (200 * (m * h) + n) * t = (200 * (m * h)) * t + n * t
    OBVIOUS
  <2>3. (m * h) * t = u * m
    BY <1>22
  <2>4. (200 * (m * h)) * t = 200 * ((m * h) * t) /\ (200 * u) * m = 200 * (u * m) /\ n * t = t * n
    OBVIOUS
  <2> QED
    BY <2>1, <2>2, <2>3, <2>4
<1>27. PICK i \in Int, j \in Int : i = (200 * u) * m /\ j = t * n
  <2>1. (200 * u) * m \in Int /\ t * n \in Int
    OBVIOUS
  <2> QED
    BY <2>1
<1>28. 2 * Magnitude(s) <= i + j
  BY <1>11, <1>21, <1>24, <1>25, <1>27 DEF Magnitude
<1> QED
  BY <1>1, <1>8, <1>19, <1>20, <1>26, <1>27, <1>28

(* An account is nothing yet or a row.                                     *)
LEMMA Enrolled ==
  ASSUME RoboTypeOK, robo.enrolled
  PROVE  robo \in RoboRows
<1>1. NoAccount.enrolled = FALSE
  BY DEF NoAccount
<1> QED
  BY <1>1 DEF RoboTypeOK, RoboRows

(* The holdings and the mark of an account change, and nothing else of it. *)
LEMMA RowsChange ==
  ASSUME NEW r \in RoboRows, NEW s \in Snapshots
  PROVE  /\ [r EXCEPT !.held = s] \in RoboRows /\ [r EXCEPT !.held = s].enrolled = TRUE
         /\ [r EXCEPT !.held = s].rebalanced = r.rebalanced
<1>1. [r EXCEPT !.held = s] \in RoboRows
  BY DEF RoboRows
<1>2. [r EXCEPT !.held = s].enrolled = TRUE /\ [r EXCEPT !.held = s].rebalanced = r.rebalanced
  BY DEF RoboRows
<1> QED
  BY <1>1, <1>2

(* An executed plan marks the account and nothing else of it.              *)
LEMMA RowsMarked ==
  ASSUME NEW r \in RoboRows
  PROVE  /\ [r EXCEPT !.rebalanced = TRUE] \in RoboRows
         /\ [r EXCEPT !.rebalanced = TRUE].enrolled = TRUE
         /\ [r EXCEPT !.rebalanced = TRUE].rebalanced = TRUE
<1>1. [r EXCEPT !.rebalanced = TRUE] \in RoboRows
  BY DEF RoboRows
<1>2. /\ [r EXCEPT !.rebalanced = TRUE].enrolled = TRUE
      /\ [r EXCEPT !.rebalanced = TRUE].rebalanced = TRUE
  BY DEF RoboRows
<1> QED
  BY <1>1, <1>2

(* Every step of the robo-adviser keeps its types and where plans are from. *)
LEMMA PlanStep ==
  RoboTypeOK /\ PlansFromRows /\ [RoboNext]_roboVars => RoboTypeOK' /\ PlansFromRows'
<1> SUFFICES ASSUME RoboTypeOK, PlansFromRows, [RoboNext]_roboVars
             PROVE  RoboTypeOK' /\ PlansFromRows'
  OBVIOUS
<1>1. CASE UNCHANGED roboVars
  <2>1. RoboTypeOK'
    BY <1>1, Zenon DEF roboVars, RoboTypeOK
  <2>2. PlansFromRows'
    BY <1>1 DEF roboVars, PlansFromRows
  <2> QED
    BY <2>1, <2>2
<1>2. ASSUME NEW m \in Models, NEW t \in Thresholds, EnrollAccount(m, t)
      PROVE  RoboTypeOK' /\ PlansFromRows'
  <2>1. /\ ~robo.enrolled /\ roboPlans' = roboPlans
        /\ robo' = [enrolled |-> TRUE, target |-> m, threshold |-> t,
                    held |-> [c \in Classes |-> 0], rebalanced |-> FALSE]
    BY <1>2 DEF EnrollAccount
  <2>2. robo' \in RoboRows /\ robo'.enrolled = TRUE /\ robo'.rebalanced = FALSE
    BY <2>1 DEF RoboRows
  <2>3. DOMAIN roboPlans = {}
    BY <2>1 DEF PlansFromRows
  <2>4. RoboTypeOK'
    BY <2>1, <2>2, <2>3 DEF RoboTypeOK, RoboRows
  <2>5. PlansFromRows'
    BY <2>1, <2>2, <2>3 DEF PlansFromRows
  <2> QED
    BY <2>4, <2>5
<1>3. ASSUME NEW s \in Snapshots, UpdateHoldings(s) PROVE RoboTypeOK' /\ PlansFromRows'
  <2>1. robo.enrolled /\ robo' = [robo EXCEPT !.held = s] /\ roboPlans' = roboPlans
    BY <1>3 DEF UpdateHoldings
  <2>2. robo \in RoboRows
    BY <2>1, Enrolled
  <2>3. robo' \in RoboRows /\ robo'.enrolled = TRUE /\ robo'.rebalanced = robo.rebalanced
    BY <2>1, <2>2, RowsChange
  <2>4. RoboTypeOK'
    BY <2>1, <2>3, Zenon DEF RoboTypeOK, RoboRows
  <2>5. PlansFromRows'
    BY <2>1, <2>3 DEF PlansFromRows
  <2> QED
    BY <2>4, <2>5
<1>4. ASSUME NEW p \in RoboPlans, GenerateRebalancingPlan(p) PROVE RoboTypeOK' /\ PlansFromRows'
  <2>1. /\ robo.enrolled /\ Portfolio(robo.held) > 0 /\ p \notin DOMAIN roboPlans /\ robo' = robo
        /\ DOMAIN roboPlans' = DOMAIN roboPlans \cup {p}
        /\ roboPlans'[p] = [status |-> "PENDING", from |-> robo, trades |-> Trades(robo)]
        /\ \A q \in DOMAIN roboPlans : roboPlans'[q] = roboPlans[q]
    BY <1>4 DEF GenerateRebalancingPlan
  <2>2. robo \in RoboRows
    BY <2>1, Enrolled
  <2>3. roboPlans'[p].status = "PENDING"
    BY <2>1
  <2>4. RoboTypeOK'
    <3>1. (\E q \in DOMAIN roboPlans' : roboPlans'[q].status = "EXECUTED")
            <=> \E q \in DOMAIN roboPlans : roboPlans[q].status = "EXECUTED"
      BY <2>1, <2>3
    <3>2. \A q \in DOMAIN roboPlans' : roboPlans'[q].status \in {"PENDING", "EXECUTED"}
      BY <2>1, <2>3 DEF RoboTypeOK
    <3>3. DOMAIN roboPlans' \subseteq RoboPlans
      BY <2>1 DEF RoboTypeOK
    <3>4. (robo.enrolled /\ robo.rebalanced)
            <=> \E q \in DOMAIN roboPlans : roboPlans[q].status = "EXECUTED"
      BY Zenon DEF RoboTypeOK
    <3> QED
      BY <2>1, <2>2, <3>1, <3>2, <3>3, <3>4, Zenon DEF RoboTypeOK, RoboRows
  <2>5. PlansFromRows'
    BY <2>1, <2>2 DEF PlansFromRows
  <2> QED
    BY <2>4, <2>5
<1>5. ASSUME NEW p \in RoboPlans, ExecutePlan(p) PROVE RoboTypeOK' /\ PlansFromRows'
  <2>1. /\ p \in DOMAIN roboPlans
        /\ roboPlans' = [roboPlans EXCEPT ![p].status = "EXECUTED"]
        /\ robo' = [robo EXCEPT !.rebalanced = TRUE]
    BY <1>5 DEF ExecutePlan
  <2>2. PICK b \in RoboRows, st \in {"PENDING", "EXECUTED"} :
          /\ Portfolio(b.held) > 0
          /\ roboPlans[p] = [status |-> st, from |-> b, trades |-> Trades(b)]
    BY <2>1 DEF PlansFromRows
  <2>3. PICK ts, o : ts = Trades(b) /\ o = [status |-> "EXECUTED", from |-> b, trades |-> ts]
    OBVIOUS
  <2>4. [roboPlans[p] EXCEPT !.status = "EXECUTED"] = o
    BY <2>2, <2>3
  <2>5. roboPlans' = [roboPlans EXCEPT ![p] = o]
    BY <2>1, <2>4
  <2>6. /\ DOMAIN roboPlans' = DOMAIN roboPlans /\ roboPlans'[p] = o
        /\ \A q \in DOMAIN roboPlans : q # p => roboPlans'[q] = roboPlans[q]
    BY <2>1, <2>5
  <2>7. robo.enrolled
    BY <2>1 DEF PlansFromRows
  <2>8. robo \in RoboRows
    BY <2>7, Enrolled
  <2>9. robo' \in RoboRows /\ robo'.enrolled = TRUE /\ robo'.rebalanced = TRUE
    BY <2>1, <2>8, RowsMarked
  <2>10. o.status = "EXECUTED"
    BY <2>3
  <2>11. RoboTypeOK'
    <3>1. \A q \in DOMAIN roboPlans' : roboPlans'[q].status \in {"PENDING", "EXECUTED"}
      BY <2>6, <2>10 DEF RoboTypeOK
    <3>2. \E q \in DOMAIN roboPlans' : roboPlans'[q].status = "EXECUTED"
      BY <2>1, <2>6, <2>10
    <3>3. DOMAIN roboPlans' \subseteq RoboPlans
      BY <2>6 DEF RoboTypeOK
    <3> QED
      BY <2>9, <3>1, <3>2, <3>3 DEF RoboTypeOK, RoboRows
  <2>12. \A q \in DOMAIN roboPlans' : \E a \in RoboRows, w \in {"PENDING", "EXECUTED"} :
           /\ Portfolio(a.held) > 0
           /\ roboPlans'[q] = [status |-> w, from |-> a, trades |-> Trades(a)]
    <3> SUFFICES ASSUME NEW q \in DOMAIN roboPlans'
                 PROVE  \E a \in RoboRows, w \in {"PENDING", "EXECUTED"} :
                          /\ Portfolio(a.held) > 0
                          /\ roboPlans'[q] = [status |-> w, from |-> a, trades |-> Trades(a)]
      OBVIOUS
    <3>1. CASE q = p
      BY <2>2, <2>3, <2>6, <3>1
    <3>2. CASE q # p
      BY <2>6, <3>2 DEF PlansFromRows
    <3> QED
      BY <3>1, <3>2
  <2>13. PlansFromRows'
    BY <2>9, <2>12 DEF PlansFromRows
  <2> QED
    BY <2>11, <2>13
<1> QED
  BY <1>1, <1>2, <1>3, <1>4, <1>5 DEF RoboNext

(* What the trades of a plan come to is the sum of them.                   *)
LEMMA TradesSummed ==
  ASSUME NEW trades
  PROVE  NetBought(trades) = IntegerSum(trades)
BY Zenon DEF NetBought, IntegerSum, FoldFunction, FoldFunctionOnSet, MapThenSumSet

(* A rebalancing plan trades what has drifted and reaches its targets.     *)
THEOREM PlansReachTargets == RoboSpec => [](RoboTypeOK /\ PlanFollowsDrift /\ PlanReachesTarget)
<1>1. RoboInit => RoboTypeOK /\ PlansFromRows
  BY DEF RoboInit, PlansFromRows, RoboTypeOK, NoAccount
<1>2. PlansFromRows => PlanFollowsDrift /\ PlanReachesTarget
  <2> SUFFICES ASSUME PlansFromRows PROVE PlanFollowsDrift /\ PlanReachesTarget
    OBVIOUS
  <2>1. ASSUME NEW p \in DOMAIN roboPlans
        PROVE  \E a \in RoboRows : /\ Portfolio(a.held) > 0 /\ roboPlans[p].from = a
                                   /\ roboPlans[p].trades = Trades(a)
    <3>1. PICK a \in RoboRows, st \in {"PENDING", "EXECUTED"} :
            /\ Portfolio(a.held) > 0
            /\ roboPlans[p] = [status |-> st, from |-> a, trades |-> Trades(a)]
      BY DEF PlansFromRows
    <3> QED
      BY <3>1
  <2>2. PlanFollowsDrift
    <3> SUFFICES ASSUME NEW p \in DOMAIN roboPlans, NEW c \in Classes
                 PROVE  /\ Breached(roboPlans[p].from, c) => c \in DOMAIN roboPlans[p].trades
                        /\ c \in DOMAIN roboPlans[p].trades =>
                             2 * Magnitude(10000 * roboPlans[p].from.held[c]
                                           - 100 * roboPlans[p].from.target[c]
                                               * Portfolio(roboPlans[p].from.held))
                               >= (200 * roboPlans[p].from.threshold - 1)
                                     * Portfolio(roboPlans[p].from.held)
      BY DEF PlanFollowsDrift
    <3>1. PICK a \in RoboRows : /\ Portfolio(a.held) > 0 /\ roboPlans[p].from = a
                                /\ roboPlans[p].trades = Trades(a)
      BY <2>1
    <3>2. /\ Breached(a, c) => c \in DOMAIN Trades(a)
          /\ c \in DOMAIN Trades(a) =>
               2 * Magnitude(Exact(a, c)) >= (200 * a.threshold - 1) * Portfolio(a.held)
      BY <3>1, TradesFollow
    <3> QED
      BY <3>1, <3>2 DEF Exact
  <2>3. PlanReachesTarget
    <3>1. ASSUME NEW p \in DOMAIN roboPlans
          PROVE  /\ \A c \in DOMAIN roboPlans[p].trades :
                      2 * Magnitude(10000 * roboPlans[p].from.held[c] + roboPlans[p].trades[c]
                                    - 100 * roboPlans[p].from.target[c]
                                        * Portfolio(roboPlans[p].from.held))
                        <= Portfolio(roboPlans[p].from.held)
                 /\ 2 * Magnitude(NetBought(roboPlans[p].trades))
                      <= (Cardinality(Classes \ DOMAIN roboPlans[p].trades)
                            * 200 * roboPlans[p].from.threshold
                          + Cardinality(Classes)) * Portfolio(roboPlans[p].from.held)
      <4>1. PICK a \in RoboRows : /\ Portfolio(a.held) > 0 /\ roboPlans[p].from = a
                                  /\ roboPlans[p].trades = Trades(a)
        BY <2>1
      <4>2. \A c \in DOMAIN Trades(a) :
              2 * Magnitude(10000 * a.held[c] + Trades(a)[c] - 100 * a.target[c] * Portfolio(a.held))
                <= Portfolio(a.held)
        BY <4>1, TradeHits
      <4>3. 2 * Magnitude(IntegerSum(Trades(a)))
              <= (Cardinality(Classes \ DOMAIN Trades(a)) * 200 * a.threshold
                  + Cardinality(Classes)) * Portfolio(a.held)
        BY <4>1, TradesBalance
      <4>4. NetBought(roboPlans[p].trades) = IntegerSum(Trades(a))
        BY <4>1, TradesSummed
      <4>5. \A c \in DOMAIN roboPlans[p].trades :
              2 * Magnitude(10000 * roboPlans[p].from.held[c] + roboPlans[p].trades[c]
                            - 100 * roboPlans[p].from.target[c] * Portfolio(roboPlans[p].from.held))
                <= Portfolio(roboPlans[p].from.held)
        BY <4>1, <4>2
      <4>6. 2 * Magnitude(NetBought(roboPlans[p].trades))
              <= (Cardinality(Classes \ DOMAIN roboPlans[p].trades)
                    * 200 * roboPlans[p].from.threshold
                  + Cardinality(Classes)) * Portfolio(roboPlans[p].from.held)
        BY <4>1, <4>3, <4>4
      <4> QED
        BY <4>5, <4>6
    <3> QED
      BY <3>1 DEF PlanReachesTarget
  <2> QED
    BY <2>2, <2>3
<1> QED
  BY <1>1, <1>2, PlanStep, PTL DEF RoboSpec

-----------------------------------------------------------------------------
(* Private banking: the counts and totals of the managers.                 *)

(* A client of the managers ms, whose grants are what its assets entitle   *)
(* to.                                                                     *)
ClientRows(ms) ==
  [manager : ms \cup {NoManager}, phone : BOOLEAN, standing : {Standing(a) : a \in Aums}]

(* The stores are finite and hold such clients.                            *)
StoresKept ==
  /\ IsFiniteSet(DOMAIN clients) /\ IsFiniteSet(DOMAIN managers)
  /\ DOMAIN clients \subseteq Clients /\ Managers \subseteq DOMAIN managers
  /\ NoManager \notin DOMAIN managers
  /\ \A c \in DOMAIN clients : clients[c] \in ClientRows(DOMAIN managers)
  /\ \A r \in DOMAIN managers : managers[r] \in [clients : Nat, aum : Int]

(* Every request is that of a client.                                      *)
RequestsKept ==
  /\ DOMAIN requests \subseteq Requests
  /\ \A q \in DOMAIN requests :
       requests[q].client \in DOMAIN clients /\ requests[q].status \in RequestStatuses

(* A manager's count is that of its clients, and within the capacity.      *)
CountsKept ==
  \A r \in DOMAIN managers :
    managers[r].clients = Cardinality(Assigned(r)) /\ managers[r].clients <= Capacity

(* The total of each manager.                                              *)
AumOf == [r \in DOMAIN managers |-> managers[r].aum]

(* The totals of the managers are the assets each client came with.        *)
TotalsKept ==
  /\ DOMAIN first = {c \in DOMAIN clients : clients[c].manager # NoManager}
  /\ \A c \in DOMAIN first : first[c] \in Int
  /\ IntegerSum(AumOf) = IntegerSum(first)

(* The totals of the managers come to the sum of them.                     *)
LEMMA TotalsSummed ==
  ASSUME IsFiniteSet(DOMAIN managers)
  PROVE  MapThenSumSet(LAMBDA r : managers[r].aum, DOMAIN managers) = IntegerSum(AumOf)
<1> DEFINE S == DOMAIN managers
           U(it) == it = [s \in SUBSET S |-> IF s = {} THEN 0
                            ELSE managers[Chosen(s)].aum + it[s \ {Chosen(s)}]]
           fold == CHOOSE it : U(it)
<1>1. MapThenSumSet(LAMBDA r : managers[r].aum, S) = fold[S]
  BY Zenon DEF MapThenSumSet, MapThenFoldSet, Chosen
<1>2. ASSUME NEW it PROVE U(it) <=> Unfolds(it, AumOf)
  <2>1. \A s \in SUBSET S : s # {} => Chosen(s) \in S
    BY DEF Chosen
  <2>2. \A s \in SUBSET S : s # {} => AumOf[Chosen(s)] = managers[Chosen(s)].aum
    BY <2>1 DEF AumOf
  <2>3. DOMAIN AumOf = S
    BY DEF AumOf
  <2> QED
    BY <2>2, <2>3 DEF Unfolds
<1>3. IsFiniteSet(DOMAIN AumOf)
  BY DEF AumOf
<1>4. U(fold)
  <2>1. \E it : U(it)
    BY <1>2, <1>3, Recursion
  <2> HIDE DEF U
  <2> QED
    BY <2>1
<1>5. Unfolds(fold, AumOf) /\ DOMAIN AumOf = S
  BY <1>2, <1>4 DEF AumOf
<1> HIDE DEF fold
<1>6. fold[S] = IntegerSum(AumOf)
  BY <1>3, <1>5, FoldEndsInSum
<1> QED
  BY <1>1, <1>6

(* What a manager has when it takes a client over or lets one go.          *)
LEMMA TakenReleased ==
  ASSUME NEW x \in Nat, NEW y \in Int, NEW a \in Int
  PROVE  /\ Taken([clients |-> x, aum |-> y], a) = [clients |-> x + 1, aum |-> y + a]
         /\ Released([clients |-> x, aum |-> y], a) = [clients |-> AtLeastZero(x - 1), aum |-> y - a]
<1>1. Taken([clients |-> x, aum |-> y], a) = [clients |-> x + 1, aum |-> y + a]
  <2>1. [[clients |-> x, aum |-> y] EXCEPT !.clients = x + 1] = [clients |-> x + 1, aum |-> y]
    OBVIOUS
  <2>2. [[clients |-> x + 1, aum |-> y] EXCEPT !.aum = y + a] = [clients |-> x + 1, aum |-> y + a]
    OBVIOUS
  <2>3. [clients |-> x, aum |-> y].clients = x /\ [clients |-> x, aum |-> y].aum = y
    OBVIOUS
  <2> QED
    BY <2>1, <2>2, <2>3 DEF Taken
<1>2. Released([clients |-> x, aum |-> y], a) = [clients |-> AtLeastZero(x - 1), aum |-> y - a]
  <2>1. PICK n : n = AtLeastZero(x - 1)
    OBVIOUS
  <2>2. [[clients |-> x, aum |-> y] EXCEPT !.clients = n] = [clients |-> n, aum |-> y]
    OBVIOUS
  <2>3. [[clients |-> n, aum |-> y] EXCEPT !.aum = y - a] = [clients |-> n, aum |-> y - a]
    OBVIOUS
  <2>4. [clients |-> x, aum |-> y].clients = x /\ [clients |-> x, aum |-> y].aum = y
    OBVIOUS
  <2> QED
    BY <2>1, <2>2, <2>3, <2>4 DEF Released
<1> QED
  BY <1>1, <1>2

(* A client that moves or is reassessed is a client still.                 *)
LEMMA RowMoved ==
  ASSUME NEW ms, NEW b \in ClientRows(ms), NEW r \in ms
  PROVE  /\ [b EXCEPT !.manager = r] \in ClientRows(ms) /\ [b EXCEPT !.manager = r].manager = r
         /\ [b EXCEPT !.manager = r].standing = b.standing
<1>1. [b EXCEPT !.manager = r] \in ClientRows(ms)
  BY DEF ClientRows
<1>2. /\ [b EXCEPT !.manager = r].manager = r
      /\ [b EXCEPT !.manager = r].standing = b.standing
  BY DEF ClientRows
<1> QED
  BY <1>1, <1>2

(* And so is one whose assets are reported anew.                           *)
LEMMA RowReassessed ==
  ASSUME NEW ms, NEW b \in ClientRows(ms), NEW a \in Aums
  PROVE  /\ [b EXCEPT !.standing = Standing(a)] \in ClientRows(ms)
         /\ [b EXCEPT !.standing = Standing(a)].manager = b.manager
<1>1. [b EXCEPT !.standing = Standing(a)] \in ClientRows(ms)
  BY DEF ClientRows
<1>2. [b EXCEPT !.standing = Standing(a)].manager = b.manager
  BY DEF ClientRows
<1> QED
  BY <1>1, <1>2

(* The stores when a new client has come.                                  *)
LEMMA ClientOnboarded ==
  ASSUME StoresKept, RequestsKept, CountsKept, TotalsKept,
         NEW c \in Clients, NEW a \in Aums, OnboardClient(c, a)
  PROVE  StoresKept' /\ RequestsKept' /\ CountsKept' /\ TotalsKept'
<1>1. PICK row : row = [manager |-> NoManager, phone |-> Standing(a).concierge,
                         standing |-> Standing(a)]
  OBVIOUS
<1>2. row \in ClientRows(DOMAIN managers) /\ row.manager = NoManager
  <2>1. Standing(a).concierge \in BOOLEAN
    BY DEF Standing
  <2> QED
    BY <1>1, <2>1 DEF ClientRows
<1>3. /\ c \notin DOMAIN clients /\ UNCHANGED <<managers, requests, first>>
      /\ DOMAIN clients' = DOMAIN clients \cup {c} /\ clients'[c] = row
      /\ \A d \in DOMAIN clients : clients'[d] = clients[d]
  BY <1>1 DEF OnboardClient, With
<1>4. StoresKept'
  <2>1. IsFiniteSet(DOMAIN clients')
    BY <1>3, FS_AddElement DEF StoresKept
  <2> QED
    BY <1>2, <1>3, <2>1 DEF StoresKept
<1>5. RequestsKept'
  BY <1>3 DEF RequestsKept
<1>6. \A r \in DOMAIN managers : Assigned(r)' = Assigned(r)
  BY <1>2, <1>3 DEF Assigned, StoresKept
<1>7. CountsKept'
  BY <1>3, <1>6 DEF CountsKept
<1>8. TotalsKept'
  <2>1. AumOf' = AumOf
    BY <1>3 DEF AumOf
  <2>2. {d \in DOMAIN clients' : clients'[d].manager # NoManager}
          = {d \in DOMAIN clients : clients[d].manager # NoManager}
    BY <1>2, <1>3
  <2> QED
    BY <1>3, <2>1, <2>2 DEF TotalsKept
<1> QED
  BY <1>4, <1>5, <1>7, <1>8

(* The stores when the assets of a client are reported anew.               *)
LEMMA ClientReassessed ==
  ASSUME StoresKept, RequestsKept, CountsKept, TotalsKept,
         NEW c \in Clients, NEW a \in Aums, UpdateAUM(c, a)
  PROVE  StoresKept' /\ RequestsKept' /\ CountsKept' /\ TotalsKept'
<1>1. PICK row : row = [clients[c] EXCEPT !.standing = Standing(a)]
  OBVIOUS
<1>2. /\ c \in DOMAIN clients /\ UNCHANGED <<managers, requests, first>>
      /\ DOMAIN clients' = DOMAIN clients /\ clients'[c] = row
      /\ \A d \in DOMAIN clients : d # c => clients'[d] = clients[d]
  BY <1>1 DEF UpdateAUM
<1>3. row \in ClientRows(DOMAIN managers) /\ row.manager = clients[c].manager
  BY <1>1, <1>2, RowReassessed DEF StoresKept
<1>4. StoresKept'
  BY <1>2, <1>3 DEF StoresKept
<1>5. RequestsKept'
  BY <1>2 DEF RequestsKept
<1>6. \A r \in DOMAIN managers : Assigned(r)' = Assigned(r)
  BY <1>2, <1>3 DEF Assigned
<1>7. CountsKept'
  BY <1>2, <1>6 DEF CountsKept
<1>8. TotalsKept'
  <2>1. AumOf' = AumOf
    BY <1>2 DEF AumOf
  <2>2. {d \in DOMAIN clients' : clients'[d].manager # NoManager}
          = {d \in DOMAIN clients : clients[d].manager # NoManager}
    BY <1>2, <1>3
  <2> QED
    BY <1>2, <2>1, <2>2 DEF TotalsKept
<1> QED
  BY <1>4, <1>5, <1>7, <1>8

(* The stores when a client has got a manager, or another one.             *)
LEMMA ClientAssigned ==
  ASSUME StoresKept, RequestsKept, CountsKept, TotalsKept,
         NEW c \in Clients, NEW r \in DOMAIN managers, AssignRM(c, r)
  PROVE  StoresKept' /\ RequestsKept' /\ CountsKept' /\ TotalsKept'
<1>1. PICK row : row = [clients[c] EXCEPT !.manager = r]
  OBVIOUS
<1>2. PICK aum, old : aum = clients[c].standing.aum /\ old = clients[c].manager
  OBVIOUS
<1>3. /\ c \in DOMAIN clients /\ managers[r].clients < Capacity /\ old # r
      /\ managers' = [q \in DOMAIN managers |->
                        CASE q = r -> Taken(managers[q], aum)
                          [] q = old -> Released(managers[q], aum)
                          [] OTHER -> managers[q]]
      /\ first' = (IF old = NoManager THEN With(first, c, aum) ELSE first)
      /\ requests' = requests
  BY <1>2 DEF AssignRM
<1>4. /\ DOMAIN clients' = DOMAIN clients /\ clients'[c] = row
      /\ \A d \in DOMAIN clients : d # c => clients'[d] = clients[d]
  BY <1>1, <1>3 DEF AssignRM
<1>5. /\ row \in ClientRows(DOMAIN managers) /\ row.manager = r
      /\ row.standing = clients[c].standing
  BY <1>1, <1>3, RowMoved DEF StoresKept
<1>6. aum \in Int /\ old \in DOMAIN managers \cup {NoManager}
  <2>1. PICK a \in Aums : clients[c].standing = Standing(a)
    BY <1>3 DEF StoresKept, ClientRows
  <2>2. Standing(a).aum = a
    BY DEF Standing
  <2>3. a \in Int
    BY PrivateBankingConstants
  <2>4. old \in DOMAIN managers \cup {NoManager}
    BY <1>2, <1>3 DEF StoresKept, ClientRows
  <2> QED
    BY <1>2, <2>1, <2>2, <2>3, <2>4
<1>7. /\ DOMAIN managers' = DOMAIN managers
      /\ managers'[r] = Taken(managers[r], aum)
      /\ old \in DOMAIN managers => managers'[old] = Released(managers[old], aum)
      /\ \A q \in DOMAIN managers : q # r /\ q # old => managers'[q] = managers[q]
  BY <1>3
<1>8. ASSUME NEW q \in DOMAIN managers
      PROVE  /\ Taken(managers[q], aum)
                  = [clients |-> managers[q].clients + 1, aum |-> managers[q].aum + aum]
             /\ Released(managers[q], aum)
                  = [clients |-> AtLeastZero(managers[q].clients - 1), aum |-> managers[q].aum - aum]
             /\ managers[q].clients \in Nat /\ managers[q].aum \in Int
             /\ AtLeastZero(managers[q].clients - 1) \in Nat
  <2>1. PICK m \in [clients : Nat, aum : Int] : m = managers[q]
    BY DEF StoresKept
  <2>2. PICK x, y : x = m.clients /\ y = m.aum
    OBVIOUS
  <2>3. m = [clients |-> x, aum |-> y] /\ x \in Nat /\ y \in Int
    BY <2>2
  <2>4. AtLeastZero(x - 1) \in Nat
    BY <2>3 DEF AtLeastZero
  <2> QED
    BY <1>6, <2>1, <2>2, <2>3, <2>4, TakenReleased
<1>9. StoresKept'
  <2>1. \A q \in DOMAIN managers : managers'[q] \in [clients : Nat, aum : Int]
    <3> SUFFICES ASSUME NEW q \in DOMAIN managers
                 PROVE  managers'[q] \in [clients : Nat, aum : Int]
      OBVIOUS
    <3>1. CASE q = r
      BY <1>6, <1>7, <1>8, <3>1
    <3>2. CASE q # r /\ q = old
      BY <1>6, <1>7, <1>8, <3>2
    <3>3. CASE q # r /\ q # old
      BY <1>7, <3>3 DEF StoresKept
    <3> QED
      BY <3>1, <3>2, <3>3
  <2> QED
    BY <1>4, <1>5, <1>7, <2>1 DEF StoresKept
<1>10. RequestsKept'
  BY <1>3, <1>4 DEF RequestsKept
<1>11. ASSUME NEW q \in DOMAIN managers
       PROVE  IsFiniteSet(Assigned(q)) /\ managers[q].clients = Cardinality(Assigned(q))
  <2>1. Assigned(q) \in SUBSET DOMAIN clients
    BY DEF Assigned
  <2> QED
    BY <2>1, FS_Subset DEF StoresKept, CountsKept
<1>12. CountsKept'
  <2> SUFFICES ASSUME NEW q \in DOMAIN managers
               PROVE  /\ managers'[q].clients = Cardinality(Assigned(q)')
                      /\ managers'[q].clients <= Capacity
    BY <1>7 DEF CountsKept
  <2>1. CASE q = r
    <3>1. Assigned(q)' = Assigned(q) \cup {c} /\ c \notin Assigned(q)
      BY <1>2, <1>3, <1>4, <1>5, <2>1 DEF Assigned
    <3>2. Cardinality(Assigned(q) \cup {c}) = Cardinality(Assigned(q)) + 1
      BY <1>11, <3>1, FS_AddElement
    <3>3. managers'[q].clients = managers[q].clients + 1
      BY <1>7, <1>8, <2>1
    <3>4. managers[q].clients + 1 <= Capacity
      BY <1>3, <1>8, <2>1, PrivateBankingConstants
    <3> QED
      BY <1>11, <3>1, <3>2, <3>3, <3>4
  <2>2. CASE q # r /\ q = old
    <3>1. Assigned(q)' = Assigned(q) \ {c} /\ c \in Assigned(q)
      BY <1>2, <1>3, <1>4, <1>5, <2>2 DEF Assigned
    <3>2. /\ Cardinality(Assigned(q) \ {c}) = Cardinality(Assigned(q)) - 1
          /\ Cardinality(Assigned(q) \ {c}) \in Nat
      BY <1>11, <3>1, FS_RemoveElement, FS_CardinalityType
    <3>3. managers'[q].clients = AtLeastZero(managers[q].clients - 1)
      BY <1>7, <1>8, <2>2
    <3>4. AtLeastZero(managers[q].clients - 1) = managers[q].clients - 1
      BY <1>8, <1>11, <3>2 DEF AtLeastZero
    <3>5. managers[q].clients <= Capacity
      BY DEF CountsKept
    <3> QED
      BY <1>8, <1>11, <3>1, <3>2, <3>3, <3>4, <3>5, PrivateBankingConstants
  <2>3. CASE q # r /\ q # old
    <3>1. Assigned(q)' = Assigned(q)
      BY <1>2, <1>3, <1>4, <1>5, <2>3 DEF Assigned
    <3> QED
      BY <1>7, <2>3, <3>1 DEF CountsKept
  <2> QED
    BY <2>1, <2>2, <2>3
<1>13. PICK A, B : A = AumOf /\ B = AumOf'
  OBVIOUS
<1>14. /\ IsFiniteSet(DOMAIN A) /\ DOMAIN A = DOMAIN managers /\ DOMAIN B = DOMAIN A
       /\ \A q \in DOMAIN A : A[q] \in Int /\ A[q] = managers[q].aum
  BY <1>7, <1>8, <1>13 DEF AumOf, StoresKept
<1>15. /\ r \in DOMAIN A /\ B[r] = A[r] + aum
       /\ old \in DOMAIN A => B[old] = A[old] - aum
       /\ \A q \in DOMAIN A : q # r /\ q # old => B[q] = A[q]
  <2>1. \A q \in DOMAIN managers : B[q] = managers'[q].aum
    BY <1>7, <1>13 DEF AumOf
  <2>2. managers'[r].aum = managers[r].aum + aum
    BY <1>7, <1>8
  <2>3. old \in DOMAIN managers => managers'[old].aum = managers[old].aum - aum
    BY <1>7, <1>8
  <2> QED
    BY <1>7, <1>14, <2>1, <2>2, <2>3
<1>16. {d \in DOMAIN clients' : clients'[d].manager # NoManager}
         = {d \in DOMAIN clients : clients[d].manager # NoManager} \cup {c}
  <2>1. r # NoManager
    BY DEF StoresKept
  <2> QED
    BY <1>3, <1>4, <1>5, <2>1
<1>17. TotalsKept'
  <2>1. CASE old = NoManager
    <3>1. IntegerSum(B) = IntegerSum(A) + aum
      <4>1. old \notin DOMAIN A
        BY <1>14, <2>1 DEF StoresKept
      <4>2. /\ IsFiniteSet(DOMAIN A) /\ DOMAIN B = DOMAIN A /\ \A q \in DOMAIN A : A[q] \in Int
            /\ r \in DOMAIN A /\ B[r] \in Int /\ \A q \in DOMAIN A : q # r => B[q] = A[q]
        BY <1>6, <1>14, <1>15, <4>1
      <4>3. IntegerSum(B) = IntegerSum(A) - A[r] + B[r]
        BY <4>2, SumChange
      <4>4. IntegerSum(A) \in Int
        BY <1>14, SumType
      <4> QED
        BY <1>6, <1>14, <1>15, <4>3, <4>4
    <3>2. PICK f, g : f = first /\ g = first'
      OBVIOUS
    <3>3. /\ DOMAIN g = DOMAIN f \cup {c} /\ c \notin DOMAIN f /\ g[c] = aum
          /\ \A d \in DOMAIN f : g[d] = f[d] /\ f[d] \in Int
      BY <1>2, <1>3, <2>1, <3>2 DEF With, TotalsKept
    <3>4. IsFiniteSet(DOMAIN f)
      BY <3>2, FS_Subset DEF StoresKept, TotalsKept
    <3>5. IntegerSum(g) = aum + IntegerSum(f)
      <4>1. /\ IsFiniteSet(DOMAIN g) /\ \A d \in DOMAIN g : g[d] \in Int
            /\ c \in DOMAIN g /\ DOMAIN f = DOMAIN g \ {c} /\ \A d \in DOMAIN f : f[d] = g[d]
        BY <1>6, <3>3, <3>4, FS_AddElement
      <4> QED
        BY <3>3, <4>1, SumWithout
    <3>6. IntegerSum(f) \in Int
      BY <3>3, <3>4, SumType
    <3>7. IntegerSum(A) = IntegerSum(f)
      BY <1>13, <3>2 DEF TotalsKept
    <3>8. IntegerSum(AumOf)' = IntegerSum(first')
      BY <1>6, <1>13, <3>1, <3>2, <3>5, <3>6, <3>7
    <3>9. DOMAIN first' = {d \in DOMAIN clients' : clients'[d].manager # NoManager}
      BY <1>16, <3>2, <3>3 DEF TotalsKept
    <3>10. \A d \in DOMAIN first' : first'[d] \in Int
      BY <1>6, <3>2, <3>3
    <3> QED
      BY <3>8, <3>9, <3>10 DEF TotalsKept
  <2>2. CASE old # NoManager
    <3>1. old \in DOMAIN managers /\ first' = first
      BY <1>3, <1>6, <2>2
    <3>2. PICK M : M = [A EXCEPT ![r] = A[r] + aum]
      OBVIOUS
    <3>3. /\ DOMAIN M = DOMAIN A /\ M[r] = A[r] + aum /\ \A q \in DOMAIN A : q # r => M[q] = A[q]
      BY <1>15, <3>2
    <3>4. IntegerSum(M) = IntegerSum(A) - A[r] + M[r]
      <4>1. M[r] \in Int
        BY <1>6, <1>14, <1>15, <3>3
      <4> QED
        BY <1>14, <1>15, <3>3, <4>1, SumChange
    <3>5. IntegerSum(B) = IntegerSum(M) - M[old] + B[old]
      <4>1. /\ IsFiniteSet(DOMAIN M) /\ DOMAIN B = DOMAIN M /\ \A q \in DOMAIN M : M[q] \in Int
            /\ old \in DOMAIN M /\ B[old] \in Int /\ \A q \in DOMAIN M : q # old => B[q] = M[q]
        BY <1>3, <1>6, <1>14, <1>15, <3>1, <3>3
      <4> QED
        BY <4>1, SumChange
    <3>6. IntegerSum(A) \in Int
      BY <1>14, SumType
    <3>7. M[old] = A[old] /\ B[old] = A[old] - aum /\ A[old] \in Int /\ A[r] \in Int
      BY <1>3, <1>14, <1>15, <3>1, <3>3
    <3>8. IntegerSum(B) = IntegerSum(A)
      BY <1>6, <3>3, <3>4, <3>5, <3>6, <3>7
    <3>9. c \in {d \in DOMAIN clients : clients[d].manager # NoManager}
      BY <1>2, <1>3, <2>2
    <3> QED
      BY <1>13, <1>16, <3>1, <3>8, <3>9 DEF TotalsKept
  <2> QED
    BY <2>1, <2>2
<1> QED
  BY <1>9, <1>10, <1>12, <1>17

(* The stores when a manager has joined.                                   *)
LEMMA ManagerJoined ==
  ASSUME StoresKept, RequestsKept, CountsKept, TotalsKept, NEW r \in Recruits, AddRM(r)
  PROVE  StoresKept' /\ RequestsKept' /\ CountsKept' /\ TotalsKept'
<1>1. /\ r \notin DOMAIN managers /\ UNCHANGED <<clients, requests, first>>
      /\ DOMAIN managers' = DOMAIN managers \cup {r}
      /\ managers'[r] = [clients |-> 0, aum |-> 0]
      /\ \A q \in DOMAIN managers : managers'[q] = managers[q]
  BY DEF AddRM, With, NewManager
<1>2. r # NoManager
  BY PrivateBankingConstants DEF NoManager
<1>3. StoresKept'
  <2>1. IsFiniteSet(DOMAIN managers')
    BY <1>1, FS_AddElement DEF StoresKept
  <2>2. \A c \in DOMAIN clients : clients[c] \in ClientRows(DOMAIN managers')
    BY <1>1 DEF StoresKept, ClientRows
  <2>3. \A q \in DOMAIN managers' : managers'[q] \in [clients : Nat, aum : Int]
    <3>1. managers'[r] \in [clients : Nat, aum : Int]
      BY <1>1
    <3> QED
      BY <1>1, <3>1 DEF StoresKept
  <2>4. /\ IsFiniteSet(DOMAIN clients') /\ DOMAIN clients' \subseteq Clients
        /\ Managers \subseteq DOMAIN managers' /\ NoManager \notin DOMAIN managers'
    BY <1>1, <1>2 DEF StoresKept
  <2>5. \A c \in DOMAIN clients' : clients'[c] \in ClientRows(DOMAIN managers')
    BY <1>1, <2>2
  <2> QED
    BY <2>1, <2>3, <2>4, <2>5 DEF StoresKept
<1>4. RequestsKept'
  BY <1>1 DEF RequestsKept
<1>5. CountsKept'
  <2>1. \A q : Assigned(q)' = Assigned(q)
    BY <1>1 DEF Assigned
  <2>2. Assigned(r) = {}
    <3>1. \A c \in DOMAIN clients : clients[c].manager \in DOMAIN managers \cup {NoManager}
      BY DEF StoresKept, ClientRows
    <3> QED
      BY <1>1, <1>2, <3>1 DEF Assigned
  <2>3. managers'[r].clients = 0 /\ 0 <= Capacity /\ Cardinality({}) = 0
    BY <1>1, PrivateBankingConstants, FS_EmptySet
  <2> QED
    BY <1>1, <2>1, <2>2, <2>3 DEF CountsKept
<1>6. TotalsKept'
  <2>1. PICK A, B : A = AumOf /\ B = AumOf'
    OBVIOUS
  <2>2. /\ IsFiniteSet(DOMAIN B) /\ r \in DOMAIN B /\ DOMAIN A = DOMAIN B \ {r} /\ B[r] = 0
        /\ \A q \in DOMAIN A : A[q] = B[q]
    <3>1. DOMAIN A = DOMAIN managers /\ DOMAIN B = DOMAIN managers'
      BY <2>1 DEF AumOf
    <3>2. \A q \in DOMAIN managers' : B[q] = managers'[q].aum
      BY <2>1 DEF AumOf
    <3>3. \A q \in DOMAIN managers : A[q] = managers[q].aum
      BY <2>1 DEF AumOf
    <3>4. managers'[r].aum = 0
      BY <1>1
    <3>5. IsFiniteSet(DOMAIN managers')
      BY <1>3 DEF StoresKept
    <3> QED
      BY <1>1, <3>1, <3>2, <3>3, <3>4, <3>5
  <2>3. \A q \in DOMAIN B : B[q] \in Int
    BY <1>3, <2>1 DEF AumOf, StoresKept
  <2>4. IntegerSum(B) = B[r] + IntegerSum(A)
    BY <2>2, <2>3, SumWithout
  <2>5. IntegerSum(A) \in Int
    <3>1. IsFiniteSet(DOMAIN A) /\ \A q \in DOMAIN A : A[q] \in Int
      BY <2>2, <2>3, FS_RemoveElement
    <3> QED
      BY <3>1, SumType
  <2> QED
    BY <1>1, <2>1, <2>2, <2>4, <2>5 DEF TotalsKept
<1> QED
  BY <1>3, <1>4, <1>5, <1>6

(* Every step of private banking keeps its stores, counts and totals.      *)
LEMMA BankingStep ==
  StoresKept /\ RequestsKept /\ CountsKept /\ TotalsKept /\ [BankingNext]_bankingVars
    => StoresKept' /\ RequestsKept' /\ CountsKept' /\ TotalsKept'
<1> SUFFICES ASSUME StoresKept, RequestsKept, CountsKept, TotalsKept, [BankingNext]_bankingVars
             PROVE  StoresKept' /\ RequestsKept' /\ CountsKept' /\ TotalsKept'
  OBVIOUS
<1>1. ASSUME UNCHANGED <<clients, managers, first>>
      PROVE  StoresKept' /\ CountsKept' /\ TotalsKept'
  <2>1. AumOf' = AumOf
    BY <1>1 DEF AumOf
  <2>2. \A r : Assigned(r)' = Assigned(r)
    BY <1>1 DEF Assigned
  <2>3. StoresKept'
    BY <1>1 DEF StoresKept
  <2>4. CountsKept'
    BY <1>1, <2>2 DEF CountsKept
  <2>5. TotalsKept'
    BY <1>1, <2>1 DEF TotalsKept
  <2> QED
    BY <2>3, <2>4, <2>5
<1>2. CASE UNCHANGED bankingVars
  <2>1. RequestsKept'
    BY <1>2 DEF bankingVars, RequestsKept
  <2> QED
    BY <1>1, <1>2, <2>1 DEF bankingVars
<1>3. ASSUME NEW q \in Requests, NEW c \in Clients, CreateConciergeRequest(q, c)
      PROVE  StoresKept' /\ RequestsKept' /\ CountsKept' /\ TotalsKept'
  <2>1. PICK row : row = [client |-> c, status |-> "OPEN", resolved |-> FALSE]
    OBVIOUS
  <2>2. /\ UNCHANGED <<clients, managers, first>> /\ c \in DOMAIN clients
        /\ DOMAIN requests' = DOMAIN requests \cup {q} /\ requests'[q] = row
        /\ \A p \in DOMAIN requests : p # q => requests'[p] = requests[p]
    BY <1>3, <2>1 DEF CreateConciergeRequest, With
  <2>3. row.client = c /\ row.status \in RequestStatuses
    BY <2>1 DEF RequestStatuses
  <2>4. RequestsKept'
    BY <2>2, <2>3 DEF RequestsKept
  <2> QED
    BY <1>1, <2>2, <2>4
<1>4. ASSUME NEW q \in DOMAIN requests, NEW s \in RequestStatuses, UpdateConciergeRequest(q, s)
      PROVE  StoresKept' /\ RequestsKept' /\ CountsKept' /\ TotalsKept'
  <2>1. UNCHANGED <<clients, managers, first>> /\ DOMAIN requests' = DOMAIN requests
    BY <1>4 DEF UpdateConciergeRequest
  <2>2. \A p \in DOMAIN requests :
          requests'[p].client = requests[p].client /\ requests'[p].status \in RequestStatuses
    BY <1>4 DEF UpdateConciergeRequest, RequestsKept
  <2>3. RequestsKept'
    BY <2>1, <2>2 DEF RequestsKept
  <2> QED
    BY <1>1, <2>1, <2>3
<1> QED
  BY <1>2, <1>3, <1>4, ClientOnboarded, ClientReassessed, ClientAssigned, ManagerJoined
     DEF BankingNext

(* The stored count of a manager is the number of its clients and within   *)
(* the capacity, grants follow the assets, and the totals of all managers  *)
(* are what the clients had when each got its first one.                   *)
THEOREM ManagersAgree ==
  BankingSpec => [](BankingTypeOK /\ ManagersCounted /\ TotalsAreFirstAssets)
<1>1. BankingInit => StoresKept /\ RequestsKept /\ CountsKept /\ TotalsKept
  <2> SUFFICES ASSUME BankingInit PROVE StoresKept /\ RequestsKept /\ CountsKept /\ TotalsKept
    OBVIOUS
  <2>1. /\ DOMAIN clients = {} /\ DOMAIN requests = {} /\ DOMAIN first = {}
        /\ DOMAIN managers = Managers
        /\ \A r \in Managers : managers[r] = [clients |-> 0, aum |-> 0]
    BY DEF BankingInit, Empty, NewManager
  <2>2. StoresKept
    BY <2>1, FS_EmptySet, PrivateBankingConstants DEF StoresKept, NoManager
  <2>3. \A r : Assigned(r) = {}
    BY <2>1 DEF Assigned
  <2>4. CountsKept
    <3>1. \A r \in Managers : managers[r].clients = 0
      BY <2>1
    <3> QED
      <4>1. Cardinality({}) = 0 /\ 0 <= Capacity
        BY FS_EmptySet, PrivateBankingConstants
      <4>2. \A r \in Managers : Cardinality(Assigned(r)) = 0
        BY <2>3, <4>1
      <4> QED
        BY <2>1, <3>1, <4>1, <4>2 DEF CountsKept
  <2>5. IntegerSum(first) = 0
    BY <2>1, SumEmpty
  <2>6. IntegerSum(AumOf) = 0
    <3>1. AumOf = [r \in Managers |-> 0]
      BY <2>1 DEF AumOf
    <3>2. IntegerSum([r \in Managers |-> 0]) = 0 * Cardinality(Managers)
      <4>1. IsFiniteSet(Managers) /\ 0 \in Int
        BY PrivateBankingConstants
      <4> QED
        BY <4>1, SumConstant
    <3>3. Cardinality(Managers) \in Nat
      BY PrivateBankingConstants, FS_CardinalityType
    <3> QED
      BY <3>1, <3>2, <3>3
  <2>7. TotalsKept
    BY <2>1, <2>5, <2>6 DEF TotalsKept
  <2> QED
    BY <2>1, <2>2, <2>4, <2>7 DEF RequestsKept
<1>2. StoresKept /\ RequestsKept /\ CountsKept /\ TotalsKept
        => BankingTypeOK /\ ManagersCounted /\ TotalsAreFirstAssets
  <2> SUFFICES ASSUME StoresKept, RequestsKept, CountsKept, TotalsKept
               PROVE  BankingTypeOK /\ ManagersCounted /\ TotalsAreFirstAssets
    OBVIOUS
  <2>1. \A c \in DOMAIN clients : clients[c].manager \in DOMAIN managers \cup {NoManager}
    BY DEF StoresKept, ClientRows
  <2>2. BankingTypeOK
    BY <2>1 DEF BankingTypeOK, StoresKept, RequestsKept
  <2>3. ASSUME NEW c \in DOMAIN clients
        PROVE  clients[c].standing = Standing(clients[c].standing.aum)
    <3>1. PICK a \in Aums : clients[c].standing = Standing(a)
      BY DEF StoresKept, ClientRows
    <3>2. Standing(a).aum = a
      BY DEF Standing
    <3> QED
      BY <3>1, <3>2
  <2>4. ManagersCounted
    BY <2>3 DEF ManagersCounted, CountsKept
  <2>5. MapThenSumSet(LAMBDA c : first[c], DOMAIN first) = IntegerSum(first)
    BY Zenon DEF IntegerSum, FoldFunction, FoldFunctionOnSet, MapThenSumSet
  <2>6. MapThenSumSet(LAMBDA r : managers[r].aum, DOMAIN managers) = IntegerSum(AumOf)
    BY TotalsSummed DEF StoresKept
  <2>7. TotalsAreFirstAssets
    BY <2>5, <2>6 DEF TotalsAreFirstAssets, TotalsKept
  <2> QED
    BY <2>2, <2>4, <2>7
<1> QED
  BY <1>1, <1>2, BankingStep, PTL DEF BankingSpec

-----------------------------------------------------------------------------
(* The scheduled reports: what is remembered of the runs tells how long    *)
(* ago each report last ran.                                               *)

Runs == [report : Reports, day : 0..LastReportDay]

(* The remembered runs of a report: none if it never ran, or if as many    *)
(* runs as are kept came after it; else its last one is as far from the    *)
(* end as there were runs since, and has its day.                          *)
HistoryOf(r) ==
  IF lastDay[r] = -1 \/ runsSince[r] = KeptRuns
  THEN \A i \in 1..Len(runHistory) : runHistory[i].report # r
  ELSE LET n == Len(runHistory) - runsSince[r] IN
       /\ n \in 1..Len(runHistory)
       /\ runHistory[n].report = r /\ runHistory[n].day = lastDay[r]
       /\ \A i \in (n + 1)..Len(runHistory) : runHistory[i].report # r

SchedulerInv == ReportTypeOK /\ \A r \in Reports : HistoryOf(r)

(* What is kept of a history with one more run.                            *)
LEMMA KeptIs ==
  ASSUME NEW h \in Seq(Runs), Len(h) <= KeptRuns, NEW run \in Runs
  PROVE  LET k == Keep(Append(h, run)) IN
         /\ k \in Seq(Runs)
         /\ Len(k) = IF Len(h) < KeptRuns THEN Len(h) + 1 ELSE KeptRuns
         /\ k[Len(k)] = run
         /\ \A i \in 1..(Len(k) - 1) :
              k[i] = IF Len(h) < KeptRuns THEN h[i] ELSE h[i + 1]
<1> DEFINE a == Append(h, run)
           k == Keep(a)
<1>1. /\ a \in Seq(Runs) /\ Len(a) = Len(h) + 1 /\ Len(h) \in Nat /\ KeptRuns \in Nat \ {0}
      /\ a[Len(h) + 1] = run /\ \A i \in 1..Len(h) : a[i] = h[i]
  BY SchedulerConstants
<1> HIDE DEF a
<1>2. CASE Len(h) < KeptRuns
  <2>1. k = a
    BY <1>1, <1>2 DEF Keep
  <2> QED
    BY <1>1, <1>2, <2>1 DEF a
<1>3. CASE Len(h) = KeptRuns
  <2>1. k = SubSeq(a, 2, KeptRuns + 1)
    BY <1>1, <1>3 DEF Keep
  <2>2. /\ k \in Seq(Runs) /\ Len(k) = KeptRuns
        /\ \A i \in 1..KeptRuns : k[i] = a[i + 1]
    BY <1>1, <1>3, <2>1
  <2> QED
    BY <1>1, <1>3, <2>2 DEF a
<1> QED
  BY <1>1, <1>2, <1>3

(* Another run keeps what is known of every report.                        *)
LEMMA RunKeeps ==
  ASSUME SchedulerInv, NEW q \in Reports, ExecuteRun(q)
  PROVE  SchedulerInv'
<1> DEFINE run == [report |-> q, day |-> reportDay]
<1>1. /\ runHistory \in Seq(Runs) /\ Len(runHistory) <= KeptRuns /\ run \in Runs
      /\ Len(runHistory) \in Nat /\ KeptRuns \in Nat \ {0} /\ LastReportDay \in Nat
      /\ lastDay \in [Reports -> (-1)..LastReportDay] /\ runsSince \in [Reports -> 0..KeptRuns]
      /\ reportDay \in 0..LastReportDay /\ run.report = q /\ run.day = reportDay
  BY SchedulerConstants DEF SchedulerInv, ReportTypeOK, Runs
<1>2. /\ runHistory' \in Seq(Runs)
      /\ Len(runHistory') = IF Len(runHistory) < KeptRuns THEN Len(runHistory) + 1 ELSE KeptRuns
      /\ runHistory'[Len(runHistory')] = run
      /\ \A i \in 1..(Len(runHistory') - 1) :
           runHistory'[i] = IF Len(runHistory) < KeptRuns THEN runHistory[i] ELSE runHistory[i + 1]
  <2>1. runHistory' = Keep(Append(runHistory, run))
    BY DEF ExecuteRun
  <2> HIDE DEF run
  <2> QED
    BY <1>1, <2>1, KeptIs
<1>3. /\ lastDay' = [lastDay EXCEPT ![q] = reportDay]
      /\ runsSince' = [p \in Reports |-> IF p = q THEN 0
                                     ELSE IF runsSince[p] < KeptRuns THEN runsSince[p] + 1
                                     ELSE KeptRuns]
      /\ enabled' = enabled /\ reportDay' = reportDay
  BY DEF ExecuteRun
<1>4. ReportTypeOK'
  <2>1. /\ lastDay' \in [Reports -> (-1)..LastReportDay]
        /\ runsSince' \in [Reports -> 0..KeptRuns]
    BY <1>1, <1>3
  <2>2. Len(runHistory') <= KeptRuns
    BY <1>1, <1>2
  <2> QED
    BY <1>1, <1>2, <1>3, <2>1, <2>2 DEF ReportTypeOK, SchedulerInv, Runs
<1> HIDE DEF run
<1>5. ASSUME NEW r \in Reports PROVE HistoryOf(r)'
  <2>0. HistoryOf(r) /\ lastDay[r] \in (-1)..LastReportDay /\ runsSince[r] \in 0..KeptRuns
    BY <1>1 DEF SchedulerInv
  <2>1. CASE r = q
    <3>1. lastDay'[r] = reportDay /\ runsSince'[r] = 0 /\ lastDay'[r] # -1
      BY <1>1, <1>3, <2>1
    <3>2. Len(runHistory') \in 1..KeptRuns
      BY <1>1, <1>2
    <3> QED
      BY <1>1, <1>2, <2>1, <3>1, <3>2 DEF HistoryOf
  <2>2. CASE r # q
    <3>1. /\ lastDay'[r] = lastDay[r]
          /\ runsSince'[r] = IF runsSince[r] < KeptRuns THEN runsSince[r] + 1 ELSE KeptRuns
      BY <1>1, <1>3, <2>2
    <3>2. CASE lastDay[r] = -1 \/ runsSince[r] = KeptRuns
      <4>1. \A i \in 1..Len(runHistory) : runHistory[i].report # r
        BY <2>0, <3>2 DEF HistoryOf
      <4>2. \A i \in 1..Len(runHistory') : runHistory'[i].report # r
        <5> SUFFICES ASSUME NEW i \in 1..Len(runHistory') PROVE runHistory'[i].report # r
          OBVIOUS
        <5>1. CASE i = Len(runHistory')
          BY <1>1, <1>2, <2>2, <5>1
        <5>2. CASE i # Len(runHistory')
          <6>1. i \in 1..(Len(runHistory') - 1) /\ i \in 1..Len(runHistory)
            BY <1>1, <1>2, <5>2
          <6>2. \/ runHistory'[i] = runHistory[i]
                \/ runHistory'[i] = runHistory[i + 1] /\ i + 1 \in 1..Len(runHistory)
            BY <1>1, <1>2, <6>1
          <6> QED
            BY <4>1, <6>1, <6>2
        <5> QED
          BY <5>1, <5>2
      <4> QED
        BY <1>1, <2>0, <3>1, <3>2, <4>2 DEF HistoryOf
    <3>3. CASE ~(lastDay[r] = -1 \/ runsSince[r] = KeptRuns)
      <4>1. PICK n \in Int : n = Len(runHistory) - runsSince[r]
        BY <1>1, <2>0
      <4>2. /\ n \in 1..Len(runHistory)
            /\ runHistory[n].report = r /\ runHistory[n].day = lastDay[r]
            /\ \A i \in (n + 1)..Len(runHistory) : runHistory[i].report # r
        BY <2>0, <3>3, <4>1 DEF HistoryOf
      <4>3. runsSince'[r] = runsSince[r] + 1 /\ runsSince[r] < KeptRuns
        BY <1>1, <2>0, <3>1, <3>3
      <4>4. CASE Len(runHistory) < KeptRuns
        <5>1. Len(runHistory') = Len(runHistory) + 1 /\ n = Len(runHistory') - runsSince'[r]
          BY <1>1, <1>2, <2>0, <4>1, <4>3, <4>4
        <5>2. \A i \in 1..Len(runHistory) : runHistory'[i] = runHistory[i]
          BY <1>1, <1>2, <4>4, <5>1
        <5>3. runsSince'[r] # KeptRuns
          BY <1>1, <4>1, <4>2, <4>3, <4>4, <2>0
        <5>4. \A i \in (n + 1)..Len(runHistory') : runHistory'[i].report # r
          <6> SUFFICES ASSUME NEW i \in (n + 1)..Len(runHistory') PROVE runHistory'[i].report # r
            OBVIOUS
          <6>1. CASE i = Len(runHistory')
            BY <1>1, <1>2, <2>2, <6>1
          <6>2. CASE i # Len(runHistory')
            <7>1. i \in (n + 1)..Len(runHistory) /\ i \in 1..Len(runHistory)
              BY <1>1, <4>2, <5>1, <6>2
            <7> QED
              BY <4>2, <5>2, <7>1
          <6> QED
            BY <6>1, <6>2
        <5>5. n \in 1..Len(runHistory') /\ runHistory'[n] = runHistory[n]
          BY <1>1, <4>2, <5>1, <5>2
        <5>6. ~(lastDay'[r] = -1 \/ runsSince'[r] = KeptRuns)
          BY <3>1, <3>3, <5>3
        <5>7. /\ runHistory'[n].report = r /\ runHistory'[n].day = lastDay'[r]
              /\ n = Len(runHistory') - runsSince'[r]
          BY <3>1, <4>2, <5>1, <5>5
        <5> QED
          BY <5>4, <5>5, <5>6, <5>7 DEF HistoryOf
      <4>5. CASE Len(runHistory) = KeptRuns
        <5>1. /\ Len(runHistory') = KeptRuns /\ n - 1 = Len(runHistory') - runsSince'[r]
              /\ \A i \in 1..(KeptRuns - 1) : runHistory'[i] = runHistory[i + 1]
          BY <1>1, <1>2, <2>0, <4>1, <4>3, <4>5
        <5>2. \A i \in n..KeptRuns : runHistory'[i].report # r
          <6> SUFFICES ASSUME NEW i \in n..KeptRuns PROVE runHistory'[i].report # r
            OBVIOUS
          <6>1. CASE i = KeptRuns
            BY <1>1, <1>2, <2>2, <5>1, <6>1
          <6>2. CASE i # KeptRuns
            <7>1. /\ i \in 1..(KeptRuns - 1) /\ i + 1 \in 1..Len(runHistory)
                  /\ i + 1 \in (n + 1)..Len(runHistory)
              BY <1>1, <4>2, <4>5, <6>2
            <7>2. runHistory'[i] = runHistory[i + 1]
              BY <5>1, <7>1
            <7> QED
              BY <4>2, <7>1, <7>2
          <6> QED
            BY <6>1, <6>2
        <5>3. CASE n = 1
          <6>1. runsSince'[r] = KeptRuns
            BY <1>1, <2>0, <4>1, <4>3, <4>5, <5>3
          <6> QED
            BY <5>1, <5>2, <5>3, <6>1 DEF HistoryOf
        <5>4. CASE n > 1
          <6>1. runsSince'[r] # KeptRuns /\ n - 1 \in 1..Len(runHistory')
            BY <1>1, <2>0, <4>1, <4>2, <4>3, <4>5, <5>1, <5>4
          <6>2. runHistory'[n - 1] = runHistory[n]
            <7>1. n - 1 \in 1..(KeptRuns - 1) /\ (n - 1) + 1 = n
              BY <1>1, <4>2, <4>5, <5>4
            <7> QED
              BY <5>1, <7>1
          <6>3. \A i \in ((n - 1) + 1)..Len(runHistory') : runHistory'[i].report # r
            BY <1>1, <5>1, <5>2
          <6> QED
            BY <3>1, <3>3, <4>2, <5>1, <6>1, <6>2, <6>3 DEF HistoryOf
        <5> QED
          BY <4>2, <5>3, <5>4
      <4> QED
        BY <1>1, <4>4, <4>5
    <3> QED
      BY <3>2, <3>3
  <2> QED
    BY <2>1, <2>2
<1> QED
  BY <1>4, <1>5 DEF SchedulerInv

(* So do the other operations, and a restart.                              *)
LEMMA SchedulerStep == SchedulerInv /\ [ReportNext]_reportVars => SchedulerInv'
<1> SUFFICES ASSUME SchedulerInv, [ReportNext]_reportVars PROVE SchedulerInv'
  OBVIOUS
<1>1. CASE UNCHANGED reportVars
  BY <1>1 DEF reportVars, SchedulerInv, ReportTypeOK, HistoryOf
<1>2. ASSUME NEW r \in Reports, CronRun(r) \/ ManualTrigger(r) PROVE SchedulerInv'
  BY <1>2, RunKeeps DEF CronRun, ManualTrigger
<1>3. ASSUME NEW r \in Reports, NEW on \in BOOLEAN, EnableReport(r, on) PROVE SchedulerInv'
  BY <1>3 DEF EnableReport, SchedulerInv, ReportTypeOK, HistoryOf
<1>4. CASE NextReportDay
  BY <1>4, SchedulerConstants DEF NextReportDay, SchedulerInv, ReportTypeOK, HistoryOf
<1>5. CASE RestartReporting
  BY <1>5, SchedulerConstants DEF RestartReporting, SchedulerInv, ReportTypeOK, HistoryOf
<1> QED
  BY <1>1, <1>2, <1>3, <1>4, <1>5 DEF ReportNext

(* The last remembered run of a report.                                    *)
LEMMA LastRememberedIs ==
  ASSUME SchedulerInv, NEW r \in Reports
  PROVE  IF lastDay[r] = -1 \/ runsSince[r] = KeptRuns
         THEN LastRemembered(r) = 0
         ELSE LastRemembered(r) # 0 /\ runHistory[LastRemembered(r)].day = lastDay[r]
<1> DEFINE I == {i \in 1..Len(runHistory) : runHistory[i].report = r}
<1>0. HistoryOf(r) /\ Len(runHistory) \in Nat /\ runsSince[r] \in 0..KeptRuns /\ KeptRuns \in Nat
  BY SchedulerConstants DEF SchedulerInv, ReportTypeOK
<1>1. LastRemembered(r) = IF I # {} THEN Max(I) ELSE 0
  BY Zenon DEF LastRemembered, SelectLastInSeq
<1>2. CASE lastDay[r] = -1 \/ runsSince[r] = KeptRuns
  <2>1. I = {}
    BY <1>0, <1>2 DEF HistoryOf
  <2> QED
    BY <1>1, <1>2, <2>1
<1>3. CASE ~(lastDay[r] = -1 \/ runsSince[r] = KeptRuns)
  <2>1. PICK n \in 1..Len(runHistory) :
          /\ runHistory[n].report = r /\ runHistory[n].day = lastDay[r]
          /\ \A i \in (n + 1)..Len(runHistory) : runHistory[i].report # r
    BY <1>0, <1>3 DEF HistoryOf
  <2>2. n \in I /\ \A i \in I : n >= i
    BY <1>0, <2>1
  <2>3. Max(I) = n
    BY <1>0, <2>2 DEF Max
  <2> QED
    BY <1>1, <1>3, <2>1, <2>2, <2>3
<1> QED
  BY <1>2, <1>3

(* A report that is late is listed; one that ran in time is listed only    *)
(* when as many runs as are kept, or a restart, came after it.             *)
THEOREM OverdueFollows == ReportSpec => [](ReportTypeOK /\ OverdueListed)
<1>1. ReportInit => SchedulerInv
  BY SchedulerConstants DEF ReportInit, SchedulerInv, ReportTypeOK, HistoryOf
<1>2. SchedulerInv => ReportTypeOK /\ OverdueListed
  <2> SUFFICES ASSUME SchedulerInv, NEW r \in Reports
               PROVE  /\ enabled[r] /\ TrulyOverdue(r) => r \in OverdueReports
                      /\ r \in OverdueReports => TrulyOverdue(r) \/ runsSince[r] >= KeptRuns
    BY DEF OverdueListed, SchedulerInv
  <2>1. runsSince[r] \in 0..KeptRuns /\ KeptRuns \in Nat
    BY SchedulerConstants DEF SchedulerInv, ReportTypeOK
  <2> QED
    BY <2>1, LastRememberedIs DEF TrulyOverdue, OverdueReports
<1> QED
  BY <1>1, <1>2, SchedulerStep, PTL DEF ReportSpec

-----------------------------------------------------------------------------
(* The capital reports.                                                    *)

(* Whatever the service could be asked, the inputs it is asked about and   *)
(* those the properties compare them with.                                 *)
AnyInput ==
  [cet1 : Components, at1 : Components, t2 : Components, book : Seq(CreditExposure),
   floored : BOOLEAN, market : MarketRisk, operational : OperationalRisk, exposure : Nat,
   buffer : Nat, tlac : TlacInput]

(* The assets of a credit book, by the standard and by the models.         *)
Standard(book) == IntegerSum([i \in DOMAIN book |-> SaRwa(book[i])])
Modelled(book) == IntegerSum([i \in DOMAIN book |-> ModelRwa(book[i])])

(* The other assets.                                                       *)
OtherRwa(in) == ComputeMarketRwa(in.market) + ComputeOperationalRwa(in.operational)

(* A product is not negative and grows with its factors.                   *)
LEMMA Times ==
  ASSUME NEW a \in Nat, NEW m \in Nat, NEW n \in Nat, m <= n
  PROVE  a * m \in Nat /\ a * n \in Nat /\ a * m <= a * n
<1>1. PICK d \in Nat : n = m + d
  <2>1. n - m \in Nat /\ n = m + (n - m)
    OBVIOUS
  <2> QED
    BY <2>1
<1>2. a * m \in Nat /\ a * d \in Nat /\ a * n \in Nat
  OBVIOUS
<1>3. a * n = a * m + a * d
  BY <1>1
<1> QED
  BY <1>2, <1>3

(* The weights and the assets of one exposure.                             *)
LEMMA ExposureTyped ==
  ASSUME NEW e \in CreditExposure
  PROVE  /\ RiskWeight[e.class] \in Nat /\ SaRwa(e) \in Nat /\ ModelRwa(e) \in Nat
         /\ SaRwa(e) = 40 * (RiskWeight[e.class] * e.amount)
         /\ RiskWeight[e.class] * e.amount \in Nat
<1>1. RiskWeight[e.class] \in Nat
  BY DEF CreditExposure, RiskWeight
<1>2. PICK w \in Nat, n \in Nat : w = RiskWeight[e.class] /\ n = e.amount
  BY <1>1 DEF CreditExposure
<1>3. w * n \in Nat /\ 40 * w * n = 40 * (w * n)
  OBVIOUS
<1>4. SaRwa(e) = 40 * (w * n)
  BY <1>2, <1>3 DEF SaRwa
<1>5. e.model \in Nat \/ e.model = NoModel
  BY DEF CreditExposure
<1>6. ModelRwa(e) \in Nat
  BY <1>3, <1>4, <1>5 DEF ModelRwa, NoModel
<1> QED
  BY <1>1, <1>2, <1>3, <1>4, <1>6

(* The sums over a book are the sums of these.                             *)
LEMMA StandardIs ==
  ASSUME NEW book \in Seq(CreditExposure)
  PROVE  OverBook(SaRwa, book) = Standard(book)
<1> DEFINE S == DOMAIN book
           f == [i \in S |-> SaRwa(book[i])]
           U(it) == it = [s \in SUBSET S |-> IF s = {} THEN 0
                            ELSE SaRwa(book[Chosen(s)]) + it[s \ {Chosen(s)}]]
           fold == CHOOSE it : U(it)
<1>1. OverBook(SaRwa, book) = fold[S]
  BY Zenon DEF OverBook, MapThenSumSet, MapThenFoldSet, Chosen
<1>2. ASSUME NEW it PROVE U(it) <=> Unfolds(it, f)
  <2>1. \A s \in SUBSET S : s # {} => Chosen(s) \in S
    BY DEF Chosen
  <2>2. \A s \in SUBSET S : s # {} => f[Chosen(s)] = SaRwa(book[Chosen(s)])
    <3> HIDE DEF S
    <3> QED
      BY <2>1
  <2>3. DOMAIN f = S
    OBVIOUS
  <2> HIDE DEF f, S
  <2> QED
    BY <2>2, <2>3 DEF Unfolds
<1>3. IsFiniteSet(S) /\ DOMAIN f = S
  <2>1. S = 1..Len(book) /\ 1 \in Int /\ Len(book) \in Int
    OBVIOUS
  <2>2. IsFiniteSet(1..Len(book))
    BY <2>1, FS_Interval
  <2> QED
    BY <2>1, <2>2
<1> HIDE DEF f, S
<1>4. U(fold)
  <2>1. \E it : U(it)
    BY <1>2, <1>3, Recursion
  <2> HIDE DEF U
  <2> QED
    BY <2>1
<1>5. Unfolds(fold, f)
  BY <1>2, <1>4
<1> HIDE DEF fold
<1>6. fold[S] = IntegerSum(f)
  BY <1>3, <1>5, FoldEndsInSum
<1> QED
  BY <1>1, <1>6 DEF Standard, f, S

(* The same of the models.                                                 *)
LEMMA ModelledIs ==
  ASSUME NEW book \in Seq(CreditExposure)
  PROVE  OverBook(ModelRwa, book) = Modelled(book)
<1> DEFINE S == DOMAIN book
           f == [i \in S |-> ModelRwa(book[i])]
           U(it) == it = [s \in SUBSET S |-> IF s = {} THEN 0
                            ELSE ModelRwa(book[Chosen(s)]) + it[s \ {Chosen(s)}]]
           fold == CHOOSE it : U(it)
<1>1. OverBook(ModelRwa, book) = fold[S]
  BY Zenon DEF OverBook, MapThenSumSet, MapThenFoldSet, Chosen
<1>2. ASSUME NEW it PROVE U(it) <=> Unfolds(it, f)
  <2>1. \A s \in SUBSET S : s # {} => Chosen(s) \in S
    BY DEF Chosen
  <2>2. \A s \in SUBSET S : s # {} => f[Chosen(s)] = ModelRwa(book[Chosen(s)])
    <3> HIDE DEF S
    <3> QED
      BY <2>1
  <2>3. DOMAIN f = S
    OBVIOUS
  <2> HIDE DEF f, S
  <2> QED
    BY <2>2, <2>3 DEF Unfolds
<1>3. IsFiniteSet(S) /\ DOMAIN f = S
  <2>1. S = 1..Len(book) /\ 1 \in Int /\ Len(book) \in Int
    OBVIOUS
  <2>2. IsFiniteSet(1..Len(book))
    BY <2>1, FS_Interval
  <2> QED
    BY <2>1, <2>2
<1> HIDE DEF f, S
<1>4. U(fold)
  <2>1. \E it : U(it)
    BY <1>2, <1>3, Recursion
  <2> HIDE DEF U
  <2> QED
    BY <2>1
<1>5. Unfolds(fold, f)
  BY <1>2, <1>4
<1> HIDE DEF fold
<1>6. fold[S] = IntegerSum(f)
  BY <1>3, <1>5, FoldEndsInSum
<1> QED
  BY <1>1, <1>6 DEF Modelled, f, S

(* A sum over a longer book.                                               *)
LEMMA SumAppended ==
  ASSUME NEW n \in Nat, NEW f \in [1..(n + 1) -> Nat], NEW g, DOMAIN g = 1..n,
         \A i \in 1..n : g[i] = f[i]
  PROVE  /\ IntegerSum(f) = f[n + 1] + IntegerSum(g)
         /\ IntegerSum(f) \in Nat /\ IntegerSum(g) \in Nat
<1>1. /\ DOMAIN f = 1..(n + 1) /\ n + 1 \in DOMAIN f /\ DOMAIN g = DOMAIN f \ {n + 1}
      /\ \A x \in DOMAIN f : f[x] \in Nat /\ f[x] \in Int
      /\ \A x \in DOMAIN g : g[x] = f[x] /\ g[x] \in Nat
  OBVIOUS
<1>2. IsFiniteSet(DOMAIN f) /\ IsFiniteSet(DOMAIN g)
  <2>1. 1 \in Int /\ n \in Int /\ n + 1 \in Int
    OBVIOUS
  <2> QED
    BY <1>1, <2>1, FS_Interval
<1>3. IntegerSum(f) = f[n + 1] + IntegerSum(g)
  BY <1>1, <1>2, SumWithout
<1> QED
  BY <1>1, <1>2, <1>3, SumOfNaturals

(* The assets of a book by the standard are a multiple of forty.           *)
LEMMA BookTyped ==
  ASSUME NEW book \in Seq(CreditExposure)
  PROVE  /\ Modelled(book) \in Nat
         /\ \E k \in Nat : Standard(book) = 40 * k
<1> DEFINE f == [i \in DOMAIN book |-> SaRwa(book[i])]
           h == [i \in DOMAIN book |-> ModelRwa(book[i])]
           g == [i \in DOMAIN book |-> RiskWeight[book[i].class] * book[i].amount]
<1>1. /\ \A i \in DOMAIN book : book[i] \in CreditExposure
      /\ DOMAIN book = 1..Len(book) /\ 1 \in Int /\ Len(book) \in Int
  OBVIOUS
<1>2. IsFiniteSet(DOMAIN book)
  <2>1. IsFiniteSet(1..Len(book))
    BY <1>1, FS_Interval
  <2> QED
    BY <1>1, <2>1
<1>3. /\ \A i \in DOMAIN book : f[i] = 40 * g[i] /\ g[i] \in Nat /\ h[i] \in Nat
      /\ DOMAIN f = DOMAIN book /\ DOMAIN g = DOMAIN book /\ DOMAIN h = DOMAIN book
  BY <1>1, ExposureTyped
<1>4. \A i \in DOMAIN g : g[i] \in Int /\ g[i] \in Nat /\ f[i] = 40 * g[i]
  BY <1>3
<1> HIDE DEF f, g, h
<1>5. IntegerSum(g) \in Nat /\ IntegerSum(h) \in Nat
  BY <1>2, <1>3, <1>4, SumOfNaturals
<1>6. IntegerSum(f) = 40 * IntegerSum(g)
  BY <1>2, <1>3, <1>4, SumScaled
<1> QED
  BY <1>5, <1>6 DEF Standard, Modelled, f, h

(* A further exposure adds its assets.                                     *)
LEMMA BookGrows ==
  ASSUME NEW book \in Seq(CreditExposure), NEW e \in CreditExposure
  PROVE  /\ Append(book, e) \in Seq(CreditExposure)
         /\ Standard(Append(book, e)) = Standard(book) + SaRwa(e)
         /\ Modelled(Append(book, e)) = Modelled(book) + ModelRwa(e)
<1>1. PICK n \in Nat : n = Len(book)
  OBVIOUS
<1>2. PICK more \in Seq(CreditExposure) : more = Append(book, e)
  <2>1. Append(book, e) \in Seq(CreditExposure)
    OBVIOUS
  <2> QED
    BY <2>1
<1>3. /\ DOMAIN book = 1..n /\ DOMAIN more = 1..(n + 1) /\ more[n + 1] = e
      /\ \A i \in 1..n : more[i] = book[i]
      /\ \A i \in 1..(n + 1) : more[i] \in CreditExposure
  BY <1>1, <1>2
<1> DEFINE f == [i \in DOMAIN more |-> SaRwa(more[i])]
           g == [i \in DOMAIN book |-> SaRwa(book[i])]
           mf == [i \in DOMAIN more |-> ModelRwa(more[i])]
           mg == [i \in DOMAIN book |-> ModelRwa(book[i])]
<1>4. /\ f \in [1..(n + 1) -> Nat] /\ DOMAIN g = 1..n /\ \A i \in 1..n : g[i] = f[i]
      /\ f[n + 1] = SaRwa(e)
  BY <1>3, ExposureTyped
<1>5. /\ mf \in [1..(n + 1) -> Nat] /\ DOMAIN mg = 1..n /\ \A i \in 1..n : mg[i] = mf[i]
      /\ mf[n + 1] = ModelRwa(e)
  BY <1>3, ExposureTyped
<1> HIDE DEF f, g, mf, mg
<1>6. IntegerSum(f) = SaRwa(e) + IntegerSum(g) /\ IntegerSum(g) \in Nat
  BY <1>4, SumAppended
<1>7. IntegerSum(mf) = ModelRwa(e) + IntegerSum(mg) /\ IntegerSum(mg) \in Nat
  BY <1>5, SumAppended
<1>8. SaRwa(e) \in Nat /\ ModelRwa(e) \in Nat
  BY ExposureTyped
<1>9. IntegerSum(f) = IntegerSum(g) + SaRwa(e) /\ IntegerSum(mf) = IntegerSum(mg) + ModelRwa(e)
  BY <1>6, <1>7, <1>8
<1> QED
  BY <1>2, <1>9 DEF Standard, Modelled, f, g, mf, mg

(* The other assets are a number.                                          *)
LEMMA OtherTyped ==
  ASSUME NEW in \in AnyInput
  PROVE  OtherRwa(in) \in Nat
<1>1. in.market \in MarketRisk /\ in.operational \in OperationalRisk
  BY DEF AnyInput
<1>2. ComputeMarketRwa(in.market) \in Nat
  BY <1>1 DEF MarketRisk, ComputeMarketRwa, NoModel
<1>3. ComputeOperationalRwa(in.operational) \in Nat
  <2>1. PICK b \in Nat, m \in Nat : b = in.operational.base /\ m = in.operational.multiplier
    BY <1>1 DEF OperationalRisk
  <2>2. PICK k \in Nat : k = IF m > 5 THEN 5 ELSE AtLeast(1, m)
    <3>1. (IF m > 5 THEN 5 ELSE AtLeast(1, m)) \in Nat
      BY DEF AtLeast
    <3> QED
      BY <3>1
  <2>3. 10000 * b * k \in Nat /\ 1500 * b \in Nat /\ 1200 * b \in Nat
    <3>1. 10000 * b \in Nat
      OBVIOUS
    <3> QED
      BY <3>1, Times
  <2>4. CASE in.operational.approach = "BIA"
    BY <2>1, <2>3, <2>4 DEF ComputeOperationalRwa
  <2>5. CASE in.operational.approach = "TSA"
    BY <2>1, <2>3, <2>5 DEF ComputeOperationalRwa
  <2>6. CASE in.operational.approach = "SMA"
    BY <2>1, <2>2, <2>3, <2>6 DEF ComputeOperationalRwa
  <2> QED
    BY <1>1, <2>4, <2>5, <2>6 DEF OperationalRisk
<1> QED
  BY <1>2, <1>3 DEF OtherRwa

(* Meeting a ratio: more capital or fewer assets never miss it.            *)
LEMMA CoversMore ==
  ASSUME NEW k \in Nat, NEW c \in Nat, NEW d \in Nat, NEW v \in Nat, NEW w \in Nat,
         c <= d, v <= w, Covers(c, k, w)
  PROVE  Covers(d, k, v)
<1>1. k * v \in Nat /\ k * w \in Nat /\ k * v <= k * w
  BY Times
<1>2. CASE w = 0
  BY <1>2 DEF Covers
<1>3. CASE w # 0
  <2>1. 800000 * c >= k * w
    BY <1>3 DEF Covers
  <2>2. 800000 * d >= k * v
    BY <1>1, <2>1
  <2> QED
    BY <2>2 DEF Covers
<1> QED
  BY <1>2, <1>3

(* What is left for the buffers, and what they ask for.                    *)
Left(c, w) == 800000 * c - 45 * w
BufferAsked(q, w) == (q - 45) * w

(* The bands, in the order they are reached.                               *)
LEMMA PayoutIs ==
  ASSUME NEW c \in Nat, NEW q \in Nat, NEW w \in Nat, q >= 45,
         NEW u \in Int, u = Left(c, w), NEW x \in Int, x = BufferAsked(q, w)
  PROVE  /\ x \in Nat
         /\ Covers(c, q, w) <=> w = 0 \/ u >= x
         /\ Payout(c, q, w) = IF w # 0 /\ u < 0 THEN 0 ELSE IF w = 0 \/ u >= x THEN 100
                              ELSE IF 4 * u < x THEN 0
                              ELSE IF 4 * u < 2 * x THEN 20 ELSE IF 4 * u < 3 * x THEN 40 ELSE 60
<1>1. PICK a \in Nat : a = q - 45
  OBVIOUS
<1>2. x \in Nat /\ x = a * w
  BY <1>1, Times DEF BufferAsked
<1>3. u = 800000 * c - 45 * w
  BY DEF Left
<1>4. (1 * a) * w = x /\ (2 * a) * w = 2 * x /\ (3 * a) * w = 3 * x /\ q * w = x + 45 * w
  <2>1. 1 * a = a
    OBVIOUS
  <2>2. (2 * a) * w = 2 * (a * w) /\ (3 * a) * w = 3 * (a * w)
    OBVIOUS
  <2>3. q = a + 45 /\ (a + 45) * w = a * w + 45 * w
    BY <1>1
  <2> QED
    BY <1>2, <2>1, <2>2, <2>3
<1>5. Covers(c, q, w) <=> w = 0 \/ u >= x
  BY <1>3, <1>4 DEF Covers
<1>6. Covers(c, 45, w) <=> w = 0 \/ u >= 0
  BY <1>3 DEF Covers
<1>7. w = 0 => x = 0 /\ u >= 0
  BY <1>2, <1>3
<1>8. \A quarter \in {1, 2, 3} :
        4 * (800000 * c - 45 * w) < quarter * (q - 45) * w <=> 4 * u < quarter * x
  BY <1>1, <1>3, <1>4
<1>9. 1 * x = x
  BY <1>2
<1>10. Payout(c, q, w) = IF w # 0 /\ u < 0 THEN 0 ELSE IF w = 0 \/ u >= x THEN 100
                        ELSE IF 4 * u < 1 * x THEN 0
                        ELSE IF 4 * u < 2 * x THEN 20 ELSE IF 4 * u < 3 * x THEN 40 ELSE 60
  <2>1. ~Covers(c, 45, w) <=> w # 0 /\ u < 0
    BY <1>3, <1>6
  <2> QED
    BY <1>5, <1>8, <2>1 DEF Payout
<1> QED
  BY <1>2, <1>3, <1>5, <1>9, <1>10

(* A payout is one of the five, and all of it when the requirement is met. *)
LEMMA PayoutTyped ==
  ASSUME NEW c \in Nat, NEW q \in Nat, NEW w \in Nat, q >= 45
  PROVE  /\ Payout(c, q, w) \in {0, 20, 40, 60, 100} /\ Payout(c, q, w) \in Nat
         /\ Payout(c, q, w) = 100 <=> Covers(c, q, w)
<1>1. PICK u \in Int, x \in Int : u = Left(c, w) /\ x = BufferAsked(q, w)
  <2>1. q - 45 \in Nat /\ Left(c, w) \in Int
    BY DEF Left
  <2> QED
    BY <2>1, Times DEF BufferAsked
<1>2. /\ x \in Nat /\ (Covers(c, q, w) <=> w = 0 \/ u >= x)
      /\ Payout(c, q, w) = IF w # 0 /\ u < 0 THEN 0 ELSE IF w = 0 \/ u >= x THEN 100
                           ELSE IF 4 * u < x THEN 0
                           ELSE IF 4 * u < 2 * x THEN 20 ELSE IF 4 * u < 3 * x THEN 40 ELSE 60
  BY <1>1, PayoutIs
<1> QED
  BY <1>2

(* More capital or fewer assets never lower the payout.                    *)
LEMMA PayoutRises ==
  ASSUME NEW q \in Nat, q >= 45, NEW c \in Nat, NEW d \in Nat, NEW v \in Nat, NEW w \in Nat,
         c <= d, v <= w
  PROVE  Payout(c, q, w) <= Payout(d, q, v)
<1>1. PICK u, x : u = Left(c, w) /\ x = BufferAsked(q, w)
  OBVIOUS
<1>2. PICK s, y : s = Left(d, v) /\ y = BufferAsked(q, v)
  OBVIOUS
<1>0. u \in Int /\ x \in Nat /\ s \in Int /\ y \in Nat
  <2>1. u \in Int /\ s \in Int /\ q - 45 \in Nat
    BY <1>1, <1>2 DEF Left
  <2> QED
    BY <1>1, <1>2, <2>1, Times DEF BufferAsked
<1>3. u <= s
  BY <1>1, <1>2 DEF Left
<1>4. y <= x
  <2>1. q - 45 \in Nat
    OBVIOUS
  <2> QED
    BY <1>1, <1>2, <2>1, Times DEF BufferAsked
<1>5. w = 0 => v = 0
  OBVIOUS
<1>6. Payout(c, q, w) = IF w # 0 /\ u < 0 THEN 0 ELSE IF w = 0 \/ u >= x THEN 100
                        ELSE IF 4 * u < x THEN 0
                        ELSE IF 4 * u < 2 * x THEN 20 ELSE IF 4 * u < 3 * x THEN 40 ELSE 60
  BY <1>0, <1>1, PayoutIs
<1>7. Payout(d, q, v) = IF v # 0 /\ s < 0 THEN 0 ELSE IF v = 0 \/ s >= y THEN 100
                        ELSE IF 4 * s < y THEN 0
                        ELSE IF 4 * s < 2 * y THEN 20 ELSE IF 4 * s < 3 * y THEN 40 ELSE 60
  BY <1>0, <1>2, PayoutIs
<1> QED
  BY <1>0, <1>3, <1>4, <1>5, <1>6, <1>7

(* Capital is a number, and more equity is no less.                        *)
LEMMA TierTyped ==
  ASSUME NEW t \in Components
  PROVE  Tier(t) \in Nat
BY DEF Components, Tier, AtLeast

(* What an input asks of CET1.                                             *)
Requirement(in) == 45 + 25 + in.buffer

(* The capital of an input, tier by tier.                                  *)
Cet1(in) == Tier(in.cet1)
Tier1(in) == Cet1(in) + Tier(in.at1)
TotalCapital(in) == Tier1(in) + Tier(in.t2)

(* Whether so much capital of an input is enough for so many assets.       *)
Enough(c, t, a, q, w, exposure) ==
  /\ Covers(c, q, w) /\ Covers(t, 60, w) /\ Covers(a, 80, w)
  /\ (exposure = 0 \/ 1000 * t >= 30 * exposure)

(* Whether so many instruments are enough for so many assets.              *)
TlacMet(t, w, exposure) ==
  /\ Covers(t.instruments, t.rwaRatio, w)
  /\ (exposure = 0 \/ 1000 * t.instruments >= t.leverageRatio * exposure)

(* The parts of an input.                                                  *)
LEMMA InputTyped ==
  ASSUME NEW in \in AnyInput
  PROVE  /\ Cet1(in) \in Nat /\ Tier1(in) \in Nat /\ TotalCapital(in) \in Nat
         /\ Requirement(in) \in Nat /\ Requirement(in) >= 45
         /\ in.exposure \in Nat /\ in.tlac \in TlacInput /\ in.book \in Seq(CreditExposure)
         /\ in.floored \in BOOLEAN
<1>1. /\ in.cet1 \in Components /\ in.at1 \in Components /\ in.t2 \in Components
      /\ in.buffer \in Nat
  BY DEF AnyInput
<1>2. Tier(in.cet1) \in Nat /\ Tier(in.at1) \in Nat /\ Tier(in.t2) \in Nat
  BY <1>1, TierTyped
<1>3. Cet1(in) \in Nat /\ Tier1(in) \in Nat /\ TotalCapital(in) \in Nat
  BY <1>2 DEF Cet1, Tier1, TotalCapital
<1>4. Requirement(in) \in Nat /\ Requirement(in) >= 45
  BY <1>1 DEF Requirement
<1>5. /\ in.exposure \in Nat /\ in.tlac \in TlacInput /\ in.book \in Seq(CreditExposure)
      /\ in.floored \in BOOLEAN
  BY DEF AnyInput
<1> QED
  BY <1>3, <1>4, <1>5

(* The verdicts of a report are about its own assets.                      *)
LEMMA VerdictsOn ==
  ASSUME NEW in, NEW w, NEW sa, NEW fl
  PROVE  /\ ReportOn(in, w, sa, fl).rwa = w
         /\ ReportOn(in, w, sa, fl).saRwa = sa
         /\ ReportOn(in, w, sa, fl).outputFloorApplied = fl
         /\ ReportOn(in, w, sa, fl).cet1Compliant = Covers(Cet1(in), Requirement(in), w)
         /\ ReportOn(in, w, sa, fl).overallCompliant
              = Enough(Cet1(in), Tier1(in), TotalCapital(in), Requirement(in), w, in.exposure)
         /\ ReportOn(in, w, sa, fl).payout = Payout(Cet1(in), Requirement(in), w)
         /\ ReportOn(in, w, sa, fl).tlacCompliant = TlacMet(in.tlac, w, in.exposure)
         /\ ReportOn(in, w, sa, fl).shortfall = TlacShortfall(in.tlac, w, in.exposure)
<1>1. /\ ReportOn(in, w, sa, fl).rwa = w /\ ReportOn(in, w, sa, fl).saRwa = sa
      /\ ReportOn(in, w, sa, fl).outputFloorApplied = fl
  BY DEF ReportOn
<1>2. ReportOn(in, w, sa, fl).cet1Compliant = Covers(Cet1(in), Requirement(in), w)
  BY Zenon DEF ReportOn, Cet1, Requirement
<1>3. ReportOn(in, w, sa, fl).overallCompliant
        = Enough(Cet1(in), Tier1(in), TotalCapital(in), Requirement(in), w, in.exposure)
  BY Zenon DEF ReportOn, Cet1, Tier1, TotalCapital, Requirement, Enough
<1>4. ReportOn(in, w, sa, fl).payout = Payout(Cet1(in), Requirement(in), w)
  BY Zenon DEF ReportOn, Cet1, Requirement
<1>5. ReportOn(in, w, sa, fl).tlacCompliant = TlacMet(in.tlac, w, in.exposure)
  BY Zenon DEF ReportOn, TlacMet
<1>6. ReportOn(in, w, sa, fl).shortfall = TlacShortfall(in.tlac, w, in.exposure)
  BY Zenon DEF ReportOn
<1> QED
  BY <1>1, <1>2, <1>3, <1>4, <1>5, <1>6

(* The credit assets of an input: the models', or no less than the floor.  *)
CreditRwa(in) ==
  IF in.floored THEN AtLeast(Floor(Standard(in.book)), Modelled(in.book)) ELSE Modelled(in.book)

(* The report of an input: the floor of the total never bites.             *)
LEMMA ReportIs ==
  ASSUME NEW in \in AnyInput
  PROVE  /\ CapitalReport(in) = ReportOn(in, CreditRwa(in) + OtherRwa(in),
                                          Standard(in.book) + OtherRwa(in), FALSE)
         /\ CreditRwa(in) \in Nat /\ OtherRwa(in) \in Nat
         /\ CreditRwa(in) >= Modelled(in.book)
         /\ in.floored => 40 * (CreditRwa(in) + OtherRwa(in))
                             >= 29 * (Standard(in.book) + OtherRwa(in))
         /\ Standard(in.book) \in Nat /\ Modelled(in.book) \in Nat
<1>1. in.book \in Seq(CreditExposure) /\ in.floored \in BOOLEAN
  BY DEF AnyInput
<1>2. PICK o \in Nat : o = OtherRwa(in)
  BY OtherTyped
<1>3. PICK k \in Nat : Standard(in.book) = 40 * k
  BY <1>1, BookTyped
<1>4. PICK m \in Nat : m = Modelled(in.book)
  BY <1>1, BookTyped
<1>5. Floor(Standard(in.book)) = 29 * k
  <2>1. 29 * (40 * k) = 40 * (29 * k)
    OBVIOUS
  <2> QED
    BY <1>3, <2>1 DEF Floor
<1>6. PICK c \in Nat : c = CreditRwa(in)
  <2>1. CreditRwa(in) \in Nat
    BY <1>4, <1>5 DEF CreditRwa, AtLeast
  <2> QED
    BY <2>1
<1>7. /\ in.floored => c >= 29 * k
      /\ c >= m
  BY <1>4, <1>5, <1>6 DEF CreditRwa, AtLeast
<1>8. ComputeCreditRwa(in.book, in.floored) = c
  BY <1>1, <1>6, StandardIs, ModelledIs, Zenon DEF ComputeCreditRwa, CreditRwa
<1>9. OverBook(SaRwa, in.book) = 40 * k
  BY <1>1, <1>3, StandardIs
<1>10. in.floored => ~(c + o < Floor(40 * k + o))
  <2> SUFFICES ASSUME in.floored PROVE ~(c + o < Floor(40 * k + o))
    OBVIOUS
  <2>1. PICK d \in Int : d = (29 * (40 * k + o)) \div 40
    OBVIOUS
  <2>2. 40 * d <= 29 * (40 * k + o)
    BY <2>1
  <2> QED
    BY <1>7, <2>1, <2>2 DEF Floor
<1>11. CapitalReport(in) = ReportOn(in, c + o, 40 * k + o, FALSE)
  <2>1. o = ComputeMarketRwa(in.market) + ComputeOperationalRwa(in.operational)
    BY <1>2 DEF OtherRwa
  <2>2. (in.floored /\ c + o < Floor(40 * k + o)) = FALSE
    BY <1>10, Zenon
  <2>3. CapitalReport(in) = ReportOn(in, IF FALSE THEN Floor(40 * k + o) ELSE c + o,
                                     40 * k + o, FALSE)
    BY <1>8, <1>9, <2>1, <2>2, Zenon DEF CapitalReport
  <2> QED
    BY <2>3, Zenon
<1>12. in.floored => 40 * (c + o) >= 29 * (40 * k + o)
  BY <1>7
<1>13. 40 * k \in Nat
  OBVIOUS
<1> QED
  BY <1>2, <1>3, <1>4, <1>6, <1>7, <1>11, <1>12, <1>13

(* What a report says of its assets.                                       *)
LEMMA AssetsAre ==
  ASSUME NEW in \in AnyInput
  PROVE  /\ CapitalReport(in).rwa = CreditRwa(in) + OtherRwa(in)
         /\ CapitalReport(in).saRwa = Standard(in.book) + OtherRwa(in)
<1>1. PICK fl : fl = FALSE
  OBVIOUS
<1>2. PICK w, sa : w = CreditRwa(in) + OtherRwa(in) /\ sa = Standard(in.book) + OtherRwa(in)
  OBVIOUS
<1>3. CapitalReport(in) = ReportOn(in, w, sa, fl)
  BY <1>1, <1>2, ReportIs, Zenon
<1>4. CapitalReport(in).rwa = w /\ CapitalReport(in).saRwa = sa
  BY <1>3 DEF ReportOn
<1> QED
  BY <1>2, <1>4, Zenon

(* The assets are numbers, never less than what the models say.            *)
LEMMA AssetsTyped ==
  ASSUME NEW in \in AnyInput
  PROVE  /\ CapitalReport(in).rwa \in Nat
         /\ CapitalReport(in).rwa >= Modelled(in.book) + OtherRwa(in)
<1>1. PICK c \in Nat, o \in Nat, m \in Nat :
        c = CreditRwa(in) /\ o = OtherRwa(in) /\ m = Modelled(in.book) /\ c >= m
  BY ReportIs, Zenon
<1>2. CapitalReport(in).rwa = c + o
  BY <1>1, AssetsAre, Zenon
<1> QED
  BY <1>1, <1>2

(* The verdicts of a report, in full.                                      *)
LEMMA VerdictsAre ==
  ASSUME NEW in \in AnyInput
  PROVE  /\ CapitalReport(in).cet1Compliant
              = Covers(Cet1(in), Requirement(in), CapitalReport(in).rwa)
         /\ CapitalReport(in).overallCompliant
              = Enough(Cet1(in), Tier1(in), TotalCapital(in), Requirement(in),
                       CapitalReport(in).rwa, in.exposure)
         /\ CapitalReport(in).payout = Payout(Cet1(in), Requirement(in), CapitalReport(in).rwa)
         /\ CapitalReport(in).tlacCompliant = TlacMet(in.tlac, CapitalReport(in).rwa, in.exposure)
         /\ CapitalReport(in).shortfall
              = TlacShortfall(in.tlac, CapitalReport(in).rwa, in.exposure)
<1>1. PICK w, sa, fl : CapitalReport(in) = ReportOn(in, w, sa, fl)
  BY ReportIs, Zenon
<1>2. CapitalReport(in).rwa = w
  BY <1>1, VerdictsOn
<1> QED
  BY <1>1, <1>2, VerdictsOn

(* No shortfall exactly when both ratios are met.                          *)
LEMMA ShortfallIs ==
  ASSUME NEW t \in TlacInput, NEW w \in Nat, NEW exposure \in Nat
  PROVE  /\ TlacShortfall(t, w, exposure) \in Nat
         /\ TlacShortfall(t, w, exposure) = 0 <=> TlacMet(t, w, exposure)
<1>1. PICK i \in Nat, a \in Nat, l \in Nat :
        i = t.instruments /\ a = t.rwaRatio /\ l = t.leverageRatio
  BY DEF TlacInput
<1>2. PICK x \in Nat, y \in Nat : x = a * w /\ y = l * exposure
  <2>1. a * w \in Nat /\ l * exposure \in Nat
    BY Times, SMT
  <2> QED
    BY <2>1, SMT
<1>3. l * 800 * exposure = 800 * y
  <2>1. l * 800 * exposure = 800 * (l * exposure)
    BY SMT
  <2> QED
    BY <1>2, <2>1, SMT
<1>4. TlacShortfall(t, w, exposure) = AtLeast(AtLeast(0, x - 800000 * i), 800 * y - 800000 * i)
  BY <1>1, <1>2, <1>3, SMT DEF TlacShortfall
<1>5. Covers(i, a, w) <=> 800000 * i >= x
  <2>1. w = 0 => x = 0
    BY <1>2, SMT
  <2> QED
    BY <1>2, <2>1, SMT DEF Covers
<1>6. (exposure = 0 \/ 1000 * i >= l * exposure) <=> 800000 * i >= 800 * y
  <2>1. exposure = 0 => y = 0
    BY <1>2, SMT
  <2> QED
    BY <1>2, <2>1, SMT
<1>7. TlacMet(t, w, exposure) <=> 800000 * i >= x /\ 800000 * i >= 800 * y
  BY <1>1, <1>5, <1>6, SMT DEF TlacMet
<1> QED
  BY <1>4, <1>7, SMT DEF AtLeast

(* One report is more lenient than another: more capital, or fewer assets. *)
LEMMA Lenient ==
  ASSUME NEW in \in AnyInput, NEW by \in AnyInput,
         Cet1(in) <= Cet1(by), Tier1(in) <= Tier1(by), TotalCapital(in) <= TotalCapital(by),
         Requirement(by) = Requirement(in), by.exposure = in.exposure,
         CapitalReport(by).rwa <= CapitalReport(in).rwa
  PROVE  /\ CapitalReport(by).payout >= CapitalReport(in).payout
         /\ CapitalReport(in).overallCompliant => CapitalReport(by).overallCompliant
<1>1. PICK w \in Nat, v \in Nat : w = CapitalReport(in).rwa /\ v = CapitalReport(by).rwa /\ v <= w
  BY AssetsTyped
<1>2. PICK c \in Nat, t \in Nat, a \in Nat, q \in Nat, e \in Nat :
        /\ c = Cet1(in) /\ t = Tier1(in) /\ a = TotalCapital(in) /\ q = Requirement(in) /\ q >= 45
        /\ e = in.exposure
  BY InputTyped
<1>3. PICK d \in Nat, u \in Nat, b \in Nat :
        d = Cet1(by) /\ u = Tier1(by) /\ b = TotalCapital(by) /\ c <= d /\ t <= u /\ a <= b
  BY <1>2, InputTyped
<1>4. Payout(c, q, w) <= Payout(d, q, v)
  BY <1>1, <1>2, <1>3, PayoutRises
<1>5. CapitalReport(in).payout = Payout(c, q, w) /\ CapitalReport(by).payout = Payout(d, q, v)
  BY <1>1, <1>2, <1>3, VerdictsAre
<1>6. Payout(c, q, w) \in Nat /\ Payout(d, q, v) \in Nat
  BY <1>1, <1>2, <1>3, PayoutTyped
<1>7. Enough(c, t, a, q, w, e) => Enough(d, u, b, q, v, e)
  <2> SUFFICES ASSUME Enough(c, t, a, q, w, e) PROVE Enough(d, u, b, q, v, e)
    OBVIOUS
  <2>1. /\ Covers(c, q, w) /\ Covers(t, 60, w) /\ Covers(a, 80, w)
        /\ (e = 0 \/ 1000 * t >= 30 * e)
    BY DEF Enough
  <2>2. Covers(d, q, v)
    BY <1>1, <1>2, <1>3, <2>1, CoversMore
  <2>3. Covers(u, 60, v)
    <3>1. 60 \in Nat
      OBVIOUS
    <3> QED
      BY <1>1, <1>2, <1>3, <2>1, <3>1, CoversMore
  <2>4. Covers(b, 80, v)
    <3>1. 80 \in Nat
      OBVIOUS
    <3> QED
      BY <1>1, <1>2, <1>3, <2>1, <3>1, CoversMore
  <2>5. e = 0 \/ 1000 * u >= 30 * e
    BY <1>2, <1>3, <2>1
  <2> QED
    BY <2>2, <2>3, <2>4, <2>5 DEF Enough
<1>8. /\ CapitalReport(in).overallCompliant = Enough(c, t, a, q, w, e)
      /\ CapitalReport(by).overallCompliant = Enough(d, u, b, q, v, e)
  BY <1>1, <1>2, <1>3, VerdictsAre
<1> QED
  BY <1>4, <1>5, <1>6, <1>7, <1>8

(* With more equity.                                                       *)
LEMMA MoreEquity ==
  ASSUME NEW in \in AnyInput, NEW more, more = [in EXCEPT !.cet1.gross = @ + 1]
  PROVE  /\ CapitalReport(more).payout >= CapitalReport(in).payout
         /\ CapitalReport(in).overallCompliant => CapitalReport(more).overallCompliant
<1>1. PICK t \in Components : t = in.cet1
  BY DEF AnyInput
<1>2. PICK s : s = [t EXCEPT !.gross = t.gross + 1]
  OBVIOUS
<1>3. s \in Components /\ s.gross = t.gross + 1 /\ s.deductions = t.deductions
  BY <1>2 DEF Components
<1>4. more = [in EXCEPT !.cet1 = s]
  BY <1>1, <1>2
<1>5. /\ more \in AnyInput /\ more.cet1 = s /\ more.at1 = in.at1 /\ more.t2 = in.t2
      /\ more.book = in.book /\ more.floored = in.floored /\ more.market = in.market
      /\ more.operational = in.operational /\ more.exposure = in.exposure
      /\ more.buffer = in.buffer
  BY <1>3, <1>4 DEF AnyInput
<1>6. Tier(t) <= Tier(s)
  BY <1>3 DEF Components, Tier, AtLeast
<1>7. /\ Tier(t) \in Nat /\ Tier(s) \in Nat /\ Tier(in.at1) \in Nat /\ Tier(in.t2) \in Nat
  BY <1>3, TierTyped DEF AnyInput
<1>8. /\ Cet1(in) <= Cet1(more) /\ Tier1(in) <= Tier1(more)
      /\ TotalCapital(in) <= TotalCapital(more)
      /\ Requirement(more) = Requirement(in)
  BY <1>1, <1>5, <1>6, <1>7 DEF Cet1, Tier1, TotalCapital, Requirement
<1>9. CapitalReport(more).rwa = CapitalReport(in).rwa /\ CapitalReport(in).rwa \in Nat
  <2>1. CreditRwa(more) = CreditRwa(in) /\ OtherRwa(more) = OtherRwa(in)
    BY <1>5 DEF CreditRwa, OtherRwa
  <2> QED
    BY <1>5, <2>1, AssetsAre, AssetsTyped, Zenon
<1>10. CapitalReport(more).rwa <= CapitalReport(in).rwa /\ more.exposure = in.exposure
  BY <1>5, <1>9
<1> QED
  BY <1>5, <1>8, <1>10, Lenient, Zenon

(* With a further exposure.                                                *)
LEMMA MoreExposure ==
  ASSUME NEW in \in AnyInput, NEW e \in CreditExposure,
         NEW by, by = [in EXCEPT !.book = Append(@, e)]
  PROVE  /\ CapitalReport(by).payout <= CapitalReport(in).payout
         /\ CapitalReport(by).overallCompliant => CapitalReport(in).overallCompliant
<1>1. PICK b \in Seq(CreditExposure) : b = in.book
  BY DEF AnyInput
<1>2. PICK g \in Seq(CreditExposure) : g = Append(b, e)
  <2>1. Append(b, e) \in Seq(CreditExposure)
    BY BookGrows
  <2> QED
    BY <2>1
<1>3. by = [in EXCEPT !.book = g]
  BY <1>1, <1>2
<1>4. /\ by \in AnyInput /\ by.cet1 = in.cet1 /\ by.at1 = in.at1 /\ by.t2 = in.t2
      /\ by.book = g /\ by.floored = in.floored /\ by.market = in.market
      /\ by.operational = in.operational /\ by.exposure = in.exposure
      /\ by.buffer = in.buffer
  BY <1>3 DEF AnyInput
<1>5. /\ Cet1(by) = Cet1(in) /\ Tier1(by) = Tier1(in) /\ TotalCapital(by) = TotalCapital(in)
      /\ Requirement(by) = Requirement(in) /\ OtherRwa(by) = OtherRwa(in)
  BY <1>4 DEF Cet1, Tier1, TotalCapital, Requirement, OtherRwa
<1>6. CreditRwa(in) <= CreditRwa(by)
  <2>1. /\ Standard(g) = Standard(b) + SaRwa(e) /\ Modelled(g) = Modelled(b) + ModelRwa(e)
        /\ SaRwa(e) \in Nat /\ ModelRwa(e) \in Nat
    BY <1>2, BookGrows, ExposureTyped
  <2>2. PICK k \in Nat, n \in Nat : Standard(b) = 40 * k /\ Standard(g) = 40 * n
    BY BookTyped
  <2>3. k <= n
    BY <2>1, <2>2
  <2>4. Floor(Standard(b)) = 29 * k /\ Floor(Standard(g)) = 29 * n
    <3>1. 29 * (40 * k) = 40 * (29 * k) /\ 29 * (40 * n) = 40 * (29 * n)
      OBVIOUS
    <3> QED
      BY <2>2, <3>1 DEF Floor
  <2>5. PICK m \in Nat, l \in Nat : m = Modelled(b) /\ l = Modelled(g) /\ m <= l
    BY <2>1, BookTyped
  <2>6. CASE in.floored
    <3>1. CreditRwa(in) = AtLeast(29 * k, m) /\ CreditRwa(by) = AtLeast(29 * n, l)
      BY <1>1, <1>4, <2>4, <2>5, <2>6, Zenon DEF CreditRwa
    <3> QED
      BY <2>2, <2>3, <2>5, <3>1 DEF AtLeast
  <2>7. CASE ~in.floored
    <3>1. CreditRwa(in) = m /\ CreditRwa(by) = l
      BY <1>1, <1>4, <2>5, <2>7, Zenon DEF CreditRwa
    <3> QED
      BY <2>5, <3>1
  <2> QED
    BY <2>6, <2>7
<1>7. CapitalReport(in).rwa <= CapitalReport(by).rwa
  <2>1. /\ CapitalReport(in).rwa = CreditRwa(in) + OtherRwa(in)
        /\ CapitalReport(by).rwa = CreditRwa(by) + OtherRwa(by)
        /\ CreditRwa(in) \in Nat /\ CreditRwa(by) \in Nat /\ OtherRwa(in) \in Nat
    BY <1>4, AssetsAre, ReportIs, Zenon
  <2> QED
    BY <1>5, <1>6, <2>1
<1>8. /\ Cet1(by) <= Cet1(in) /\ Tier1(by) <= Tier1(in) /\ TotalCapital(by) <= TotalCapital(in)
      /\ Requirement(in) = Requirement(by) /\ in.exposure = by.exposure
  BY <1>4, <1>5, InputTyped
<1>9. /\ CapitalReport(in).payout >= CapitalReport(by).payout
      /\ CapitalReport(by).overallCompliant => CapitalReport(in).overallCompliant
  BY <1>4, <1>7, <1>8, Lenient
<1>10. CapitalReport(in).payout \in Nat /\ CapitalReport(by).payout \in Nat
  <2>1. \A x \in AnyInput : CapitalReport(x).payout \in Nat
    <3> SUFFICES ASSUME NEW x \in AnyInput PROVE CapitalReport(x).payout \in Nat
      OBVIOUS
    <3>1. PICK c \in Nat, q \in Nat, w \in Nat :
            c = Cet1(x) /\ q = Requirement(x) /\ q >= 45 /\ w = CapitalReport(x).rwa
      BY AssetsTyped, InputTyped
    <3>2. CapitalReport(x).payout = Payout(c, q, w)
      BY <3>1, VerdictsAre
    <3> QED
      BY <3>1, <3>2, PayoutTyped
  <2> QED
    BY <1>4, <2>1
<1> QED
  BY <1>9, <1>10

(* Without the floor the assets are those of the models.                   *)
LEMMA WithoutFloor ==
  ASSUME NEW in \in AnyInput, NEW un, un = [in EXCEPT !.floored = FALSE]
  PROVE  CapitalReport(in).rwa >= CapitalReport(un).rwa
<1>1. /\ un \in AnyInput /\ un.book = in.book /\ un.floored = FALSE
      /\ un.market = in.market /\ un.operational = in.operational
  BY DEF AnyInput
<1>2. CapitalReport(un).rwa = CreditRwa(un) + OtherRwa(un)
  BY <1>1, AssetsAre
<1>3. CreditRwa(un) = Modelled(in.book) /\ OtherRwa(un) = OtherRwa(in)
  BY <1>1 DEF CreditRwa, OtherRwa
<1> QED
  BY <1>2, <1>3, AssetsTyped

(* The report that is shown is one about an input.                         *)
ReportedOn ==
  capitalReport # NoReport =>
    \E in \in CapitalInputs : capitalReport = [input |-> in, report |-> CapitalReport(in)]

(* A report keeps its floor, agrees with itself and rewards capital.       *)
THEOREM CapitalRewarded ==
  CapitalSpec => [](CapitalTypeOK /\ FloorHolds /\ ReportAgrees /\ CapitalHelps)
<1>1. CapitalInit => ReportedOn
  BY DEF CapitalInit, ReportedOn
<1>2. ReportedOn /\ [CapitalNext]_capitalReport => ReportedOn'
  BY DEF ReportedOn, CapitalNext, GenerateCapitalAdequacyReport
<1>3. CapitalInputs \subseteq AnyInput
  BY CapitalConstants DEF CapitalInputs, AnyInput
<1>4. ReportedOn => CapitalTypeOK /\ FloorHolds /\ ReportAgrees /\ CapitalHelps
  <2> SUFFICES ASSUME ReportedOn, capitalReport # NoReport
               PROVE  CapitalTypeOK /\ FloorHolds /\ ReportAgrees /\ CapitalHelps
    BY Zenon DEF CapitalTypeOK, FloorHolds, ReportAgrees, CapitalHelps
  <2>1. PICK in \in AnyInput : capitalReport = [input |-> in, report |-> CapitalReport(in)]
    BY <1>3 DEF ReportedOn
  <2>2. capitalReport.input = in /\ capitalReport.report = CapitalReport(in)
    BY <2>1
  <2>3. PICK w \in Nat, c \in Nat, q \in Nat, t \in TlacInput, e \in Nat :
          /\ w = CapitalReport(in).rwa /\ c = Cet1(in) /\ q = Requirement(in) /\ q >= 45
          /\ t = in.tlac /\ e = in.exposure
    BY AssetsTyped, InputTyped
  <2>4. /\ Payout(c, q, w) \in {0, 20, 40, 60, 100}
        /\ Payout(c, q, w) = 100 <=> Covers(c, q, w)
    <3>1. c \in Nat /\ q \in Nat /\ w \in Nat /\ q >= 45
      BY <2>3
    <3> QED
      BY <3>1, PayoutTyped
  <2>5. /\ TlacShortfall(t, w, e) \in Nat
        /\ TlacShortfall(t, w, e) = 0 <=> TlacMet(t, w, e)
    BY <2>3, ShortfallIs, Zenon
  <2>6. /\ CapitalReport(in).payout = Payout(c, q, w)
        /\ CapitalReport(in).shortfall = TlacShortfall(t, w, e)
    BY <2>3, VerdictsAre
  <2>7. /\ CapitalReport(in).cet1Compliant = Covers(c, q, w)
        /\ CapitalReport(in).tlacCompliant = TlacMet(t, w, e)
    BY <2>3, VerdictsAre, Zenon
  <2>8. CapitalReport(in).payout \in {0, 20, 40, 60, 100}
    BY <2>6, <2>4, Zenon
  <2>9. CapitalReport(in).shortfall \in Nat
    BY <2>6, <2>5, Zenon
  <2>10. CapitalTypeOK
    BY <2>2, <2>3, <2>8, <2>9 DEF CapitalTypeOK
  <2>11. FloorHolds
    <3>1. CapitalReport(in).rwa >= CapitalReport([in EXCEPT !.floored = FALSE]).rwa
      BY WithoutFloor, SMT
    <3>2. in.floored => 40 * CapitalReport(in).rwa >= 29 * CapitalReport(in).saRwa
      BY AssetsAre, ReportIs, Zenon
    <3> QED
      BY <2>2, <3>1, <3>2, Zenon DEF FloorHolds
  <2>12. ReportAgrees
    <3>1. CapitalReport(in).payout = 100 <=> CapitalReport(in).cet1Compliant
      <4>1. CapitalReport(in).payout = 100 <=> Covers(c, q, w)
        BY <2>6, <2>4, Zenon
      <4> QED
        BY <2>7, <4>1, Zenon
    <3>2. CapitalReport(in).shortfall = 0 <=> CapitalReport(in).tlacCompliant
      <4>1. CapitalReport(in).shortfall = 0 <=> TlacMet(t, w, e)
        BY <2>6, <2>5, Zenon
      <4> QED
        BY <2>7, <4>1, Zenon
    <3> QED
      BY <2>2, <3>1, <3>2, Zenon DEF ReportAgrees
  <2>13. CapitalHelps
    <3>1. \A b \in CreditBooks : \A i \in DOMAIN b : b[i] \in CreditExposure
      BY CapitalConstants
    <3>2. /\ CapitalReport([in EXCEPT !.cet1.gross = @ + 1]).payout >= CapitalReport(in).payout
          /\ CapitalReport(in).overallCompliant
               => CapitalReport([in EXCEPT !.cet1.gross = @ + 1]).overallCompliant
      BY MoreEquity
    <3>3. \A x \in CreditExposure :
            /\ CapitalReport([in EXCEPT !.book = Append(@, x)]).payout <= CapitalReport(in).payout
            /\ CapitalReport([in EXCEPT !.book = Append(@, x)]).overallCompliant
                 => CapitalReport(in).overallCompliant
      BY MoreExposure
    <3> QED
      BY <2>2, <3>1, <3>2, <3>3, Zenon DEF CapitalHelps
  <2> QED
    BY <2>10, <2>11, <2>12, <2>13
<1> QED
  BY <1>1, <1>2, <1>4, PTL DEF CapitalSpec
=============================================================================
