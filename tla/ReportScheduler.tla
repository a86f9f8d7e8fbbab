--------------------------- MODULE ReportScheduler ---------------------------
(***************************************************************************)
(* ReportSchedulerService of regulatory reporting: the runs of the         *)
(* scheduled reports, of which only the last ones are remembered, and the  *)
(* list of overdue reports computed from them.  A run completes in the     *)
(* turn that starts it.  Days before the first one count as long ago.      *)
(***************************************************************************)
EXTENDS Integers, Sequences, SequencesExt

CONSTANTS
  Reports,
  CronReports,   \* those a cron handler runs; the others only run by hand
  MaxGap,        \* frequencyToMaxGapMs of each, in days
  KeptRuns,      \* the 500 of executeScheduledRun
  LastReportDay

ASSUME SchedulerConstants ==
  /\ CronReports \subseteq Reports /\ MaxGap \in [Reports -> Nat \ {0}]
  /\ KeptRuns \in Nat \ {0} /\ LastReportDay \in Nat

VARIABLES
  runHistory,   \* the remembered runs, oldest first: [report, day]
  enabled,
  reportDay,
  lastDay,      \* history: the day each report really ran last, NotYet
  runsSince     \* history: runs of any report since then; a restart counts as KeptRuns

reportVars == <<runHistory, enabled, reportDay, lastDay, runsSince>>

ReportInit ==
  /\ runHistory = <<>> /\ reportDay = 0
  /\ enabled = [r \in Reports |-> TRUE]
  /\ lastDay = [r \in Reports |-> -1]
  /\ runsSince = [r \in Reports |-> 0]

(* Mutant: the first runs are kept.                                        *)
KeepFirst(runs) == IF Len(runs) > KeptRuns THEN SubSeq(runs, 1, KeptRuns) ELSE runs

(* Mutant: every run is kept.                                              *)
KeepAll(runs) == runs

(* slice(-500).                                                            *)
Keep(runs) ==
  IF Len(runs) > KeptRuns THEN SubSeq(runs, Len(runs) - KeptRuns + 1, Len(runs)) ELSE runs

ExecuteRun(r) ==
  /\ runHistory' = Keep(Append(runHistory, [report |-> r, day |-> reportDay]))
  /\ lastDay' = [lastDay EXCEPT ![r] = reportDay]
  /\ runsSince' = [q \in Reports |-> IF q = r THEN 0
                                     ELSE IF runsSince[q] < KeptRuns THEN runsSince[q] + 1
                                     ELSE KeptRuns]
  /\ UNCHANGED <<enabled, reportDay>>

(* The handlers look at no enabled flag.                                   *)
CronRun(r) == r \in CronReports /\ ExecuteRun(r)

ManualTrigger(r) == ExecuteRun(r)

EnableReport(r, on) ==
  /\ enabled' = [enabled EXCEPT ![r] = on]
  /\ UNCHANGED <<runHistory, reportDay, lastDay, runsSince>>

NextReportDay ==
  /\ reportDay < LastReportDay
  /\ reportDay' = reportDay + 1
  /\ UNCHANGED <<runHistory, enabled, lastDay, runsSince>>

(* The history is in memory only.                                          *)
RestartReporting ==
  /\ runHistory' = <<>>
  /\ runsSince' = [r \in Reports |-> KeptRuns]
  /\ UNCHANGED <<enabled, reportDay, lastDay>>

ReportNext ==
  \/ \E r \in Reports :
       CronRun(r) \/ ManualTrigger(r) \/ \E on \in BOOLEAN : EnableReport(r, on)
  \/ NextReportDay
  \/ RestartReporting

ReportSpec == ReportInit /\ [][ReportNext]_reportVars

-----------------------------------------------------------------------------
LastRemembered(r) == SelectLastInSeq(runHistory, LAMBDA run : run.report = r)

(* getOverdueReports: the enabled reports with no remembered run, or none  *)
(* within their gap.                                                       *)
OverdueReports ==
  {r \in Reports :
     /\ enabled[r]
     /\ \/ LastRemembered(r) = 0
        \/ reportDay - runHistory[LastRemembered(r)].day > MaxGap[r]}

(* The scheduler holds what its TypeScript type says.                      *)
ReportTypeOK ==
  /\ runHistory \in Seq([report : Reports, day : 0..LastReportDay])
  /\ Len(runHistory) <= KeptRuns
  /\ enabled \in [Reports -> BOOLEAN] /\ reportDay \in 0..LastReportDay
  /\ lastDay \in [Reports -> (-1)..LastReportDay]
  /\ runsSince \in [Reports -> 0..KeptRuns]

TrulyOverdue(r) == lastDay[r] = -1 \/ reportDay - lastDay[r] > MaxGap[r]

(* Every enabled report that is late is listed; one that ran in time is    *)
(* listed only if as many runs as the scheduler remembers came after it,   *)
(* or a restart.  (The real schedule makes about 520 runs a year and keeps *)
(* 500, so the yearly reports are listed as never run at the year's end.)  *)
OverdueListed ==
  \A r \in Reports :
    /\ enabled[r] /\ TrulyOverdue(r) => r \in OverdueReports
    /\ r \in OverdueReports => TrulyOverdue(r) \/ runsSince[r] >= KeptRuns
=============================================================================
