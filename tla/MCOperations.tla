--------------------------- MODULE MCOperations ---------------------------
(***************************************************************************)
(* What is operated from the console (batches, releases, reserved jobs)    *)
(* and three of the services whose jobs it lists: the reports of the       *)
(* brokers, the owners of a company, the companies of the US.  They share  *)
(* nothing but the screen, so a run works one bench at a time and the      *)
(* others stay as they began.                                              *)
(***************************************************************************)
EXTENDS BatchConsole, ReleaseControl, LaunchSchedule, Reports, Ownership, UsCompanies, TLC

VARIABLE bench

operatedVars == <<batchVars, releaseVars, scheduleVars>>
serviceVars == <<reportVars, ownershipVars, usVars>>

\* The answers of DART that a page of owners asks for.
Asked == <<"changes", "bonds">>

\* A bench that is not worked begins in one way.
FirstReports == files = {KeyOf(Entry(p, 0)) : p \in Legacy}
FirstOwners == quota /\ mapped
FirstUs == figures = [t \in Tickers |-> NoFigures]

Init ==
  /\ bench \in {"batches", "release", "schedule", "reports", "texts", "owners", "us"}
  /\ BatchInit /\ ReleaseInit /\ ScheduleInit
  /\ ReportInit /\ (bench = "texts" \/ FirstReports)
  /\ OwnershipInit /\ (bench = "owners" \/ FirstOwners)
  /\ UsInit /\ (bench = "us" \/ FirstUs)

Batches == bench = "batches" /\ BatchNext /\ UNCHANGED <<bench, releaseVars, scheduleVars, serviceVars>>
Releases == bench = "release" /\ ReleaseNext /\ UNCHANGED <<bench, batchVars, scheduleVars, serviceVars>>
Schedules == bench = "schedule" /\ ScheduleNext /\ UNCHANGED <<bench, batchVars, releaseVars, serviceVars>>
Collects == bench = "reports" /\ CollectNext /\ UNCHANGED <<bench, operatedVars, ownershipVars, usVars>>
Fills == bench = "texts" /\ FillNext /\ UNCHANGED <<bench, operatedVars, ownershipVars, usVars>>
Owners == bench = "owners" /\ OwnershipNext /\ UNCHANGED <<bench, operatedVars, reportVars, usVars>>
UsFigures == bench = "us" /\ UsNext /\ UNCHANGED <<bench, operatedVars, reportVars, ownershipVars>>

Next == Batches \/ Releases \/ Schedules \/ Collects \/ Fills \/ Owners \/ UsFigures

Spec == Init /\ [][Next]_<<bench, operatedVars, serviceVars>>

Alike == Permutations(Tuis) \union Permutations(Keys) \union Permutations(Threads) \union Permutations(Pages)
=============================================================================
