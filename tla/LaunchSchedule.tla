-------------------------- MODULE LaunchSchedule --------------------------
(***************************************************************************)
(* The reserved Telegram jobs of launchd as consoles edit them             *)
(* (services/schedule_control.py, the schedule tab of tui.py).  A job is a *)
(* plist in the folder launchd loads at login or in the folder next to it, *)
(* and perhaps a loaded service.  An edit runs launchctl and moves files   *)
(* step by step, from a table that was read some time before.  launchctl   *)
(* may fail: the code looks at what bootstrap returns and not at what      *)
(* bootout returns, and a call that takes too long ends the console.       *)
(***************************************************************************)
EXTENDS Naturals

CONSTANTS Editors,  \* consoles
          Jobs,     \* label suffixes
          Times,    \* times of day
          Default,  \* the time install.sh writes
          NoTime

ASSUME ScheduleAssumption == Default \in Times /\ NoTime \notin Times

VARIABLES active,    \* job: the time in the plist of the folder that is loaded at login, or NoTime
          parked,    \* job: the time in the plist of the folder for jobs that are off, or NoTime
          loaded,    \* job: the time launchd runs it at, or NoTime
          table,     \* console: the jobs as the list its actions take them from has them
          edit,      \* console: where its edit is, the job it is of, and the time to be set, or NoTime
          told,      \* history, job: what the operator was told of the last operation on it
          clung      \* history: the jobs whose last bootout left the service loaded

agentVars == <<active, parked, loaded>>
scheduleVars == <<agentVars, table, edit, told, clung>>

NoJobs == [j \in {} |-> 0]
NoEdit == [at |-> "idle", job |-> CHOOSE j \in Jobs : TRUE, time |-> NoTime]

ScheduleInit ==
  /\ active = [j \in Jobs |-> Default]
  /\ parked = [j \in Jobs |-> NoTime]
  /\ loaded = [j \in Jobs |-> Default]
  /\ table = [t \in Editors |-> NoJobs]
  /\ edit = [t \in Editors |-> NoEdit]
  /\ told = [j \in Jobs |-> "done"]
  /\ clung = {}

\* jobs(): every plist, of the two of a job the active one.
JobList == [j \in {i \in Jobs : active[i] # NoTime \/ parked[i] # NoTime} |->
             [time |-> IF active[j] # NoTime THEN active[j] ELSE parked[j],
              enabled |-> active[j] # NoTime,
              loaded |-> active[j] # NoTime /\ loaded[j] # NoTime]]

Editing(t) == edit[t].at # "idle"
Doing(t, step) == edit[t].at = step
Go(t, step) == edit' = [edit EXCEPT ![t].at = step]

\* A toggle alone ends with reading the table; in the dialog the time is set after it.
AfterToggle(t) == IF edit[t].time = NoTime THEN "read" ELSE "write"

Tell(j, what) == told' = [told EXCEPT ![j] = what]

(***************************************************************************)
(* launchctl.                                                              *)
(***************************************************************************)

\* bootout: unloads the service, or fails and leaves it; nobody looks at which.
Unload(j) ==
  \/ loaded' = [loaded EXCEPT ![j] = NoTime] /\ clung' = clung \ {j}
  \/ loaded[j] # NoTime /\ clung' = clung \cup {j} /\ UNCHANGED loaded

\* bootstrap: loads the plist and the operator is told so, or fails, as it does when the service is loaded or
\* the file is gone, or for reasons of its own, and the operator is told that.
Bootstrap(j) ==
  \/ /\ active[j] # NoTime /\ loaded[j] = NoTime
     /\ loaded' = [loaded EXCEPT ![j] = active[j]]
     /\ Tell(j, "done")
  \/ UNCHANGED loaded /\ Tell(j, "failed")

(***************************************************************************)
(* The console.                                                            *)
(***************************************************************************)

\* The key that turns a job on or off, and the dialog that also sets its time, both from the table.
StartEdit(t, j, turn, time) ==
  /\ ~Editing(t) /\ j \in DOMAIN table[t]
  /\ edit' = [edit EXCEPT ![t] =
       [at |-> IF ~turn THEN "write" ELSE IF table[t][j].enabled THEN "disable" ELSE "enable",
        job |-> j, time |-> time]]
  /\ UNCHANGED <<agentVars, table, told, clung>>

Toggle(t, j) == StartEdit(t, j, TRUE, NoTime)
Save(t, j) == \E turn \in BOOLEAN, time \in Times : StartEdit(t, j, turn, time)

\* The dialog for a new job only says how to make one; like an edit it ends with reading the table.
NewJob(t) ==
  /\ ~Editing(t)
  /\ edit' = [edit EXCEPT ![t].at = "read"]
  /\ UNCHANGED <<agentVars, table, told, clung>>

ReadTable(t) ==
  /\ Doing(t, "read")
  /\ table' = [table EXCEPT ![t] = JobList]
  /\ edit' = [edit EXCEPT ![t] = NoEdit]
  /\ UNCHANGED <<agentVars, told, clung>>

\* disable(): nothing if the job is not active; else unload ...
Disable(t) ==
  /\ Doing(t, "disable")
  /\ LET j == edit[t].job IN
     IF active[j] = NoTime
     THEN Go(t, AfterToggle(t)) /\ UNCHANGED <<loaded, clung>>
     ELSE Go(t, "park") /\ Unload(j)
  /\ UNCHANGED <<active, parked, table, told>>

\* ... and move the plist aside, which is reported as done whatever became of the service.
Park(t) ==
  /\ Doing(t, "park") /\ active[edit[t].job] # NoTime
  /\ LET j == edit[t].job IN
       /\ parked' = [parked EXCEPT ![j] = active[j]]
       /\ active' = [active EXCEPT ![j] = NoTime]
       /\ Tell(j, "done")
  /\ Go(t, AfterToggle(t))
  /\ UNCHANGED <<loaded, table, clung>>

\* enable(): nothing if the job is active or unknown; else move the plist back ...
Enable(t) ==
  /\ Doing(t, "enable")
  /\ LET j == edit[t].job IN
     IF active[j] # NoTime \/ parked[j] = NoTime
     THEN Go(t, AfterToggle(t)) /\ UNCHANGED <<active, parked>>
     ELSE /\ active' = [active EXCEPT ![j] = parked[j]]
          /\ parked' = [parked EXCEPT ![j] = NoTime]
          /\ Go(t, "load")
  /\ UNCHANGED <<loaded, table, told, clung>>

\* ... and load it.
Load(t) ==
  /\ Doing(t, "load")
  /\ Bootstrap(edit[t].job)
  /\ Go(t, AfterToggle(t))
  /\ UNCHANGED <<active, parked, table, clung>>

\* set_time(): the plist is found and written; that is all for a job that is off, ...
Write(t) ==
  /\ Doing(t, "write")
  /\ LET j == edit[t].job
         new == edit[t].time IN
     IF active[j] # NoTime
     THEN active' = [active EXCEPT ![j] = new] /\ Go(t, "unload again") /\ UNCHANGED parked
     ELSE /\ parked' = IF parked[j] # NoTime THEN [parked EXCEPT ![j] = new] ELSE parked
          /\ Go(t, "read") /\ UNCHANGED active
  /\ UNCHANGED <<loaded, table, told, clung>>

\* ... an active one is unloaded ...
UnloadAgain(t) ==
  /\ Doing(t, "unload again")
  /\ Unload(edit[t].job)
  /\ Go(t, "load again")
  /\ UNCHANGED <<active, parked, table, told>>

\* Faulty variant: what bootstrap returns is not looked at either.
LoadAgain_Unchecked(t) ==
  /\ Doing(t, "load again")
  /\ LET j == edit[t].job IN
       /\ \/ active[j] # NoTime /\ loaded[j] = NoTime /\ loaded' = [loaded EXCEPT ![j] = active[j]]
          \/ UNCHANGED loaded
       /\ Tell(j, "done")
  /\ Go(t, "read")
  /\ UNCHANGED <<active, parked, table, clung>>

\* ... and loaded again.
LoadAgain(t) ==
  /\ Doing(t, "load again")
  /\ Bootstrap(edit[t].job)
  /\ Go(t, "read")
  /\ UNCHANGED <<active, parked, table, clung>>

\* The console ends between two steps: a call of launchctl took too long, or a plist was gone when it was to be
\* moved, and nothing catches that; or it is killed.  Its operator sees that the edit was not finished.
ConsoleEnds(t) ==
  /\ Editing(t)
  /\ IF Doing(t, "read") THEN UNCHANGED told ELSE Tell(edit[t].job, "failed")
  /\ edit' = [edit EXCEPT ![t] = NoEdit]
  /\ table' = [table EXCEPT ![t] = NoJobs]
  /\ UNCHANGED <<agentVars, clung>>

\* Login after a reboot: consoles are gone, and what lies in the active folder is loaded.
Reboot ==
  /\ loaded' = active /\ clung' = {}
  /\ table' = [t \in Editors |-> NoJobs] /\ edit' = [t \in Editors |-> NoEdit]
  /\ UNCHANGED <<active, parked, told>>

\* install.sh, run by hand: one job after the other is written, also one that is parked, unloaded if that
\* succeeds, and loaded; the first that cannot be loaded ends the script.
Install ==
  /\ \A t \in Editors : ~Editing(t)
  /\ \E did \in SUBSET Jobs, broken \in SUBSET Jobs :
       /\ IF broken = {} THEN did = Jobs ELSE \E j \in Jobs \ did : broken = {j}
       /\ active' = [j \in Jobs |-> IF j \in did \cup broken THEN Default ELSE active[j]]
       /\ \E stuck \in SUBSET {j \in broken : loaded[j] # NoTime} :
            /\ loaded' = [j \in Jobs |-> IF j \in did THEN Default
                                         ELSE IF j \in broken \ stuck THEN NoTime ELSE loaded[j]]
            /\ clung' = (clung \ (did \cup broken)) \cup stuck
       /\ told' = [j \in Jobs |-> IF j \in did THEN "done" ELSE IF j \in broken THEN "failed" ELSE told[j]]
  /\ UNCHANGED <<parked, table, edit>>

EditStep(t) ==
  \/ Disable(t) \/ Park(t) \/ Enable(t) \/ Load(t)
  \/ Write(t) \/ UnloadAgain(t) \/ LoadAgain(t)
  \/ ReadTable(t) \/ ConsoleEnds(t)

ScheduleNext ==
  \/ \E t \in Editors : NewJob(t) \/ EditStep(t) \/ \E j \in Jobs : Toggle(t, j) \/ Save(t, j)
  \/ Reboot \/ Install

(***************************************************************************)
(* Properties.                                                             *)
(***************************************************************************)

\* Outside an edit of it a job that is on is loaded and runs at the time its plist says, unless the operator
\* was told that the last operation on it failed; and a job that is off is not loaded, unless a bootout of it
\* failed, of which the operator is told nothing.  This is about every sequence of edits, failed and broken off
\* ones among them, reboots and runs of install.sh (schedule_control.py 169-221); with a second console it is
\* not kept.
LoadedRunsAsWritten ==
  \A j \in Jobs :
    (\A t \in Editors : ~(Editing(t) /\ edit[t].job = j)) =>
      \/ loaded[j] = active[j]
      \/ active[j] # NoTime /\ told[j] = "failed"
      \/ active[j] = NoTime /\ j \in clung

(***************************************************************************)
(* What the code promises and does not keep.                               *)
(***************************************************************************)

\* "발송을 껐습니다": a job of which the console says that it was turned off sends nothing
\* (schedule_control.py 194-205).  Broken by a bootout that fails: its result is not looked at.
OffSendsNothing ==
  \A j \in Jobs : (\A t \in Editors : ~Editing(t)) /\ active[j] = NoTime /\ told[j] = "done" => loaded[j] = NoTime

\* The dialog turns a job on or off when the operator asked for a change of what it is.  Broken when the table
\* was read before another console or install.sh changed the job.
SavedAsShown ==
  [][ \A t \in Editors, j \in Jobs :
        Save(t, j) /\ edit'[t].at # "write" => table[t][j].enabled = (active[j] # NoTime) ]_scheduleVars
=============================================================================
