---------------------------- MODULE RequestsProofs ----------------------------
(***************************************************************************)
(* Proofs about what is asked from outside: IrInterviewQueue, for any      *)
(* number of codes, requests, jobs and deaths of the worker, DartKeys, for *)
(* any number of threads and keys and any budget, and what the page of a   *)
(* company shows beside what it was asked for: the comments of its         *)
(* analysis, for any number of tasks and notes, and its statements, for    *)
(* any number of quarters, requests and filings.                           *)
(***************************************************************************)
EXTENDS IrInterviewQueue, DartKeys, AnalysisComments, CompanyStatements, TLAPS

\* Rows, the tick's job and the reports' jobs have been issued.
Issued ==
  /\ \A j \in JobIds : jobs[j].status # "none" => j <= issued
  /\ \A c \in Codes : report[c].job <= issued
  /\ tick.at # "idle" => tick.job \in JobIds /\ tick.job <= issued

\* Jobs are taken in the order of their ids: a report is older than any row
\* that is pending and than the job at work, and so is that job.
TakenInOrder ==
  /\ \A c \in Codes, j \in JobIds : jobs[j].status = "pending" => report[c].job < j
  /\ tick.at # "idle" =>
       /\ \A c \in Codes : report[c].job < tick.job
       /\ \A j \in JobIds : jobs[j].status = "pending" => tick.job <= j
  /\ tick.at \in {"start", "run"} => jobs[tick.job].status # "pending"

IrInv == TypeOK /\ Issued /\ TakenInOrder /\ DoneHasReport

LEMMA InitIrInv == Init => IrInv
<1> SUFFICES ASSUME Init PROVE IrInv
  OBVIOUS
<1>1. (CHOOSE c \in Codes : TRUE) \in Codes
  BY IrAssumption
<1> QED
  BY <1>1, IrAssumption
  DEF Init, IrInv, TypeOK, Issued, TakenInOrder, DoneHasReport, JobIds, JobRow, Statuses, Report,
      NoReport, Request, At, IdleTick

\* Writing a status other than "pending" and "done" keeps all that is said of rows.
LEMMA WriteStatus ==
  ASSUME IrInv, NEW j \in JobIds, Exists(j), NEW s \in {"running", "failed"}, SetStatus(j, s)
  PROVE  /\ jobs' \in [JobIds -> [code : Codes, status : Statuses]]
         /\ \A i \in JobIds : /\ jobs'[i].code = jobs[i].code
                              /\ jobs'[i].status = IF i = j THEN s ELSE jobs[i].status
  BY DEF IrInv, TypeOK, SetStatus, JobRow, Statuses

LEMMA StepIrInv == IrInv /\ [Next]_vars => IrInv'
<1> SUFFICES ASSUME IrInv, [Next]_vars PROVE IrInv'
  OBVIOUS
<1> USE IrAssumption DEF JobIds
<1>t. TypeOK /\ Issued /\ TakenInOrder /\ DoneHasReport
  BY DEF IrInv
<1>1. ASSUME NEW k \in Clients, NEW c \in Codes, EnqueueCheck(k, c) PROVE IrInv'
  BY <1>1, <1>t, SMTT(30) DEF EnqueueCheck, Request, IrInv, TypeOK, Issued, TakenInOrder, DoneHasReport
<1>2. ASSUME NEW k \in Clients, EnqueueInsert(k) PROVE IrInv'
  <2> DEFINE n == issued + 1
  <2>1. n \in JobIds /\ issued' = n /\ n <= MaxJobs /\ client[k].code \in Codes
    BY <1>2, <1>t DEF EnqueueInsert, TypeOK
  <2>2. /\ jobs' = [jobs EXCEPT ![n] = [code |-> client[k].code, status |-> "pending"]]
        /\ client' = [client EXCEPT ![k] = [at |-> "idle", code |-> client[k].code, seen |-> 0]]
        /\ UNCHANGED <<report, tick, crashes>>
    BY <1>2 DEF EnqueueInsert, JobRow, Request
  <2>3. jobs' \in [JobIds -> [code : Codes, status : Statuses]]
    BY <1>t, <2>1, <2>2 DEF TypeOK, Statuses
  <2>4. TypeOK'
    BY <1>t, <2>1, <2>2, <2>3 DEF TypeOK
  <2>5. \A i \in JobIds : jobs'[i] = IF i = n THEN [code |-> client[k].code, status |-> "pending"]
                                              ELSE jobs[i]
    BY <1>t, <2>1, <2>2 DEF TypeOK
  <2>6. issued \in Nat /\ (\A c \in Codes : report[c].job \in Nat) /\ tick.job \in Nat
    BY <1>t DEF TypeOK
  <2> HIDE DEF n
  <2>7. n = issued + 1
    BY DEF n
  <2>8. Issued'
    BY <1>t, <2>1, <2>2, <2>5, <2>6, <2>7 DEF Issued
  <2>9. TakenInOrder'
    BY <1>t, <2>1, <2>2, <2>5, <2>6, <2>7 DEF TakenInOrder, Issued
  <2>10. DoneHasReport'
    BY <1>t, <2>2, <2>5 DEF DoneHasReport
  <2> QED
    BY <2>4, <2>8, <2>9, <2>10 DEF IrInv
<1>3. ASSUME NEW k \in Clients, NEW c \in Codes, DeleteRead(k, c) PROVE IrInv'
  <2>1. report[c].row \in 0..MaxJobs
    BY <1>t DEF TypeOK
  <2> QED
    BY <1>3, <1>t, <2>1 DEF DeleteRead, Request, IrInv, TypeOK, Issued, TakenInOrder, DoneHasReport
<1>4. ASSUME NEW k \in Clients, DeleteCommit(k) PROVE IrInv'
  <2> DEFINE d == client[k].code
  <2>1. /\ \A j \in JobIds : jobs'[j] = IF jobs[j].code = d THEN [code |-> d, status |-> "none"]
                                                           ELSE jobs[j]
        /\ UNCHANGED <<issued, tick, crashes>>
    BY <1>4, <1>t DEF DeleteCommit, JobRow
  <2>2. d \in Codes
    BY <1>t DEF TypeOK
  <2>3. \A c \in Codes : report'[c] = report[c] \/ report'[c] = NoReport
    BY <1>4, <1>t DEF DeleteCommit, TypeOK
  <2>4. \A c \in Codes : c # d => report'[c] = report[c]
    BY <1>4, <1>t DEF DeleteCommit, TypeOK
  <2>5. \A c \in Codes : report'[c].job <= report[c].job /\ report'[c].job \in Nat /\ report[c].job \in Nat
    <3>1. \A c \in Codes : report[c].job \in Nat
      BY <1>t DEF TypeOK
    <3>2. NoReport.job = 0
      BY DEF NoReport, Report
    <3> QED
      BY <2>3, <3>1, <3>2
  <2>6. TypeOK'
    <3>1. jobs' \in [JobIds -> [code : Codes, status : Statuses]]
      BY <1>4, <1>t, <2>2 DEF DeleteCommit, JobRow, TypeOK, Statuses
    <3>2. report' \in [Codes -> [row : 0..MaxJobs, job : 0..MaxJobs]]
      BY <1>4, <1>t, <2>2 DEF DeleteCommit, TypeOK, NoReport, Report
    <3>3. client' = [client EXCEPT ![k] = [at |-> "idle", code |-> d, seen |-> 0]]
      BY <1>4 DEF DeleteCommit, Request
    <3>4. client' \in [Clients -> [at : {"idle", "insert", "delete"}, code : Codes, seen : 0..MaxJobs]]
      BY <1>t, <2>2, <3>3 DEF TypeOK
    <3>5. issued' \in 0..MaxJobs /\ crashes' \in 0..MaxCrashes /\ tick' = tick
      BY <1>t, <2>1 DEF TypeOK
    <3> QED
      BY <1>t, <3>1, <3>2, <3>4, <3>5 DEF TypeOK
  <2>7. \A j \in JobIds : /\ jobs'[j].status # "none" => jobs'[j] = jobs[j] /\ jobs[j].code # d
                          /\ jobs'[j].code \in Codes
    BY <2>1, <2>6 DEF TypeOK
  <2> HIDE DEF d
  <2>8. Issued'
    BY <1>t, <2>1, <2>5, <2>7 DEF Issued, TypeOK
  <2>9. TakenInOrder'
    <3>1. \A j \in JobIds : jobs'[j].status = "pending" => jobs[j].status = "pending"
      BY <2>7
    <3>2. ASSUME NEW c \in Codes, NEW j \in JobIds, jobs'[j].status = "pending"
          PROVE  report'[c].job < j
      BY <3>1, <3>2, <1>t, <2>5 DEF TakenInOrder
    <3>3. ASSUME tick'.at # "idle", NEW c \in Codes PROVE report'[c].job < tick'.job
      <4>1. tick' = tick /\ tick.job \in JobIds
        BY <2>1, <3>3, <1>t DEF Issued
      <4>2. report[c].job < tick.job
        BY <4>1, <3>3, <1>t DEF TakenInOrder
      <4> QED
        BY <4>1, <4>2, <2>5
    <3>4. tick'.at # "idle" => \A j \in JobIds : jobs'[j].status = "pending" => tick'.job <= j
      BY <3>1, <2>1, <1>t DEF TakenInOrder
    <3>5. tick'.at \in {"start", "run"} => jobs'[tick'.job].status # "pending"
      <4>1. tick' = tick
        BY <2>1
      <4>2. tick.at \in {"start", "run"} => tick.job \in JobIds /\ jobs[tick.job].status # "pending"
        BY <1>t DEF Issued, TakenInOrder
      <4> QED
        BY <3>1, <4>1, <4>2
    <3> QED
      BY <3>2, <3>3, <3>4, <3>5 DEF TakenInOrder
  <2>10. DoneHasReport'
    BY <1>t, <2>4, <2>7 DEF DoneHasReport
  <2> QED
    BY <2>6, <2>8, <2>9, <2>10 DEF IrInv
<1>5. CASE PollRead
  <2>1. PICK j \in JobIds : Oldest(j) /\ tick' = [at |-> "claim", job |-> j]
    BY <1>5 DEF PollRead, At
  <2>2. UNCHANGED <<jobs, issued, report, client, crashes>>
    BY <1>5 DEF PollRead
  <2>3. j \in 0..MaxJobs /\ j <= issued /\ jobs[j].status = "pending"
    BY <1>t, <2>1 DEF Oldest, Issued
  <2>4. TypeOK'
    BY <1>t, <2>1, <2>2, <2>3 DEF TypeOK
  <2>5. Issued'
    BY <1>t, <2>1, <2>2, <2>3 DEF Issued
  <2>6. TakenInOrder'
    BY <1>t, <2>1, <2>2, <2>3 DEF TakenInOrder, Oldest
  <2>7. DoneHasReport'
    BY <1>t, <2>2 DEF DoneHasReport
  <2> QED
    BY <2>4, <2>5, <2>6, <2>7 DEF IrInv
<1>6. CASE PollClaim
  <2>1. tick.at = "claim" /\ tick.job \in JobIds /\ UNCHANGED <<issued, report, client, crashes>>
    BY <1>6, <1>t DEF PollClaim, Issued
  <2>2. CASE Exists(tick.job)
    <3>1. SetStatus(tick.job, "running") /\ tick' = [at |-> "start", job |-> tick.job]
      BY <1>6, <2>2 DEF PollClaim, At
    <3>2. /\ jobs' \in [JobIds -> [code : Codes, status : Statuses]]
          /\ \A i \in JobIds :
               /\ jobs'[i].code = jobs[i].code
               /\ jobs'[i].status = IF i = tick.job THEN "running" ELSE jobs[i].status
      BY <2>1, <2>2, <3>1, WriteStatus
    <3> QED
      BY <1>t, <2>1, <2>2, <3>1, <3>2
      DEF Exists, IrInv, TypeOK, Issued, TakenInOrder, DoneHasReport
  <2>3. CASE ~Exists(tick.job)
    <3>1. tick' = [at |-> "idle", job |-> 0] /\ jobs' = jobs
      BY <1>6, <2>3 DEF PollClaim, IdleTick, At
    <3> QED
      BY <1>t, <2>1, <3>1 DEF IrInv, TypeOK, Issued, TakenInOrder, DoneHasReport
  <2> QED
    BY <2>2, <2>3
<1>7. CASE RunStart
  <2>1. /\ tick' = [at |-> "run", job |-> tick.job] \/ tick' = [at |-> "idle", job |-> 0]
        /\ tick.at = "start"
        /\ UNCHANGED <<jobs, issued, report, client, crashes>>
    BY <1>7 DEF RunStart, IdleTick, At
  <2>2. TypeOK'
    BY <1>t, <2>1 DEF TypeOK
  <2>3. Issued'
    BY <1>t, <2>1 DEF Issued
  <2>4. TakenInOrder'
    BY <1>t, <2>1 DEF TakenInOrder
  <2>5. DoneHasReport'
    BY <1>t, <2>1 DEF DoneHasReport
  <2> QED
    BY <2>2, <2>3, <2>4, <2>5 DEF IrInv
<1>8. CASE RunDone
  <2> DEFINE t == tick.job
             c == jobs[t].code
  <2>1. /\ tick.at = "run" /\ t \in JobIds /\ t <= issued /\ jobs[t].status # "pending" /\ c \in Codes
        /\ tick' = [at |-> "idle", job |-> 0]
        /\ UNCHANGED <<issued, client, crashes>>
    BY <1>8, <1>t DEF RunDone, Issued, TakenInOrder, TypeOK, IdleTick, At
  <2>2. CASE Exists(t)
    <3>1. /\ jobs' = [jobs EXCEPT ![t] = [code |-> c, status |-> "done"]]
          /\ report' = [report EXCEPT ![c] = Upserted(c, t)]
      BY <1>8, <2>2 DEF RunDone, SetStatus, JobRow
    <3>2. Upserted(c, t) \in [row : 0..MaxJobs, job : 0..MaxJobs] /\ Upserted(c, t).job = t
      BY <1>t, <2>1 DEF Upserted, Report, NoReport, TypeOK
    <3>3. /\ jobs' \in [JobIds -> [code : Codes, status : Statuses]]
          /\ \A i \in JobIds : /\ jobs'[i].code = jobs[i].code
                               /\ jobs'[i].status = IF i = t THEN "done" ELSE jobs[i].status
      BY <1>t, <2>1, <3>1 DEF TypeOK, Statuses
    <3>4. /\ report' \in [Codes -> [row : 0..MaxJobs, job : 0..MaxJobs]]
          /\ report'[c].job = t
          /\ \A e \in Codes : e # c => report'[e] = report[e]
      BY <1>t, <2>1, <3>1, <3>2 DEF TypeOK
    <3>5. /\ \A e \in Codes : report[e].job < t /\ report[e].job \in Nat
          /\ \A i \in JobIds : jobs[i].status = "pending" => t <= i
      BY <1>t, <2>1 DEF TakenInOrder, TypeOK
    <3> HIDE DEF t, c
    <3>6. TypeOK'
      <4>1. tick' \in [at : {"idle", "claim", "start", "run"}, job : 0..MaxJobs]
        BY <2>1
      <4>2. issued' \in 0..MaxJobs /\ crashes' \in 0..MaxCrashes /\ client' = client
        BY <1>t, <2>1 DEF TypeOK
      <4> QED
        BY <1>t, <3>3, <3>4, <4>1, <4>2 DEF TypeOK
    <3>7. Issued'
      BY <1>t, <2>1, <2>2, <3>3, <3>4, <3>5 DEF Issued, Exists
    <3>8. TakenInOrder'
      <4>1. ASSUME NEW e \in Codes, NEW j \in JobIds, jobs'[j].status = "pending"
            PROVE  report'[e].job < j
        <5>1. j # t /\ jobs[j].status = "pending"
          BY <3>3, <4>1
        <5>2. t < j
          BY <5>1, <3>5, <2>1
        <5> QED
          BY <5>2, <3>4, <3>5, <2>1
      <4> QED
        BY <4>1, <2>1 DEF TakenInOrder
    <3>9. DoneHasReport'
      <4>1. ASSUME NEW j \in JobIds, jobs'[j].status = "done"
            PROVE  report'[jobs'[j].code].job >= j
        <5>1. CASE j = t
          <6>1. jobs'[j].code = c
            BY <5>1, <3>3 DEF c
          <6> QED
            BY <5>1, <6>1, <3>4, <2>1
        <5>2. CASE j # t
          <6>1. jobs[j].status = "done" /\ jobs'[j].code = jobs[j].code /\ jobs[j].code \in Codes
            BY <5>2, <3>3, <4>1, <1>t DEF TypeOK
          <6>2. report[jobs[j].code].job >= j
            BY <6>1, <1>t DEF DoneHasReport
          <6> QED
            BY <6>1, <6>2, <3>4, <3>5, <2>1
        <5> QED
          BY <5>1, <5>2
      <4> QED
        BY <4>1 DEF DoneHasReport
    <3> QED
      BY <3>6, <3>7, <3>8, <3>9 DEF IrInv
  <2>3. CASE ~Exists(t)
    <3>1. UNCHANGED <<report, jobs>>
      BY <1>8, <2>3 DEF RunDone
    <3> QED
      BY <1>t, <2>1, <3>1 DEF IrInv, TypeOK, Issued, TakenInOrder, DoneHasReport
  <2> QED
    BY <2>2, <2>3
<1>9. CASE RunFails
  <2>1. tick.job \in JobIds /\ tick' = [at |-> "idle", job |-> 0] /\ UNCHANGED <<issued, report, client, crashes>>
    BY <1>9, <1>t DEF RunFails, Issued, IdleTick, At
  <2>2. CASE Exists(tick.job)
    <3>1. /\ jobs' \in [JobIds -> [code : Codes, status : Statuses]]
          /\ \A i \in JobIds :
               /\ jobs'[i].code = jobs[i].code
               /\ jobs'[i].status = IF i = tick.job THEN "failed" ELSE jobs[i].status
      BY <1>9, <2>1, <2>2, WriteStatus DEF RunFails
    <3>2. TypeOK'
      <4>1. tick' \in [at : {"idle", "claim", "start", "run"}, job : 0..MaxJobs]
        BY <2>1
      <4>2. issued' \in 0..MaxJobs /\ crashes' \in 0..MaxCrashes /\ client' = client /\ report' = report
        BY <1>t, <2>1 DEF TypeOK
      <4> QED
        BY <1>t, <3>1, <4>1, <4>2 DEF TypeOK
    <3>3. Issued'
      BY <1>t, <2>1, <2>2, <3>1 DEF Issued, Exists
    <3>4. TakenInOrder'
      BY <1>t, <2>1, <3>1 DEF TakenInOrder
    <3>5. DoneHasReport'
      BY <1>t, <2>1, <3>1 DEF DoneHasReport
    <3> QED
      BY <3>2, <3>3, <3>4, <3>5 DEF IrInv
  <2>3. CASE ~Exists(tick.job)
    <3>1. jobs' = jobs
      BY <1>9, <2>3 DEF RunFails
    <3> QED
      BY <1>t, <2>1, <3>1 DEF IrInv, TypeOK, Issued, TakenInOrder, DoneHasReport
  <2> QED
    BY <2>2, <2>3
<1>10. CASE Crash
  BY <1>10, <1>t DEF Crash, IdleTick, At, IrInv, TypeOK, Issued, TakenInOrder, DoneHasReport
<1>11. CASE UNCHANGED vars
  BY <1>11, <1>t DEF vars, IrInv, TypeOK, Issued, TakenInOrder, DoneHasReport
<1> QED
  BY <1>1, <1>2, <1>3, <1>4, <1>5, <1>6, <1>7, <1>8, <1>9, <1>10, <1>11 DEF Next

LEMMA AlwaysIrInv == Spec => []IrInv
  BY InitIrInv, StepIrInv, PTL DEF Spec

\* Every reachable state of the IR interview queue is well typed.
THEOREM TypeCorrect == Spec => []TypeOK
<1>1. IrInv => TypeOK
  BY DEF IrInv
<1> QED
  BY <1>1, AlwaysIrInv, PTL

\* A job that is done has its report or a later one, whatever deletions cross
\* its conclusion: run_job writes both in one commit that a deleted row undoes.
THEOREM ReportOfDone == Spec => []DoneHasReport
<1>1. IrInv => DoneHasReport
  BY DEF IrInv
<1> QED
  BY <1>1, AlwaysIrInv, PTL

\* Only a later request replaces a report: claim_next takes the rows in the
\* order of their ids and the tick runs one to its end before the next.
THEOREM ReportsInOrder == Spec => NeverOlder
<1> DEFINE Monotone == \A c \in Codes : report'[c] = NoReport \/ report'[c].job >= report[c].job
<1>1. IrInv /\ [Next]_vars => [Monotone]_vars
  <2> SUFFICES ASSUME IrInv, Next PROVE Monotone
    OBVIOUS
  <2> USE IrAssumption DEF JobIds
  <2>t. TypeOK /\ Issued /\ TakenInOrder /\ \A c \in Codes : report[c].job \in Nat
    BY DEF IrInv, TypeOK
  <2>1. CASE report' = report
    BY <2>1, <2>t
  <2>2. ASSUME NEW k \in Clients, DeleteCommit(k) PROVE Monotone
    BY <2>2, <2>t DEF DeleteCommit, TypeOK
  <2>3. CASE RunDone
    <3> DEFINE c == jobs[tick.job].code
    <3>1. CASE Exists(tick.job)
      <4>1. report' = [report EXCEPT ![c] = Upserted(c, tick.job)]
        BY <2>3, <3>1 DEF RunDone
      <4>2. Upserted(c, tick.job).job = tick.job
        BY DEF Upserted, Report
      <4>3. tick.job \in JobIds /\ \A e \in Codes : report[e].job < tick.job
        BY <2>3, <2>t DEF RunDone, Issued, TakenInOrder
      <4>4. c \in Codes /\ report \in [Codes -> [row : 0..MaxJobs, job : 0..MaxJobs]]
        BY <4>3, <2>t DEF TypeOK
      <4> HIDE DEF c
      <4> QED
        BY <4>1, <4>2, <4>3, <4>4, <2>t
    <3> QED
      BY <2>1, <2>3, <3>1 DEF RunDone
  <2> QED
    BY <2>1, <2>2, <2>3
    DEF Next, EnqueueCheck, EnqueueInsert, DeleteRead, PollRead, PollClaim, RunStart, RunFails, Crash
<1> QED
  BY <1>1, AlwaysIrInv, PTL DEF Spec, NeverOlder

-------------------------------------------------------------------------------
(***************************************************************************)
(* The ring of keys.                                                       *)
(***************************************************************************)
\* What was sent and what is left make up a budget and its renewing check.
BudgetsAddUp ==
  \A k \in Keys : IF entry[k].today THEN charged[k] + entry[k].left <= Budget + 1
                                    ELSE charged[k] = 0

\* An answer being worked on is of a key that counts as refused.
RefusalIsKnown ==
  \A t \in Threads : KeyAt(t, "mark") \/ KeyAt(t, "rotate") => req[t].key \in refused

KeysInv == KeysTypeOK /\ BudgetsAddUp /\ RefusalIsKnown /\ PassedIsEarned

Entries == [today : BOOLEAN, left : 0..Budget]
Requests == [at : {"idle", "pick", "send", "mark", "rotate", "bare"}, key : Keys]

LEMMA ConstantsTyped == Budget \in Nat \ {0} /\ RingSize \in Nat \ {0} /\ NoKey \in Nat \ Keys
BY DartAssumption DEF NoKey, Keys

\* What taking a usable key does to the ring and the entries.
LEMMA TakenEffect ==
  ASSUME KeysTypeOK, NEW k \in Found, Taken(k)
  PROVE  /\ k \in Keys /\ active' = k
         /\ entry' \in [Keys -> Entries]
         /\ \A i \in Keys \ {k} : entry'[i] = entry[i]
         /\ entry'[k].today
         /\ entry[k].today => entry[k].left > 0 /\ entry'[k].left = entry[k].left - 1
         /\ ~entry[k].today => entry'[k].left = Budget
<1>1. k \in Keys /\ Usable(k)
  BY DEF Found
<1>2. entry \in [Keys -> Entries]
  BY DEF KeysTypeOK, Entries
<1>3. entry[k] \in Entries
  BY <1>1, <1>2
<1>4. (IF entry[k].today THEN Entry(TRUE, entry[k].left - 1) ELSE Entry(TRUE, Budget)) \in Entries
  <2>1. CASE entry[k].today
    BY <1>1, <1>3, <2>1, ConstantsTyped DEF Entry, Entries, Usable
  <2>2. CASE ~entry[k].today
    BY <2>2, ConstantsTyped DEF Entry, Entries
  <2> QED BY <2>1, <2>2
<1>5. /\ active' = k
      /\ entry' = [entry EXCEPT ![k] = IF entry[k].today THEN Entry(TRUE, entry[k].left - 1)
                                                         ELSE Entry(TRUE, Budget)]
  BY DEF Taken
<1>6. entry[k].today => entry[k].left > 0
  BY <1>1 DEF Usable
<1>7. entry'[k] = IF entry[k].today THEN Entry(TRUE, entry[k].left - 1) ELSE Entry(TRUE, Budget)
  BY <1>1, <1>2, <1>5
<1> QED
  BY <1>1, <1>2, <1>4, <1>5, <1>6, <1>7 DEF Entry

\* Taking a key keeps the account, whether a request is charged to it or not.
LEMMA TakenAddsUp ==
  ASSUME KeysInv, NEW k \in Found, Taken(k),
         charged' \in [Keys -> Nat], charged'[k] <= charged[k] + 1,
         \A i \in Keys \ {k} : charged'[i] = charged[i]
  PROVE  BudgetsAddUp'
<1> DEFINE Sum(i) == IF entry'[i].today THEN charged'[i] + entry'[i].left <= Budget + 1
                                        ELSE charged'[i] = 0
<1>1. k \in Keys /\ entry \in [Keys -> Entries] /\ charged \in [Keys -> Nat]
  BY DEF Found, KeysInv, KeysTypeOK, Entries
<1>2. IF entry[k].today THEN charged[k] + entry[k].left <= Budget + 1 ELSE charged[k] = 0
  BY <1>1 DEF KeysInv, BudgetsAddUp
<1>3. entry[k].left \in Nat /\ charged[k] \in Nat /\ charged'[k] \in Nat
  BY <1>1, ConstantsTyped DEF Entries
<1>4. Sum(k)
  <2>0. /\ entry'[k].today
        /\ entry[k].today => entry'[k].left = entry[k].left - 1
        /\ ~entry[k].today => entry'[k].left = Budget
    BY TakenEffect DEF KeysInv
  <2>1. CASE entry[k].today
    BY <1>2, <1>3, <2>0, <2>1, ConstantsTyped
  <2>2. CASE ~entry[k].today
    BY <1>2, <1>3, <2>0, <2>2, ConstantsTyped
  <2> QED BY <2>1, <2>2
<1>5. ASSUME NEW i \in Keys, i # k PROVE Sum(i)
  BY <1>5, TakenEffect DEF KeysInv, BudgetsAddUp
<1> QED
  BY <1>4, <1>5 DEF BudgetsAddUp

\* The keys stepped over on the way to a usable one were exhausted.
LEMMA TakenIsEarned ==
  ASSUME KeysInv, NEW k \in Found, Taken(k), refused' = refused
  PROVE  PassedIsEarned'
<1>0. active' = k /\ k \in Keys
  BY TakenEffect DEF KeysInv
<1> SUFFICES ASSUME NEW i \in Keys, i < k
             PROVE  entry'[i].left = 0 \/ i \in refused
  BY <1>0 DEF PassedIsEarned
<1>a. i # k
  BY <1>0 DEF Keys
<1>b. entry'[i] = entry[i]
  BY <1>a, TakenEffect DEF KeysInv
<1>c. entry[i] \in Entries /\ active \in Nat
  BY ConstantsTyped DEF KeysInv, KeysTypeOK, Entries, Keys
<1>1. entry'[i] = entry[i] /\ entry[i] \in Entries /\ k \in Keys /\ active \in Nat
  BY <1>0, <1>b, <1>c
<1>2. CASE i < active
  BY <1>1, <1>2 DEF KeysInv, PassedIsEarned
<1>3. CASE active <= i
  <2>1. ~Usable(i)
    BY <1>1, <1>3 DEF Found, Keys
  <2> QED BY <1>1, <2>1, ConstantsTyped DEF Usable, Entries
<1> QED
  BY <1>1, <1>2, <1>3 DEF Keys

\* Without a usable key all keys were exhausted.
LEMMA NoneIsEarned ==
  ASSUME KeysInv, NoneTaken, refused' = refused
  PROVE  PassedIsEarned'
<1> SUFFICES ASSUME NEW i \in Keys
             PROVE  entry[i].left = 0 \/ i \in refused
  BY DEF PassedIsEarned, NoneTaken
<1>1. entry[i] \in Entries /\ active \in Nat
  BY ConstantsTyped DEF KeysInv, KeysTypeOK, Entries, Keys
<1>2. CASE i < active
  BY <1>2 DEF KeysInv, PassedIsEarned
<1>3. CASE active <= i
  <2>1. ~Usable(i)
    BY <1>1, <1>3 DEF NoneTaken, Keys
  <2> QED BY <1>1, <2>1, ConstantsTyped DEF Usable, Entries
<1> QED
  BY <1>1, <1>2, <1>3 DEF Keys

-------------------------------------------------------------------------------

\* The parts of a step: what it does to the ring, what to the requests.
RingOK ==
  /\ active \in Keys \cup {NoKey}
  /\ entry \in [Keys -> Entries]
  /\ charged \in [Keys -> Nat]
  /\ refused \in SUBSET Keys
  /\ full \in SUBSET Keys
  /\ days \in 0..MaxDays

LEMMA TypeParts == KeysTypeOK <=> RingOK /\ req \in [Threads -> Requests]
BY DEF KeysTypeOK, RingOK, Entries, Requests

LEMMA TypePartsNext == KeysTypeOK' <=> RingOK' /\ req' \in [Threads -> Requests]
BY DEF KeysTypeOK, RingOK, Entries, Requests

\* A request that goes to a step keeps the others.
LEMMA GoEffect ==
  ASSUME KeysTypeOK, NEW t \in Threads, NEW k \in Keys,
         NEW step \in {"idle", "pick", "send", "mark", "rotate", "bare"},
         Go(t, step) \/ GoWith(t, step, k)
  PROVE  /\ req' \in [Threads -> Requests]
         /\ \A u \in Threads \ {t} : req'[u] = req[u]
         /\ req'[t].at = step
         /\ Go(t, step) => req'[t].key = req[t].key
<1>1. req \in [Threads -> Requests]
  BY DEF KeysTypeOK, Requests
<1>2. req[t].key \in Keys
  BY <1>1 DEF Requests
<1>3. CASE Go(t, step)
  <2>1. req' = [req EXCEPT ![t] = KeyRequest(step, req[t].key)]
    BY <1>3 DEF Go
  <2>2. KeyRequest(step, req[t].key) \in Requests
    BY <1>2 DEF KeyRequest, Requests
  <2> QED BY <1>1, <2>1, <2>2 DEF KeyRequest
<1>4. CASE ~Go(t, step) /\ GoWith(t, step, k)
  <2>1. req' = [req EXCEPT ![t] = KeyRequest(step, k)]
    BY <1>4 DEF GoWith
  <2>2. KeyRequest(step, k) \in Requests
    BY DEF KeyRequest, Requests
  <2> QED BY <1>1, <1>4, <2>1, <2>2 DEF KeyRequest
<1> QED
  BY <1>3, <1>4

\* A request that does not go to work on a refusal leaves what is known.
LEMMA StepKeepsRefusals ==
  ASSUME KeysInv, NEW t \in Threads, refused \subseteq refused',
         \A u \in Threads \ {t} : req'[u] = req[u],
         req'[t].at \in {"mark", "rotate"} => req'[t].key \in refused'
  PROVE  RefusalIsKnown'
BY DEF KeysInv, RefusalIsKnown, KeyAt

\* The initial states: a full ring, every budget there, nothing refused.
THEOREM InitKeysInv == KeysInit => KeysInv
<1> SUFFICES ASSUME KeysInit PROVE KeysInv
  OBVIOUS
<1>1. KeysTypeOK
  BY ConstantsTyped, DartAssumption DEF KeysInit, KeysTypeOK, Entry, Idle, KeyRequest, Keys
<1>2. BudgetsAddUp
  BY ConstantsTyped DEF KeysInit, BudgetsAddUp, Entry
<1>3. RefusalIsKnown
  BY DEF KeysInit, RefusalIsKnown, KeyAt, Idle, KeyRequest
<1>4. PassedIsEarned
  BY DEF KeysInit, PassedIsEarned, Keys
<1> QED
  BY <1>1, <1>2, <1>3, <1>4 DEF KeysInv

\* The actions that leave the requests as they are.
LEMMA RingSteps ==
  ASSUME KeysInv, Probe \/ Configure \/ Midnight \/ Renew \/ \E k \in Keys : Refuse(k)
  PROVE  KeysInv'
<1> USE DEF KeysInv
<1>0. RingOK /\ req \in [Threads -> Requests]
  BY TypeParts
<1>1. CASE Probe
  <2>0. req' = req /\ charged' = charged /\ refused' = refused /\ full' = full /\ days' = days
    BY <1>1 DEF Probe
  <2>1. RefusalIsKnown'
    BY <2>0 DEF RefusalIsKnown, KeyAt
  <2>2. CASE NoneTaken
    <3>1. RingOK'
      BY <1>0, <2>0, <2>2 DEF RingOK, NoneTaken
    <3>2. BudgetsAddUp'
      BY <2>0, <2>2 DEF BudgetsAddUp, NoneTaken
    <3>3. PassedIsEarned'
      BY <2>0, <2>2, NoneIsEarned
    <3> QED BY <1>0, <2>0, <2>1, <3>1, <3>2, <3>3, TypePartsNext
  <2>3. CASE \E k \in Found : Taken(k)
    <3>1. PICK k \in Found : Taken(k)
      BY <2>3
    <3>2. RingOK'
      BY <1>0, <2>0, <3>1, TakenEffect DEF RingOK
    <3>3. k \in Keys /\ charged \in [Keys -> Nat]
      BY <1>0, <3>1, TakenEffect DEF RingOK
    <3>4. /\ charged' \in [Keys -> Nat] /\ charged'[k] <= charged[k] + 1
          /\ \A i \in Keys \ {k} : charged'[i] = charged[i]
      BY <2>0, <3>3
    <3>5. BudgetsAddUp'
      BY <3>1, <3>4, TakenAddsUp
    <3>6. PassedIsEarned'
      BY <2>0, <3>1, TakenIsEarned
    <3> QED BY <1>0, <2>0, <2>1, <3>2, <3>5, <3>6, TypePartsNext
  <2> QED BY <1>1, <2>2, <2>3 DEF Probe
<1>2. CASE Configure
  <2>0. /\ active' = 1 /\ UNCHANGED <<entry, req, charged, full, days>>
        /\ refused' = {req[t].key : t \in {u \in Threads : KeyAt(u, "mark") \/ KeyAt(u, "rotate")}}
    BY <1>2 DEF Configure
  <2>1. refused' \in SUBSET Keys
    BY <1>0, <2>0 DEF Requests
  <2>2. 1 \in Keys
    BY ConstantsTyped DEF Keys
  <2>3. RingOK'
    BY <1>0, <2>0, <2>1, <2>2 DEF RingOK
  <2>4. BudgetsAddUp'
    BY <2>0 DEF BudgetsAddUp
  <2>5. RefusalIsKnown'
    BY <2>0 DEF RefusalIsKnown, KeyAt
  <2>6. PassedIsEarned'
    BY <2>0 DEF PassedIsEarned, Keys
  <2> QED BY <1>0, <2>0, <2>3, <2>4, <2>5, <2>6, TypePartsNext
<1>3. CASE Midnight
  <2>0. /\ entry' = [k \in Keys |-> Entry(FALSE, entry[k].left)] /\ charged' = [k \in Keys |-> 0]
        /\ days < MaxDays /\ days' = days + 1 /\ UNCHANGED <<active, req, refused, full>>
    BY <1>3 DEF Midnight
  <2>1. \A k \in Keys : entry'[k].left = entry[k].left /\ ~entry'[k].today /\ charged'[k] = 0
    BY <2>0 DEF Entry
  <2>2. entry' \in [Keys -> Entries] /\ charged' \in [Keys -> Nat]
    BY <1>0, <2>0 DEF RingOK, Entry, Entries
  <2>3. days' \in 0..MaxDays
    BY <1>0, <2>0, DartAssumption DEF RingOK
  <2>4. RingOK'
    BY <1>0, <2>0, <2>2, <2>3 DEF RingOK
  <2>5. BudgetsAddUp'
    BY <2>1 DEF BudgetsAddUp
  <2>6. RefusalIsKnown'
    BY <2>0 DEF RefusalIsKnown, KeyAt
  <2>7. PassedIsEarned'
    BY <2>0, <2>1 DEF PassedIsEarned
  <2> QED BY <1>0, <2>0, <2>4, <2>5, <2>6, <2>7, TypePartsNext
<1>4. CASE Renew \/ \E k \in Keys : Refuse(k)
  <2>0. full' \in SUBSET Keys /\ UNCHANGED <<active, entry, req, charged, refused, days>>
    BY <1>0, <1>4 DEF Renew, Refuse, RingOK
  <2>1. RingOK'
    BY <1>0, <2>0 DEF RingOK
  <2>2. BudgetsAddUp' /\ RefusalIsKnown' /\ PassedIsEarned'
    BY <2>0 DEF BudgetsAddUp, RefusalIsKnown, PassedIsEarned, KeyAt
  <2> QED BY <1>0, <2>0, <2>1, <2>2, TypePartsNext
<1> QED
  BY <1>1, <1>2, <1>3, <1>4

\* The steps of a request.
LEMMA RequestSteps ==
  ASSUME KeysInv, NEW t \in Threads, Begin(t) \/ Step(t)
  PROVE  KeysInv'
<1> USE DEF KeysInv
<1>0. /\ RingOK /\ req \in [Threads -> Requests] /\ req[t].key \in Keys /\ 1 \in Keys
      /\ req[t].at \in {"mark", "rotate"} => req[t].key \in refused
  BY TypeParts, ConstantsTyped DEF Requests, Keys, RefusalIsKnown, KeyAt
<1>1. CASE Begin(t)
  <2>0. charged' = charged /\ refused' = refused /\ full' = full /\ days' = days
    BY <1>1 DEF Begin
  <2>1. CASE NoneTaken /\ GoWith(t, "bare", 1)
    <3>1. req' \in [Threads -> Requests] /\ req'[t].at = "bare" /\ \A u \in Threads \ {t} : req'[u] = req[u]
      BY <1>0, <2>1, GoEffect
    <3>2. RingOK'
      BY <1>0, <2>0, <2>1 DEF RingOK, NoneTaken
    <3>3. BudgetsAddUp'
      BY <2>0, <2>1 DEF BudgetsAddUp, NoneTaken
    <3>4. PassedIsEarned'
      BY <2>0, <2>1, NoneIsEarned
    <3>5. RefusalIsKnown'
      BY <2>0, <3>1, StepKeepsRefusals
    <3> QED BY <3>1, <3>2, <3>3, <3>4, <3>5, TypePartsNext
  <2>2. CASE \E k \in Found : Taken(k) /\ Go(t, "pick")
    <3>1. PICK k \in Found : Taken(k) /\ Go(t, "pick")
      BY <2>2
    <3>2. req' \in [Threads -> Requests] /\ req'[t].at = "pick" /\ \A u \in Threads \ {t} : req'[u] = req[u]
      BY <1>0, <3>1, GoEffect
    <3>3. RingOK' /\ k \in Keys /\ charged \in [Keys -> Nat]
      BY <1>0, <2>0, <3>1, TakenEffect DEF RingOK
    <3>4. /\ charged' \in [Keys -> Nat] /\ charged'[k] <= charged[k] + 1
          /\ \A i \in Keys \ {k} : charged'[i] = charged[i]
      BY <2>0, <3>3
    <3>5. BudgetsAddUp'
      BY <3>1, <3>4, TakenAddsUp
    <3>6. PassedIsEarned'
      BY <2>0, <3>1, TakenIsEarned
    <3>7. RefusalIsKnown'
      BY <2>0, <3>2, StepKeepsRefusals
    <3> QED BY <3>2, <3>3, <3>5, <3>6, <3>7, TypePartsNext
  <2> QED BY <1>1, <2>1, <2>2 DEF Begin
<1>2. CASE Pick(t)
  <2>0. refused' = refused /\ full' = full /\ days' = days
    BY <1>2 DEF Pick
  <2>1. CASE NoneTaken /\ Go(t, "bare") /\ charged' = charged
    <3>1. req' \in [Threads -> Requests] /\ req'[t].at = "bare" /\ \A u \in Threads \ {t} : req'[u] = req[u]
      BY <1>0, <2>1, GoEffect
    <3>2. RingOK'
      BY <1>0, <2>0, <2>1 DEF RingOK, NoneTaken
    <3>3. BudgetsAddUp'
      BY <2>1 DEF BudgetsAddUp, NoneTaken
    <3>4. PassedIsEarned'
      BY <2>0, <2>1, NoneIsEarned
    <3>5. RefusalIsKnown'
      BY <2>0, <3>1, StepKeepsRefusals
    <3> QED BY <3>1, <3>2, <3>3, <3>4, <3>5, TypePartsNext
  <2>2. CASE \E k \in Found : Taken(k) /\ GoWith(t, "send", k) /\ charged' = [charged EXCEPT ![k] = @ + 1]
    <3>1. PICK k \in Found : Taken(k) /\ GoWith(t, "send", k) /\ charged' = [charged EXCEPT ![k] = @ + 1]
      BY <2>2
    <3>2. k \in Keys /\ charged \in [Keys -> Nat]
      BY <1>0, <3>1, TakenEffect DEF RingOK
    <3>3. req' \in [Threads -> Requests] /\ req'[t].at = "send" /\ \A u \in Threads \ {t} : req'[u] = req[u]
      BY <1>0, <3>1, <3>2, GoEffect
    <3>4. /\ charged' \in [Keys -> Nat] /\ charged'[k] <= charged[k] + 1
          /\ \A i \in Keys \ {k} : charged'[i] = charged[i]
      BY <3>1, <3>2
    <3>5. RingOK'
      BY <1>0, <2>0, <3>1, <3>4, TakenEffect DEF RingOK
    <3>6. BudgetsAddUp'
      BY <3>1, <3>4, TakenAddsUp
    <3>7. PassedIsEarned'
      BY <2>0, <3>1, TakenIsEarned
    <3>8. RefusalIsKnown'
      BY <2>0, <3>3, StepKeepsRefusals
    <3> QED BY <3>3, <3>5, <3>6, <3>7, <3>8, TypePartsNext
  <2> QED BY <1>2, <2>1, <2>2 DEF Pick
<1>3. CASE Send(t)
  <2>0. /\ UNCHANGED <<active, entry, charged, full, days>>
        /\ \/ Go(t, "mark") /\ refused' = refused \cup {req[t].key}
           \/ Go(t, "idle") /\ refused' = refused
    BY <1>3 DEF Send
  <2>1. req' \in [Threads -> Requests] /\ \A u \in Threads \ {t} : req'[u] = req[u]
    BY <1>0, <2>0, GoEffect
  <2>2. req'[t].at \in {"mark", "rotate"} => req'[t].key \in refused'
    <3>1. CASE Go(t, "mark") /\ refused' = refused \cup {req[t].key}
      BY <1>0, <3>1, GoEffect
    <3>2. CASE Go(t, "idle")
      BY <1>0, <3>2, GoEffect
    <3> QED BY <2>0, <3>1, <3>2
  <2>3. RingOK'
    BY <1>0, <2>0 DEF RingOK
  <2>4. BudgetsAddUp' /\ PassedIsEarned'
    BY <2>0 DEF BudgetsAddUp, PassedIsEarned
  <2>5. RefusalIsKnown'
    BY <2>0, <2>1, <2>2, StepKeepsRefusals
  <2> QED BY <2>1, <2>3, <2>4, <2>5, TypePartsNext
<1>4. CASE Mark(t)
  <2>0. /\ req[t].at = "mark" /\ Go(t, "rotate")
        /\ entry' = [entry EXCEPT ![req[t].key] = Entry(TRUE, 0)]
        /\ UNCHANGED <<active, charged, refused, full, days>>
    BY <1>4 DEF Mark, KeyAt
  <2>1. /\ req' \in [Threads -> Requests] /\ \A u \in Threads \ {t} : req'[u] = req[u]
        /\ req'[t].key = req[t].key
    BY <1>0, <2>0, GoEffect
  <2>2. Entry(TRUE, 0) \in Entries
    BY ConstantsTyped DEF Entry, Entries
  <2>3. RingOK'
    BY <1>0, <2>0, <2>2 DEF RingOK
  <2>4. \A k \in Keys : entry'[k] = entry[k] \/ (entry'[k].today /\ entry'[k].left = 0)
    BY <1>0, <2>0 DEF RingOK, Entry
  <2>5. BudgetsAddUp'
    <3> SUFFICES ASSUME NEW k \in Keys
                 PROVE  IF entry'[k].today THEN charged[k] + entry'[k].left <= Budget + 1 ELSE charged[k] = 0
      BY <2>0 DEF BudgetsAddUp
    <3>1. charged[k] \in Nat /\ entry[k].left \in Nat /\ Budget \in Nat
      BY <1>0, ConstantsTyped DEF RingOK, Entries
    <3>2. charged[k] <= Budget + 1
      BY <3>1 DEF BudgetsAddUp
    <3>3. CASE entry'[k] = entry[k]
      BY <3>3 DEF BudgetsAddUp
    <3>4. CASE entry'[k].today /\ entry'[k].left = 0
      BY <3>1, <3>2, <3>4
    <3> QED BY <2>4, <3>3, <3>4
  <2>6. PassedIsEarned'
    BY <2>0, <2>4 DEF PassedIsEarned
  <2>7. RefusalIsKnown'
    BY <1>0, <2>0, <2>1, StepKeepsRefusals
  <2> QED BY <2>1, <2>3, <2>5, <2>6, <2>7, TypePartsNext
<1>5. CASE Rotate(t)
  <2>0. /\ req[t].at = "rotate" /\ UNCHANGED <<entry, charged, refused, full, days>>
        /\ active' = IF active = req[t].key THEN active + 1 ELSE active
        /\ Go(t, "pick") \/ Go(t, "idle")
    BY <1>5 DEF Rotate, KeyAt
  <2>1. /\ req' \in [Threads -> Requests] /\ \A u \in Threads \ {t} : req'[u] = req[u]
        /\ req'[t].at \in {"pick", "idle"}
    BY <1>0, <2>0, GoEffect
  <2>2. active' \in Keys \cup {NoKey}
    BY <1>0, <2>0, ConstantsTyped DEF RingOK, Keys, NoKey
  <2>3. RingOK'
    BY <1>0, <2>0, <2>2 DEF RingOK
  <2>4. BudgetsAddUp'
    BY <2>0 DEF BudgetsAddUp
  <2>5. PassedIsEarned'
    BY <1>0, <2>0 DEF PassedIsEarned, Keys
  <2>6. RefusalIsKnown'
    BY <2>0, <2>1, StepKeepsRefusals
  <2> QED BY <2>1, <2>3, <2>4, <2>5, <2>6, TypePartsNext
<1>6. CASE Bare(t)
  <2>0. Go(t, "idle") /\ UNCHANGED <<active, entry, charged, refused, full, days>>
    BY <1>6 DEF Bare
  <2>1. req' \in [Threads -> Requests] /\ req'[t].at = "idle" /\ \A u \in Threads \ {t} : req'[u] = req[u]
    BY <1>0, <2>0, GoEffect
  <2>2. RingOK' /\ BudgetsAddUp' /\ PassedIsEarned'
    BY <1>0, <2>0 DEF RingOK, BudgetsAddUp, PassedIsEarned
  <2>3. RefusalIsKnown'
    BY <2>0, <2>1, StepKeepsRefusals
  <2> QED BY <2>1, <2>2, <2>3, TypePartsNext
<1> QED
  BY <1>1, <1>2, <1>3, <1>4, <1>5, <1>6 DEF Step

\* Every step keeps the invariant.
THEOREM NextKeysInv == KeysInv /\ [KeysNext]_keyVars => KeysInv'
<1> SUFFICES ASSUME KeysInv, [KeysNext]_keyVars PROVE KeysInv'
  OBVIOUS
<1>1. CASE \E t \in Threads : Begin(t) \/ Step(t)
  BY <1>1, RequestSteps
<1>2. CASE Probe \/ Configure \/ Midnight \/ Renew \/ \E k \in Keys : Refuse(k)
  BY <1>2, RingSteps
<1>3. CASE UNCHANGED keyVars
  BY <1>3 DEF keyVars, KeysInv, KeysTypeOK, BudgetsAddUp, RefusalIsKnown, PassedIsEarned, KeyAt
<1> QED
  BY <1>1, <1>2, <1>3 DEF KeysNext, Step

\* The invariant holds in every reachable state.
THEOREM AlwaysKeysInv == KeysSpec => []KeysInv
BY InitKeysInv, NextKeysInv, PTL DEF KeysSpec

\* Every reachable state of the gate is well typed.
THEOREM KeysTypeCorrect == KeysSpec => []KeysTypeOK
<1>1. KeysInv => KeysTypeOK
  BY DEF KeysInv
<1> QED
  BY <1>1, AlwaysKeysInv, PTL

\* No day takes more of a key than its budget and the renewing check.
THEOREM BudgetKept == KeysSpec => []RingKeepsBudget
<1>1. KeysInv => RingKeepsBudget
  <2> SUFFICES ASSUME KeysInv, NEW k \in Keys PROVE charged[k] <= Budget + 1
    BY DEF RingKeepsBudget
  <2>1. charged[k] \in Nat /\ entry[k].left \in Nat /\ Budget \in Nat
    BY ConstantsTyped DEF KeysInv, KeysTypeOK
  <2>2. IF entry[k].today THEN charged[k] + entry[k].left <= Budget + 1 ELSE charged[k] = 0
    BY DEF KeysInv, BudgetsAddUp
  <2> QED BY <2>1, <2>2
<1> QED
  BY <1>1, AlwaysKeysInv, PTL

\* The ring passes a key only when it is exhausted or refused.
THEOREM NoKeySkipped == KeysSpec => []PassedIsEarned
<1>1. KeysInv => PassedIsEarned
  BY DEF KeysInv
<1> QED
  BY <1>1, AlwaysKeysInv, PTL

\* Both together: what the run checks.
THEOREM KeysInTurn == KeysSpec => []KeysServeInTurn
<1>1. RingKeepsBudget /\ PassedIsEarned => KeysServeInTurn
  BY DEF KeysServeInTurn
<1> QED
  BY <1>1, BudgetKept, NoKeySkipped, PTL

-------------------------------------------------------------------------------
(***************************************************************************)
(* The comments.  The argument is one of order: notes only get newer, a    *)
(* writer reads its note after the hash was taken, so the note a comment   *)
(* was written from is never older than the one of its hash; when the hash *)
(* is the present one there is nothing newer left.                         *)
(***************************************************************************)

\* Neither a task nor the row knows a note that has not come yet, and what a
\* comment is written from is as new as its hash.
TasksBehind ==
  \A w \in Writers :
    /\ writer[w].hash.note <= note /\ writer[w].read <= note
    /\ writer[w].at = "writes" => writer[w].hash.note <= writer[w].read

RowBehind ==
  comment = NoComment \/
    \E h, f \in Asked : comment = Comment(h, f) /\ h.marks = f.marks /\ h.note <= f.note /\ f.note <= note

CommentInv == CommentTypeOK /\ TasksBehind /\ RowBehind

LEMMA FreeIsTyped == NoTask \in [at : {"free", "asked", "writes"}, hash : Asked, read : Nat]
                     /\ NoTask.hash.note = 0 /\ NoTask.read = 0 /\ NoTask.at = "free"
  BY CommentAssumption DEF NoTask, Task, From, Asked

LEMMA InvHoldsFirst == CommentInit => CommentInv
  BY FreeIsTyped, CommentAssumption
  DEF CommentInit, CommentInv, CommentTypeOK, TasksBehind, RowBehind, NoComment, Asked

\* A step preserves the invariant: one case per action.
LEMMA InvStays == CommentInv /\ [CommentNext]_commentVars => CommentInv'
<1> SUFFICES ASSUME CommentInv, [CommentNext]_commentVars PROVE CommentInv'
  OBVIOUS
<1> USE CommentAssumption, FreeIsTyped DEF CommentInv
<1>1. CASE AsksComment
  <2>1. PICK w \in Writers : writer' = [writer EXCEPT ![w] = Task("asked", From(marks, note), 0)]
    BY <1>1 DEF AsksComment, Hash
  <2>2. From(marks, note) \in Asked /\ From(marks, note).note = note
    BY DEF CommentTypeOK, From, Asked
  <2>3. Task("asked", From(marks, note), 0) \in [at : {"free", "asked", "writes"}, hash : Asked, read : Nat]
    BY <2>2 DEF Task
  <2>4. CommentTypeOK'
    BY <1>1, <2>1, <2>3 DEF AsksComment, CommentTypeOK
  <2>5. TasksBehind'
    BY <1>1, <2>1, <2>2 DEF AsksComment, TasksBehind, CommentTypeOK, Task
  <2>6. RowBehind'
    BY <1>1 DEF AsksComment, RowBehind
  <2> QED BY <2>4, <2>5, <2>6
<1>2. CASE MarksMove
  BY <1>2 DEF MarksMove, CommentTypeOK, TasksBehind, RowBehind
<1>3. CASE DeepDiveEnds
  <2>1. note \in Nat /\ note' = note + 1 /\ CommentTypeOK'
    BY <1>3 DEF DeepDiveEnds, CommentTypeOK
  <2>2. TasksBehind'
    BY <1>3, <2>1 DEF DeepDiveEnds, TasksBehind, CommentTypeOK, Asked
  <2>3. RowBehind'
    BY <1>3, <2>1 DEF DeepDiveEnds, RowBehind, Asked
  <2> QED BY <2>1, <2>2, <2>3
<1>4. CASE PageRestarts
  <2>1. CommentTypeOK' /\ TasksBehind'
    BY <1>4 DEF PageRestarts, CommentTypeOK, TasksBehind
  <2> QED BY <1>4, <2>1 DEF PageRestarts, RowBehind
<1>5. ASSUME NEW w \in Writers, BeginsComment(w) PROVE CommentInv'
  <2>1. CASE writer[w].hash \in writing
    <3>1. CommentTypeOK' /\ TasksBehind'
      BY <1>5, <2>1 DEF BeginsComment, CommentTypeOK, TasksBehind
    <3> QED BY <1>5, <3>1 DEF BeginsComment, RowBehind
  <2>2. CASE writer[w].hash \notin writing
    <3>1. Task("writes", writer[w].hash, note) \in [at : {"free", "asked", "writes"}, hash : Asked, read : Nat]
      BY DEF CommentTypeOK, Task
    <3>2. CommentTypeOK'
      BY <1>5, <2>2, <3>1 DEF BeginsComment, CommentTypeOK
    <3>3. TasksBehind'
      BY <1>5, <2>2 DEF BeginsComment, CommentTypeOK, TasksBehind, Task
    <3> QED BY <1>5, <3>2, <3>3 DEF BeginsComment, RowBehind
  <2> QED BY <2>1, <2>2
<1>6. ASSUME NEW w \in Writers, EndsComment(w) PROVE CommentInv'
  <2> DEFINE h == writer[w].hash
             f == From(h.marks, writer[w].read)
  <2>1. h \in Asked /\ f \in Asked /\ f.marks = h.marks /\ f.note = writer[w].read
    BY DEF CommentTypeOK, From, Asked
  <2>2. h.note <= f.note /\ f.note <= note
    BY <1>6, <2>1 DEF EndsComment, TasksBehind
  <2>3. comment' = comment \/ comment' = Comment(h, f)
    BY <1>6 DEF EndsComment
  <2>4. Comment(h, f) \in [hash : SUBSET Asked, from : SUBSET Asked]
    BY <2>1 DEF Comment
  <2>5. CommentTypeOK'
    BY <1>6, <2>3, <2>4 DEF EndsComment, CommentTypeOK
  <2>6. TasksBehind'
    BY <1>6 DEF EndsComment, CommentTypeOK, TasksBehind
  <2>7. RowBehind'
    <3>1. CASE comment' = comment
      BY <1>6, <3>1 DEF EndsComment, RowBehind
    <3>2. CASE comment' = Comment(h, f)
      BY <1>6, <2>1, <2>2, <3>2 DEF EndsComment, RowBehind
    <3> QED BY <2>3, <3>1, <3>2
  <2> QED BY <2>5, <2>6, <2>7
<1>7. CASE UNCHANGED commentVars
  BY <1>7 DEF commentVars, CommentTypeOK, TasksBehind, RowBehind
<1> QED BY <1>1, <1>2, <1>3, <1>4, <1>5, <1>6, <1>7 DEF CommentNext

\* For any tasks, scores and number of deep dives the state keeps its types.
THEOREM CommentTypeCorrect == CommentSpec => []CommentTypeOK
<1>1. CommentInv => CommentTypeOK
  BY DEF CommentInv
<1> QED BY <1>1, InvHoldsFirst, InvStays, PTL DEF CommentSpec

\* A hash that is the present one leaves no room between its note and the newest.
LEMMA NothingNewer == CommentInv => ShownIsOfItsScores
<1> SUFFICES ASSUME CommentInv, comment.hash = {From(marks, note)} PROVE comment.from = {From(marks, note)}
  BY DEF ShownIsOfItsScores, Shown, Hash
<1>1. comment # NoComment
  BY DEF NoComment
<1>2. PICK h, f \in Asked : comment = Comment(h, f) /\ h.marks = f.marks /\ h.note <= f.note /\ f.note <= note
  BY <1>1 DEF CommentInv, RowBehind
<1>3. h = From(marks, note)
  BY <1>2 DEF Comment
<1>4. f.marks = marks /\ f.note = note /\ note \in Nat
  BY <1>2, <1>3 DEF From, Asked, CommentInv, CommentTypeOK
<1>5. f = From(marks, note)
  BY <1>2, <1>4 DEF From, Asked
<1> QED BY <1>2, <1>5 DEF Comment

\* A comment that is shown was written from the scores and the note beside it,
\* however many tasks write, end late or are lost, and however notes come.
THEOREM ShownIsCurrent == CommentSpec => []ShownIsOfItsScores
  BY NothingNewer, InvHoldsFirst, InvStays, PTL DEF CommentSpec

-------------------------------------------------------------------------------
(***************************************************************************)
(* The statements of a company.  What a request has read of the rows and   *)
(* what an answer shows are still so, or marked as overtaken.              *)
(***************************************************************************)
RowsOf(st, d) == {<<t, st[d][t]>> : t \in {u \in Terms : st[d][u] # Unstored}}
LabelsOf(st) == {d \in Divs : RowsOf(st, d) # {}}

VisitSteps == {"idle", "rows", "labels", "fetch", "fetched"}
VisitShape(x) ==
  /\ x = [step |-> x.step, div |-> x.div, rows |-> x.rows, divs |-> x.divs, late |-> x.late]
  /\ x.step \in VisitSteps /\ x.div \in Divs
VisitOK(x, st) ==
  /\ x.step \in {"rows", "labels"} /\ ~x.late => x.rows = RowsOf(st, x.div)
  /\ x.step = "labels" /\ ~x.late => x.divs = LabelsOf(st)
AnswerShape(a) == a = [rows |-> a.rows, divs |-> a.divs, fresh |-> a.fresh, late |-> a.late]
AnswerOK(a, d, st) == a.fresh /\ ~a.late => a.rows = RowsOf(st, d) /\ a.divs = LabelsOf(st)

StatementsInv ==
  /\ DOMAIN statements = Divs
  /\ DOMAIN visits = Visits /\ \A v \in Visits : VisitShape(visits[v]) /\ VisitOK(visits[v], statements)
  /\ DOMAIN answers = Divs /\ \A d \in Divs : AnswerShape(answers[d]) /\ AnswerOK(answers[d], d, statements)

LEMMA RestIsFine ==
  /\ VisitShape(NoVisit) /\ NoVisit.step = "idle" /\ AnswerShape(NoAnswer) /\ ~NoAnswer.fresh
  /\ \A st : VisitOK(NoVisit, st) /\ \A d \in Divs : AnswerOK(NoAnswer, d, st)
<1>1. VisitShape(NoVisit) /\ NoVisit.step = "idle"
  BY DEF VisitShape, NoVisit, VisitSteps, Divs
<1>2. AnswerShape(NoAnswer) /\ ~NoAnswer.fresh
  BY DEF AnswerShape, NoAnswer
<1> HIDE DEF VisitShape, AnswerShape
<1> QED BY <1>1, <1>2 DEF VisitOK, AnswerOK

\* What is not shown as current agrees with any rows.
LEMMA LateIsFine ==
  /\ \A x, st : (x.step \in {"rows", "labels"} => x.late) => VisitOK(x, st)
  /\ \A a, d, st : (a.fresh => a.late) => AnswerOK(a, d, st)
BY DEF VisitOK, AnswerOK

LEMMA OvertakenIsLate ==
  ASSUME StatementsInv, NEW v \in Visits
  PROVE  /\ VisitShape(Overtaken[v]) /\ (Overtaken[v].step \in {"rows", "labels"} => Overtaken[v].late)
         /\ DOMAIN Overtaken = Visits
<1>1. PICK x : x = visits[v] /\ VisitShape(x)
  BY DEF StatementsInv
<1>2. VisitShape([x EXCEPT !.late = TRUE]) /\ [x EXCEPT !.late = TRUE].late
  <2>1. PICK yes : yes = TRUE
    OBVIOUS
  <2>2. VisitShape([x EXCEPT !.late = yes]) /\ [x EXCEPT !.late = yes].late = yes
    BY <1>1 DEF VisitShape
  <2> HIDE DEF VisitShape
  <2> QED BY <2>1, <2>2, Zenon
<1>3. Overtaken[v] = IF x.step \in {"rows", "labels"} THEN [x EXCEPT !.late = TRUE] ELSE x
  BY <1>1 DEF Overtaken
<1> HIDE DEF VisitShape
<1> QED BY <1>1, <1>2, <1>3 DEF Overtaken

LEMMA InitStatementsInv ==
  ASSUME StatementsInit
  PROVE  StatementsInv
<1>1. /\ DOMAIN statements = Divs /\ visits = [v \in Visits |-> NoVisit] /\ answers = [d \in Divs |-> NoAnswer]
  BY DEF StatementsInit, Nothing
<1> HIDE DEF NoVisit, NoAnswer, VisitShape, VisitOK, AnswerShape, AnswerOK
<1> QED BY <1>1, RestIsFine DEF StatementsInv

\* A step that leaves the rows alone and changes one request.
LEMMA OneVisitInv ==
  ASSUME StatementsInv, NEW v \in Visits, NEW x, visits' = [visits EXCEPT ![v] = x],
         VisitShape(x), VisitOK(x, statements), UNCHANGED statements,
         DOMAIN answers' = Divs, \A d \in Divs : AnswerShape(answers'[d]) /\ AnswerOK(answers'[d], d, statements)
  PROVE  StatementsInv'
<1> HIDE DEF VisitShape, VisitOK, AnswerShape, AnswerOK
<1> QED BY DEF StatementsInv

\* A step that changes the rows: what was read of them is overtaken.
LEMMA RowsChangeInv ==
  ASSUME StatementsInv, DOMAIN statements' = Divs, DOMAIN visits' = Visits, DOMAIN answers' = Divs,
         \A v \in Visits : VisitShape(visits'[v]) /\ (visits'[v].step \in {"rows", "labels"} => visits'[v].late),
         \A d \in Divs : AnswerShape(answers'[d]) /\ (answers'[d].fresh => answers'[d].late)
  PROVE  StatementsInv'
<1> HIDE DEF VisitShape, VisitOK, AnswerShape, AnswerOK
<1> QED BY LateIsFine DEF StatementsInv

LEMMA VisitInv ==
  ASSUME StatementsInv, NEW v \in Visits,
         (\E d \in Divs : VisitReads(v, d)) \/ VisitReadsLabels(v) \/ VisitStores(v) \/ FetchDrops(v) \/ FetchBreaks(v)
  PROVE  StatementsInv'
<1>1. PICK x, st : x = visits[v] /\ VisitShape(x) /\ st = statements /\ VisitOK(x, st)
  BY DEF StatementsInv
<1>2. DOMAIN answers = Divs /\ \A d \in Divs : AnswerShape(answers[d]) /\ AnswerOK(answers[d], d, statements)
  BY DEF StatementsInv
<1>3. UNCHANGED statements
  BY DEF VisitReads, VisitReadsLabels, VisitStores, FetchDrops, FetchBreaks
<1>4. ASSUME NEW d \in Divs, VisitReads(v, d) PROVE StatementsInv'
  <2>1. PICK R : R = RowsOf(st, d)
    OBVIOUS
  <2>2. PICK y : y = [step |-> "rows", div |-> d, rows |-> R, divs |-> {}, late |-> FALSE]
    OBVIOUS
  <2>3. VisitShape(y) /\ VisitOK(y, st)
    BY <2>1, <2>2 DEF VisitShape, VisitOK, VisitSteps
  <2>4. visits' = [visits EXCEPT ![v] = y] /\ answers' = answers
    BY <1>1, <1>4, <2>1, <2>2 DEF VisitReads, Rows, RowsOf
  <2> HIDE DEF VisitShape, VisitOK, AnswerShape, AnswerOK
  <2> QED BY <1>1, <1>2, <1>3, <2>3, <2>4, OneVisitInv
<1>5. CASE VisitReadsLabels(v)
  <2>1. PICK L : L = LabelsOf(st)
    OBVIOUS
  <2>2. Labels = L
    BY <1>1, <2>1 DEF Labels, LabelsOf, Rows, RowsOf
  <2>3. PICK y : y = [x EXCEPT !.step = "labels", !.divs = L]
    OBVIOUS
  <2>4. x.step = "rows" /\ visits' = [visits EXCEPT ![v] = y] /\ answers' = answers
    BY <1>1, <1>5, <2>2, <2>3 DEF VisitReadsLabels
  <2>5. /\ y = [step |-> y.step, div |-> y.div, rows |-> y.rows, divs |-> y.divs, late |-> y.late]
        /\ y.step = "labels" /\ y.div = x.div /\ y.rows = x.rows /\ y.divs = L /\ y.late = x.late
    BY <1>1, <2>3 DEF VisitShape
  <2>6. VisitShape(y) /\ VisitOK(y, st)
    BY <1>1, <2>1, <2>4, <2>5 DEF VisitShape, VisitOK, VisitSteps
  <2> HIDE DEF VisitShape, VisitOK, AnswerShape, AnswerOK
  <2> QED BY <1>1, <1>2, <1>3, <2>4, <2>6, OneVisitInv
<1>6. CASE VisitStores(v)
  <2>1. x.step = "labels"
    BY <1>1, <1>6 DEF VisitStores
  <2>2. CASE x.rows # {}
    <3>1. PICK a : a = [rows |-> x.rows, divs |-> x.divs, fresh |-> TRUE, late |-> x.late]
      OBVIOUS
    <3>2. answers' = [answers EXCEPT ![x.div] = a] /\ visits' = [visits EXCEPT ![v] = NoVisit]
      BY <1>1, <1>6, <2>2, <3>1 DEF VisitStores
    <3>3. AnswerShape(a) /\ AnswerOK(a, x.div, st)
      BY <1>1, <2>1, <3>1 DEF AnswerShape, AnswerOK, VisitOK
    <3> HIDE DEF VisitShape, VisitOK, AnswerShape, AnswerOK, NoVisit
    <3>4. DOMAIN answers' = Divs /\ \A d \in Divs : AnswerShape(answers'[d]) /\ AnswerOK(answers'[d], d, statements)
      BY <1>1, <1>2, <3>2, <3>3
    <3> QED BY <1>3, <3>2, <3>4, RestIsFine, OneVisitInv
  <2>3. CASE x.rows = {}
    <3>1. PICK y : y = [NoVisit EXCEPT !.step = "fetch", !.div = x.div]
      OBVIOUS
    <3>2. VisitShape(y) /\ VisitOK(y, st)
      BY <1>1, <3>1 DEF VisitShape, VisitOK, VisitSteps, NoVisit
    <3>3. answers' = answers /\ visits' = [visits EXCEPT ![v] = y]
      BY <1>1, <1>6, <2>3, <3>1 DEF VisitStores
    <3> HIDE DEF VisitShape, VisitOK, AnswerShape, AnswerOK
    <3> QED BY <1>1, <1>2, <1>3, <3>2, <3>3, OneVisitInv
  <2> QED BY <2>2, <2>3
<1>7. CASE FetchDrops(v) \/ FetchBreaks(v)
  <2>1. visits' = [visits EXCEPT ![v] = NoVisit] /\ (answers' = NoAnswers \/ answers' = answers)
    BY <1>7 DEF FetchDrops, FetchBreaks
  <2> HIDE DEF VisitShape, VisitOK, AnswerShape, AnswerOK, NoVisit, NoAnswer
  <2>2. DOMAIN answers' = Divs /\ \A d \in Divs : AnswerShape(answers'[d]) /\ AnswerOK(answers'[d], d, statements)
    BY <1>2, <2>1, RestIsFine DEF NoAnswers
  <2> QED BY <1>3, <2>1, <2>2, RestIsFine, OneVisitInv
<1> QED BY <1>4, <1>5, <1>6, <1>7

LEMMA FetchStoresInv ==
  ASSUME StatementsInv, NEW v \in Visits, FetchStores(v)
  PROVE  StatementsInv'
<1>1. DOMAIN statements' = Divs
  BY DEF FetchStores, StatementsInv
<1>2. /\ visits' = [Overtaken EXCEPT ![v].step = "fetched"]
      /\ answers' = [e \in Divs |-> IF answers[e].fresh THEN [answers[e] EXCEPT !.late = TRUE] ELSE answers[e]]
  BY DEF FetchStores
<1>3. PICK x : x = Overtaken[v] /\ VisitShape(x)
  BY OvertakenIsLate
<1>4. PICK y : y = [x EXCEPT !.step = "fetched"] /\ VisitShape(y) /\ y.step = "fetched"
  <2>1. VisitShape([x EXCEPT !.step = "fetched"]) /\ [x EXCEPT !.step = "fetched"].step = "fetched"
    BY <1>3 DEF VisitShape, VisitSteps
  <2> QED BY <2>1
<1>5. visits' = [Overtaken EXCEPT ![v] = y]
  BY <1>2, <1>3, <1>4
<1>6. DOMAIN visits' = Visits
      /\ \A u \in Visits : VisitShape(visits'[u]) /\ (visits'[u].step \in {"rows", "labels"} => visits'[u].late)
  <2> HIDE DEF VisitShape, Overtaken
  <2> QED BY <1>4, <1>5, OvertakenIsLate
<1>7. ASSUME NEW d \in Divs PROVE AnswerShape(answers'[d]) /\ (answers'[d].fresh => answers'[d].late)
  <2>1. PICK a : a = answers[d] /\ AnswerShape(a)
    BY DEF StatementsInv
  <2>2. AnswerShape([a EXCEPT !.late = TRUE]) /\ [a EXCEPT !.late = TRUE].late
    <3>1. PICK yes : yes = TRUE
      OBVIOUS
    <3>2. AnswerShape([a EXCEPT !.late = yes]) /\ [a EXCEPT !.late = yes].late = yes
      BY <2>1 DEF AnswerShape
    <3> HIDE DEF AnswerShape
    <3> QED BY <3>1, <3>2, Zenon
  <2>3. answers'[d] = IF a.fresh THEN [a EXCEPT !.late = TRUE] ELSE a
    BY <1>2, <2>1
  <2> HIDE DEF AnswerShape
  <2> QED BY <2>1, <2>2, <2>3
<1>8. DOMAIN answers' = Divs
  BY <1>2
<1> HIDE DEF VisitShape, AnswerShape
<1> QED BY <1>1, <1>6, <1>7, <1>8, RowsChangeInv

LEMMA BackfillsInv ==
  ASSUME StatementsInv, HistoryStores \/ SeparateStores \/ EquityFilled
  PROVE  StatementsInv'
<1>1. CASE answers' = NoAnswers /\ visits' = Overtaken
  <2>1. DOMAIN statements' = Divs
    BY DEF HistoryStores, SeparateStores, EquityFilled, StatementsInv
  <2> HIDE DEF VisitShape, AnswerShape, Overtaken, NoAnswer
  <2>2. DOMAIN visits' = Visits
    BY <1>1 DEF Overtaken
  <2>3. DOMAIN answers' = Divs /\ \A d \in Divs : answers'[d] = NoAnswer
    BY <1>1 DEF NoAnswers
  <2> QED BY <1>1, <2>1, <2>2, <2>3, OvertakenIsLate, RestIsFine, RowsChangeInv
<1>2. CASE /\ visits' = visits /\ answers' = answers /\ DOMAIN statements' = Divs
           /\ \A d \in Divs, t \in Terms : statements'[d][t] = statements[d][t]
  <2>1. \A d \in Divs : RowsOf(statements', d) = RowsOf(statements, d)
    BY <1>2 DEF RowsOf
  <2>2. LabelsOf(statements') = LabelsOf(statements)
    BY <2>1 DEF LabelsOf
  <2>3. \A x : VisitShape(x) /\ VisitOK(x, statements) => VisitOK(x, statements')
    BY <2>1, <2>2 DEF VisitShape, VisitOK
  <2>4. \A d \in Divs : \A a : AnswerOK(a, d, statements) => AnswerOK(a, d, statements')
    BY <2>1, <2>2 DEF AnswerOK
  <2> HIDE DEF VisitShape, VisitOK, AnswerShape, AnswerOK
  <2> QED BY <1>2, <2>3, <2>4 DEF StatementsInv
<1>3. CASE HistoryStores
  <2>1. UNCHANGED <<statements, answers, visits>> \/ (answers' = NoAnswers /\ visits' = Overtaken)
    BY <1>3 DEF HistoryStores
  <2>2. statements' = statements => DOMAIN statements' = Divs
    BY DEF StatementsInv
  <2> QED BY <1>1, <1>2, <2>1, <2>2
<1>4. CASE SeparateStores
  <2>1. PICK own :
          /\ statements' = [statements EXCEPT !["OFS"] = [t \in Terms |-> IF t \in own THEN RowOf("OFS", t) ELSE @[t]]]
          /\ IF own # {} THEN answers' = NoAnswers /\ visits' = Overtaken ELSE UNCHANGED <<answers, visits>>
    BY <1>4 DEF SeparateStores
  <2>2. CASE own = {}
    <3>1. \A d \in Divs, t \in Terms : statements'[d][t] = statements[d][t]
      BY <2>1, <2>2 DEF StatementsInv
    <3>2. DOMAIN statements' = Divs
      BY <2>1 DEF StatementsInv
    <3> QED BY <1>2, <2>1, <2>2, <3>1, <3>2
  <2> QED BY <1>1, <2>1, <2>2
<1>5. CASE EquityFilled
  BY <1>1, <1>5 DEF EquityFilled
<1> QED BY <1>3, <1>4, <1>5

LEMMA StatementsInductive ==
  ASSUME StatementsInv, [StatementsNext]_statementVars
  PROVE  StatementsInv'
<1> HIDE DEF VisitShape, VisitOK, AnswerShape, AnswerOK, NoVisit, NoAnswer
<1>1. CASE UNCHANGED <<statements, answers, visits>>
  BY <1>1 DEF StatementsInv
<1>2. (\E d \in Divs, t \in Terms : Filing(d, t)) \/ HistoryReads \/ SeparateBegins \/ UNCHANGED statementVars
        => UNCHANGED <<statements, answers, visits>>
  BY DEF Filing, HistoryReads, SeparateBegins, statementVars
<1>3. ASSUME NEW d \in Divs, AnswerExpires(d) PROVE StatementsInv'
  BY <1>3, RestIsFine DEF AnswerExpires, StatementsInv
<1>4. CASE ApiRestarts
  BY <1>4, RestIsFine DEF ApiRestarts, StatementsInv
<1> HIDE DEF StatementsInv
<1>5. ASSUME NEW v \in Visits,
             \/ \E d \in Divs : VisitReads(v, d)
             \/ VisitReadsLabels(v) \/ VisitStores(v) \/ FetchStores(v) \/ FetchDrops(v) \/ FetchBreaks(v)
      PROVE  StatementsInv'
  BY <1>5, VisitInv, FetchStoresInv
<1> QED BY <1>1, <1>2, <1>3, <1>4, <1>5, BackfillsInv DEF StatementsNext

\* A cached answer is what the rows and the labels are now, for any number of
\* quarters, visits and filings, unless it was overtaken while it was put
\* together or by a fetch that has not dropped the answers yet
\* (company_service.py, financials_backfill.py).
THEOREM AnswersAreCurrent == StatementsSpec => []AnswerIsCurrent
<1>1. StatementsInv => AnswerIsCurrent
  <2>1. (\A d : Rows(d) = RowsOf(statements, d)) /\ Labels = LabelsOf(statements)
    BY DEF Rows, RowsOf, Labels, LabelsOf
  <2> HIDE DEF RowsOf, LabelsOf
  <2> QED BY <2>1 DEF StatementsInv, AnswerOK, AnswerIsCurrent
<1> HIDE DEF StatementsInit, StatementsInv, AnswerIsCurrent
<1> QED BY <1>1, InitStatementsInv, StatementsInductive, PTL DEF StatementsSpec
=============================================================================
