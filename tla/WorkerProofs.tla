----------------------------- MODULE WorkerProofs -----------------------------
(***************************************************************************)
(* Proofs about what goes on beside the pages: deep dives, the research    *)
(* and the streams of prices, for any number of rows, stages, requests,    *)
(* streams and deaths of a process.                                        *)
(***************************************************************************)
EXTENDS DeepDiveQueue, ResearchQueue, Realtime, WellFoundedInduction, NaturalsInduction, FiniteSetTheorems, SequenceTheorems, TLAPS

(***************************************************************************)
(* The deep dive.  The rows issued are those that exist; a run is of one   *)
(* of them and has its code.  The report of the code a run works on is not *)
(* published before the run has passed every stage, and the stages it has  *)
(* passed are in the report.                                               *)
(***************************************************************************)
RowsExist ==
  /\ \A j \in JobIds : job[j].status = "absent" <=> j > issued
  /\ \A j \in JobIds : job[j].status # "absent" => job[j].code \in Codes
  /\ \A i \in DOMAIN backlog : backlog[i] <= issued
  /\ run.at # "idle" => /\ run.job \in JobIds /\ run.job <= issued
                        /\ run.loaded.code = job[run.job].code

RunIsBacked ==
  /\ run.at = "loaded" => run.stage = 1
  /\ run.at \in {"stages", "failing"} => ~report[Code].published
  /\ run.at = "stages" => \A s \in Stages : s < run.stage => report[Code].result[s] = "ok"
  /\ run.at = "closing" => \A s \in Stages : report[Code].result[s] = "ok"

OnlyRow(j) ==
  /\ job[j].status # "absent"
  /\ \A i \in JobIds : job[i].status # "absent" /\ job[i].code = job[j].code => i = j

RunIsCounted ==
  /\ run.at = "idle" => run.loaded.code = NoCode
  /\ run.at # "idle" /\ OnlyRow(run.job) =>
       /\ run.at = "loaded" =>
            /\ ResumeFrom = job[run.job].stage
            /\ job[run.job].status = "done" => run.loaded.status = "done" /\ report[Code].published
       /\ run.at = "stages" =>
            /\ job[run.job].status # "done"
            /\ job[run.job].stage = IF ResumeFrom < run.stage THEN run.stage - 1 ELSE ResumeFrom
       /\ run.at = "failing" => job[run.job].status # "done"
       /\ run.at = "closing" => report[Code].published

OnlyIsBacked == \A j \in JobIds : OnlyRow(j) => IsBacked(j)

-------------------------------------------------------------------------------
DeepDiveLess == {pair \in Nat \X Nat : pair[1] < pair[2]}

LEMMA DeepDiveLessWF == IsWellFoundedOn(DeepDiveLess, Nat)
BY NatLessThanWellFounded DEF OpToRel, DeepDiveLess

\* A set of rows has an oldest row, and a latest one.
LEMMA OldestIsMember ==
  ASSUME NEW S \in SUBSET JobIds, S # {}
  PROVE  Oldest(S) \in S
<1>1. S \subseteq Nat
  BY DeepDiveAssumption DEF JobIds
<1>2. PICK j \in S : \A i \in S : ~ (<<i, j>> \in DeepDiveLess)
  BY <1>1, DeepDiveLessWF, WFMin, Zenon
<1>3. \A i \in S : ~ (i < j)
  BY <1>1, <1>2 DEF DeepDiveLess
<1>4. \A i \in S : j <= i
  BY <1>1, <1>3
<1> QED BY <1>4 DEF Oldest

LEMMA LatestIsMember ==
  ASSUME NEW S \in SUBSET JobIds, S # {}
  PROVE  Latest(S) \in S
<1> DEFINE T == {MaxJobs - j : j \in S}
<1>1. \A j \in S : j \in Nat /\ j <= MaxJobs
  BY DeepDiveAssumption DEF JobIds
<1>2. T \subseteq Nat /\ T # {} /\ MaxJobs \in Nat
  BY <1>1, DeepDiveAssumption
<1>3. PICK m \in T : \A i \in T : ~ (<<i, m>> \in DeepDiveLess)
  <2> HIDE DEF T
  <2> QED BY <1>2, DeepDiveLessWF, WFMin, Zenon
<1>4. PICK j \in S : m = MaxJobs - j
  OBVIOUS
<1>5. \A i \in S : ~ (MaxJobs - i < MaxJobs - j)
  BY <1>2, <1>3, <1>4 DEF DeepDiveLess
<1>6. \A i \in S : i <= j
  BY <1>1, <1>2, <1>5
<1> QED BY <1>6 DEF Latest

-------------------------------------------------------------------------------
(***************************************************************************)
(* Types, and rows that exist.                                             *)
(***************************************************************************)
DeepDiveTyped == TypeOK /\ RowsExist

USE DeepDiveAssumption DEF JobIds

\* The code of a run is a stock code: its row exists.
LEMMA RunOfStock ==
  ASSUME DeepDiveTyped, run.at # "idle"
  PROVE  /\ Code \in Codes /\ run.job \in JobIds /\ run.job <= issued
         /\ run.loaded \in JobRow /\ job[run.job] \in JobRow /\ run.stage \in 1..(MaxStage + 1)
         /\ job[run.job].status # "absent" /\ run.loaded.code = job[run.job].code
<1>1. /\ run.job \in JobIds /\ run.job <= issued /\ run.loaded \in JobRow /\ job[run.job] \in JobRow
      /\ run.stage \in 1..(MaxStage + 1) /\ run.loaded.code = job[run.job].code /\ issued \in Nat
  BY DEF DeepDiveTyped, TypeOK, RowsExist, RunState
<1>2. job[run.job].status # "absent"
  BY <1>1 DEF DeepDiveTyped, RowsExist
<1> QED BY <1>1, <1>2 DEF DeepDiveTyped, RowsExist, Code

LEMMA InitDeepDiveTyped == Init => DeepDiveTyped
BY DEF Init, DeepDiveTyped, TypeOK, RowsExist, JobRow, NoRow, ReportRow, EmptyReport, Results, RunState, IdleRun, NoJob, Stages

\* A row that exists is rewritten with the code it has.
LEMMA RowRewritten ==
  ASSUME DeepDiveTyped, NEW j \in JobIds, NEW row \in JobRow,
         job[j].status # "absent", row.status # "absent", row.code = job[j].code,
         job'[j] = row, \A i \in JobIds \ {j} : job'[i] = job[i], job' = [i \in JobIds |-> job'[i]],
         UNCHANGED issued
  PROVE  /\ job' \in [JobIds -> JobRow]
         /\ \A i \in JobIds : job'[i].status = "absent" <=> i > issued'
         /\ \A i \in JobIds : job'[i].status # "absent" => job'[i].code \in Codes
         /\ \A i \in JobIds : job'[i].code = job[i].code
BY DEF DeepDiveTyped, TypeOK, RowsExist

LEMMA ClientTyped ==
  ASSUME DeepDiveTyped, NEW c \in Clients, NEW k \in Codes, EnqueueCheck(c, k) \/ EnqueueInsert(c)
  PROVE  DeepDiveTyped'
<1>0. TypeOK /\ RowsExist
  BY DEF DeepDiveTyped
<1>1. CASE EnqueueCheck(c, k)
  BY <1>0, <1>1 DEF EnqueueCheck, DeepDiveTyped, TypeOK, RowsExist
<1>2. CASE EnqueueInsert(c)
  <2> DEFINE n == issued + 1
             row == [NoRow EXCEPT !.code = request[c], !.status = "pending"]
  <2>1. /\ n \in JobIds /\ request[c] \in Codes /\ issued' = n
        /\ job' = [job EXCEPT ![n] = row] /\ request' = [request EXCEPT ![c] = NoCode]
        /\ UNCHANGED <<report, backlog, run, llm, faults>>
    BY <1>0, <1>2 DEF EnqueueInsert, TypeOK
  <2>2. row \in JobRow /\ row.status = "pending" /\ row.code = request[c]
    <3>1. NoRow \in JobRow
      BY DEF NoRow, JobRow
    <3> QED BY <2>1, <3>1 DEF JobRow
  <2> HIDE DEF row
  <2>3. TypeOK'
    BY <1>0, <2>1, <2>2 DEF TypeOK
  <2>4. job'[n] = row /\ \A j \in JobIds \ {n} : job'[j] = job[j]
    BY <1>0, <2>1 DEF TypeOK
  <2>5. \A j \in JobIds : job'[j].status = "absent" <=> j > issued'
    BY <1>0, <2>1, <2>2, <2>4 DEF TypeOK, RowsExist
  <2>6. \A i \in DOMAIN backlog : backlog[i] \in Int /\ backlog[i] <= issued'
    BY <1>0, <2>1 DEF TypeOK, RowsExist
  <2>7. run.at # "idle" => run.job # n /\ run.job <= issued'
    BY <1>0, <2>1 DEF TypeOK, RowsExist
  <2> QED BY <1>0, <2>1, <2>2, <2>3, <2>4, <2>5, <2>6, <2>7 DEF DeepDiveTyped, RowsExist
<1> QED BY <1>1, <1>2

\* The row the input is given to waits for it.
LEMMA HitlTyped ==
  ASSUME DeepDiveTyped, NEW k \in Codes, NEW input \in {"blank", "text"}, SubmitHitl(k, input)
  PROVE  DeepDiveTyped'
<1>0. TypeOK /\ RowsExist
  BY DEF DeepDiveTyped
<1> DEFINE j == Latest(Paused(k))
          row == [job[j] EXCEPT !.input = input, !.asks = FALSE, !.status = "pending"]
<1>1. j \in Paused(k)
  BY LatestIsMember DEF SubmitHitl, Paused
<1>2. j \in JobIds /\ job[j].status = "paused" /\ job[j] \in JobRow
  BY <1>0, <1>1 DEF Paused, TypeOK
<1>3. row \in JobRow /\ row.status = "pending" /\ row.code = job[j].code
  BY <1>2 DEF JobRow
<1>4. /\ job'[j] = row /\ \A i \in JobIds \ {j} : job'[i] = job[i]
      /\ job' = [i \in JobIds |-> job'[i]]
      /\ UNCHANGED <<issued, report, request, backlog, run, llm, faults>>
  BY <1>0, <1>2 DEF SubmitHitl, TypeOK
<1> HIDE DEF j, row
<1>5. /\ job' \in [JobIds -> JobRow]
      /\ \A i \in JobIds : job'[i].status = "absent" <=> i > issued'
      /\ \A i \in JobIds : job'[i].status # "absent" => job'[i].code \in Codes
      /\ \A i \in JobIds : job'[i].code = job[i].code
  BY <1>2, <1>3, <1>4, RowRewritten
<1> QED BY <1>0, <1>4, <1>5 DEF DeepDiveTyped, TypeOK, RowsExist

LEMMA PollTyped ==
  ASSUME DeepDiveTyped, PollPending \/ PollReclaim \/ \E j \in JobIds : Age(j)
  PROVE  DeepDiveTyped'
<1>0. TypeOK /\ RowsExist
  BY DEF DeepDiveTyped
<1>1. CASE PollPending
  <2>1. PICK j \in WithStatus("pending") : j = Oldest(WithStatus("pending"))
    BY <1>1, OldestIsMember DEF PollPending, WithStatus
  <2>5. j \in JobIds /\ job[j].status = "pending" /\ backlog' = Append(backlog, j)
    BY <1>1, <2>1 DEF PollPending, WithStatus
  <2>6. issued \in Nat /\ (job[j].status = "absent" <=> j > issued)
    BY <1>0, <2>5 DEF RowsExist, TypeOK
  <2>2. j \in JobIds /\ j <= issued /\ backlog' = Append(backlog, j)
    BY <2>5, <2>6
  <2>3. backlog' \in Seq(JobIds) /\ \A i \in DOMAIN backlog' : backlog'[i] <= issued
    BY <1>0, <2>2 DEF TypeOK, RowsExist
  <2> QED BY <1>0, <1>1, <2>3 DEF PollPending, DeepDiveTyped, TypeOK, RowsExist
<1>2. CASE PollReclaim
  <2>1. PICK j \in Stale : j = Oldest(Stale)
    BY <1>2, OldestIsMember DEF PollReclaim, Stale, WithStatus
  <2> DEFINE row == [job[j] EXCEPT !.status = "pending", !.stale = FALSE]
  <2>2. j \in JobIds /\ j <= issued /\ job[j].status = "running" /\ job[j] \in JobRow
    BY <1>0, <2>1 DEF Stale, WithStatus, RowsExist, TypeOK
  <2>3. row \in JobRow /\ row.status = "pending" /\ row.code = job[j].code
    BY <2>2 DEF JobRow
  <2>4. /\ job'[j] = row /\ \A i \in JobIds \ {j} : job'[i] = job[i]
        /\ job' = [i \in JobIds |-> job'[i]] /\ backlog' = Append(backlog, j)
        /\ UNCHANGED <<issued, report, request, run, llm, faults>>
    BY <1>0, <1>2, <2>1, <2>2 DEF PollReclaim, TypeOK
  <2> HIDE DEF row
  <2>5. /\ job' \in [JobIds -> JobRow]
        /\ \A i \in JobIds : job'[i].status = "absent" <=> i > issued'
        /\ \A i \in JobIds : job'[i].status # "absent" => job'[i].code \in Codes
        /\ \A i \in JobIds : job'[i].code = job[i].code
    BY <2>2, <2>3, <2>4, RowRewritten
  <2>6. backlog' \in Seq(JobIds) /\ \A i \in DOMAIN backlog' : backlog'[i] <= issued
    BY <1>0, <2>2, <2>4 DEF TypeOK, RowsExist
  <2> QED BY <1>0, <2>4, <2>5, <2>6 DEF DeepDiveTyped, TypeOK, RowsExist
<1>3. CASE \E j \in JobIds : Age(j)
  <2>1. PICK j \in JobIds : Age(j)
    BY <1>3
  <2> DEFINE row == [job[j] EXCEPT !.stale = TRUE]
  <2>2. job[j].status = "running" /\ job[j] \in JobRow
    BY <1>0, <2>1 DEF Age, TypeOK
  <2>3. row \in JobRow /\ row.status = "running" /\ row.code = job[j].code
    BY <2>2 DEF JobRow
  <2>4. /\ job'[j] = row /\ \A i \in JobIds \ {j} : job'[i] = job[i]
        /\ job' = [i \in JobIds |-> job'[i]]
        /\ UNCHANGED <<issued, report, request, backlog, run, llm, faults>>
    BY <1>0, <2>1, <2>2 DEF Age, TypeOK
  <2> HIDE DEF row
  <2>5. /\ job' \in [JobIds -> JobRow]
        /\ \A i \in JobIds : job'[i].status = "absent" <=> i > issued'
        /\ \A i \in JobIds : job'[i].status # "absent" => job'[i].code \in Codes
        /\ \A i \in JobIds : job'[i].code = job[i].code
    BY <2>2, <2>3, <2>4, RowRewritten
  <2> QED BY <1>0, <2>4, <2>5 DEF DeepDiveTyped, TypeOK, RowsExist
<1> QED BY <1>1, <1>2, <1>3

\* A run rewrites its own row and goes on, or is over.
LEMMA RunMoves ==
  ASSUME DeepDiveTyped, run.at # "idle", NEW row \in JobRow,
         row.code = job[run.job].code, row.status # "absent",
         job'[run.job] = row, \A i \in JobIds \ {run.job} : job'[i] = job[i],
         job' = [i \in JobIds |-> job'[i]],
         run' \in RunState, run'.at # "idle" => run'.job = run.job /\ run'.loaded.code = Code,
         report' \in [Codes -> ReportRow], faults' \in 0..MaxFaults,
         UNCHANGED <<issued, request, backlog, llm>>
  PROVE  DeepDiveTyped'
<1>1. TypeOK /\ RowsExist
  BY DEF DeepDiveTyped
<1>2. run.job \in JobIds /\ run.job <= issued /\ Code = job[run.job].code /\ job[run.job].status # "absent"
  BY <1>1, RunOfStock DEF RowsExist, Code, TypeOK
<1>3. /\ job' \in [JobIds -> JobRow]
      /\ \A i \in JobIds : job'[i].status = "absent" <=> i > issued'
      /\ \A i \in JobIds : job'[i].status # "absent" => job'[i].code \in Codes
      /\ \A i \in JobIds : job'[i].code = job[i].code
  BY <1>2, RowRewritten
<1>4. run'.at # "idle" => /\ run'.job \in JobIds /\ run'.job <= issued'
                          /\ run'.loaded.code = job'[run'.job].code
  BY <1>2, <1>3
<1> QED BY <1>1, <1>3, <1>4 DEF DeepDiveTyped, TypeOK, RowsExist

LEMMA RunTyped ==
  ASSUME DeepDiveTyped, Run \/ RunReload \/ Crash
  PROVE  DeepDiveTyped'
<1>0. TypeOK /\ RowsExist /\ run \in RunState /\ report \in [Codes -> ReportRow] /\ job \in [JobIds -> JobRow]
      /\ faults \in 0..MaxFaults
  BY DEF DeepDiveTyped, TypeOK
<1>1. IdleRun \in RunState /\ IdleRun.at = "idle" /\ EmptyReport \in ReportRow
  BY DEF IdleRun, RunState, NoRow, JobRow, NoJob, EmptyReport, ReportRow, Results
<1> USE <1>0, <1>1
<1> DEFINE old == job[run.job]
<1>2. CASE RunLoad
  <2>1. /\ Head(backlog) \in JobIds /\ Head(backlog) <= issued /\ Tail(backlog) \in Seq(JobIds)
        /\ \A i \in DOMAIN Tail(backlog) : Tail(backlog)[i] <= issued
    BY <1>2, SMTT(30) DEF RunLoad, TypeOK, RowsExist
  <2>2. /\ run' \in RunState /\ run'.job = Head(backlog) /\ run'.loaded = job[Head(backlog)]
    BY <1>2, <2>1 DEF RunLoad, RunState
  <2> QED BY <1>2, <2>1, <2>2 DEF RunLoad, DeepDiveTyped, TypeOK, RowsExist
<1>3. CASE Crash
  <2>1. /\ backlog' = <<>> /\ run'.at = "idle" /\ run' \in RunState /\ faults' \in 0..MaxFaults
        /\ UNCHANGED <<issued, job, report, request>> /\ llm' \in BOOLEAN
    BY <1>3 DEF Crash
  <2> QED BY <2>1 DEF DeepDiveTyped, TypeOK, RowsExist
<1>4. ASSUME run.at # "idle", UNCHANGED <<issued, request, backlog, llm>>,
             NEW row \in JobRow, row.code = old.code, row.status # "absent",
             job' = [job EXCEPT ![run.job] = row],
             run' \in RunState, run'.at # "idle" => run'.job = run.job /\ run'.loaded.code = Code,
             report' \in [Codes -> ReportRow], faults' \in 0..MaxFaults
      PROVE  DeepDiveTyped'
  <2>1. /\ job'[run.job] = row /\ \A i \in JobIds \ {run.job} : job'[i] = job[i]
        /\ job' = [i \in JobIds |-> job'[i]]
    BY <1>4, RunOfStock
  <2> QED BY <1>4, <2>1, RunMoves
<1>5. ASSUME run.at # "idle" PROVE old \in JobRow /\ old.status # "absent" /\ Code \in Codes
  BY <1>5, RunOfStock
<1>6. ASSUME run.at # "idle", UNCHANGED <<issued, request, backlog, llm>>, UNCHANGED job,
             run' \in RunState, run'.at # "idle" => run'.job = run.job /\ run'.loaded.code = Code,
             report' \in [Codes -> ReportRow], faults' \in 0..MaxFaults
      PROVE  DeepDiveTyped'
  <2>1. job' = [job EXCEPT ![run.job] = old]
    BY <1>6, RunOfStock
  <2>2. old \in JobRow /\ old.status # "absent"
    BY <1>5, <1>6
  <2> HIDE DEF old
  <2> QED BY <1>4, <1>6, <2>1, <2>2
<1>7. CASE RunUnconfigured \/ RunFails
  <2> DEFINE row == [old EXCEPT !.status = "failed"]
  <2>1. run.at # "idle" /\ run' = IdleRun /\ UNCHANGED <<issued, report, request, backlog, llm, faults>>
    BY <1>7 DEF RunUnconfigured, RunFails, Ends
  <2>2. row \in JobRow /\ row.code = old.code /\ row.status # "absent"
    BY <1>5, <2>1 DEF JobRow
  <2>3. job' = [job EXCEPT ![run.job] = row]
    BY <1>7 DEF RunUnconfigured, RunFails, Ends
  <2> HIDE DEF row
  <2> QED BY <1>4, <2>1, <2>2, <2>3
<1>8. ASSUME run.at = "loaded" PROVE \E row \in JobRow : /\ row.code = old.code /\ row.status # "absent"
                                                        /\ SetRunning(run.job) = [job EXCEPT ![run.job] = row]
  <2> DEFINE row == [old EXCEPT !.status = IF run.loaded.status = "running" THEN @ ELSE "running", !.stale = FALSE]
  <2>1. row \in JobRow /\ row.code = old.code /\ row.status # "absent"
    BY <1>5, <1>8 DEF JobRow
  <2>2. SetRunning(run.job) = [job EXCEPT ![run.job] = row]
    BY <1>5, <1>8 DEF SetRunning
  <2> QED BY <2>1, <2>2
<1>9. CASE RunAborts
  <2>1. /\ run.at = "loaded" /\ run' = IdleRun /\ UNCHANGED <<issued, report, request, backlog, llm>>
        /\ faults' \in 0..MaxFaults /\ (UNCHANGED job \/ job' = SetRunning(run.job))
    BY <1>9 DEF RunAborts
  <2>2. run.at # "idle" /\ run'.at = "idle" /\ run' \in RunState /\ report' \in [Codes -> ReportRow]
    BY <2>1
  <2>4. CASE UNCHANGED job
    BY <1>6, <2>1, <2>2, <2>4
  <2>3. CASE job' = SetRunning(run.job)
    <3>1. PICK row \in JobRow : /\ row.code = old.code /\ row.status # "absent"
                                /\ SetRunning(run.job) = [job EXCEPT ![run.job] = row]
      BY <1>8, <2>1
    <3> HIDE DEF old
    <3> QED BY <1>4, <2>1, <2>2, <2>3, <3>1
  <2> QED BY <2>1, <2>3, <2>4
<1>10. CASE RunBegin
  <2>1. /\ run.at = "loaded" /\ job' = SetRunning(run.job)
        /\ UNCHANGED <<issued, request, backlog, llm, faults>>
    BY <1>10 DEF RunBegin
  <2>2. run' \in RunState /\ run'.job = run.job /\ run'.loaded.code = Code
    BY <1>10 DEF RunBegin, RunState, Code
  <2>3. report' \in [Codes -> ReportRow]
    BY <1>10, <1>5, <2>1 DEF RunBegin, ReportRow
  <2> QED BY <1>4, <1>8, <2>1, <2>2, <2>3
<1>11. CASE RunPause
  <2> DEFINE row == [old EXCEPT !.status = "paused", !.asks = IF run.loaded.asks THEN @ ELSE TRUE]
  <2>1. run.at # "idle" /\ run' = IdleRun /\ UNCHANGED <<issued, report, request, backlog, llm, faults>>
    BY <1>11 DEF RunPause, AtStage
  <2>2. row \in JobRow /\ row.code = old.code /\ row.status # "absent"
    BY <1>5, <2>1 DEF JobRow
  <2>3. job' = [job EXCEPT ![run.job] = row]
    BY <1>11, <1>5, <2>1 DEF RunPause
  <2> HIDE DEF row
  <2> QED BY <1>4, <2>1, <2>2, <2>3
<1>12. CASE RunVerify
  <2>1. /\ run.at # "idle" /\ run' = run /\ UNCHANGED <<issued, job, request, backlog, llm, faults>>
    BY <1>12 DEF RunVerify, NeedsVerdicts, AtStage
  <2>2. report' \in [Codes -> ReportRow]
    BY <1>12, <1>5, <2>1, RunOfStock DEF RunVerify, ReportRow
  <2> QED BY <1>6, <2>1, <2>2, RunOfStock DEF Code
<1>13. ASSUME NEW s \in Stages, RunReuse(s) PROVE DeepDiveTyped'
  <2>1. /\ run.at # "idle" /\ UNCHANGED <<issued, job, report, request, backlog, llm, faults>>
    BY <1>13 DEF RunReuse, MayTake, AtStage
  <2>2. s + 1 \in 1..(MaxStage + 1)
    BY DEF Stages
  <2>3. run' \in RunState /\ run'.job = run.job /\ run'.loaded.code = Code
    BY <1>13, <2>2 DEF RunReuse, RunState, Code
  <2> QED BY <1>6, <2>1, <2>3
<1>14. ASSUME NEW s \in Stages, RunStage(s) PROVE DeepDiveTyped'
  <2> DEFINE row == [old EXCEPT !.stage = s]
  <2>1. /\ run.at # "idle" /\ UNCHANGED <<issued, request, backlog, llm, faults>>
    BY <1>14 DEF RunStage, MayTake, AtStage
  <2>2. row \in JobRow /\ row.code = old.code /\ row.status # "absent"
    <3>1. s \in 0..MaxStage
      BY DEF Stages
    <3> QED BY <1>5, <2>1, <3>1 DEF JobRow
  <2>3. job' = [job EXCEPT ![run.job] = row]
    BY <1>14, <1>5, <2>1 DEF RunStage
  <2>4. run' \in RunState /\ run'.job = run.job /\ run'.loaded.code = Code
    <3>1. s + 1 \in 1..(MaxStage + 1)
      BY DEF Stages
    <3> QED BY <1>14, <3>1 DEF RunStage, RunState, Code
  <2>5. report' \in [Codes -> ReportRow]
    BY <1>14, <1>5, <2>1 DEF RunStage, ReportRow, Results
  <2> HIDE DEF row
  <2> QED BY <1>4, <2>1, <2>2, <2>3, <2>4, <2>5
<1>15. ASSUME NEW s \in Stages, RunStageBad(s) PROVE DeepDiveTyped'
  <2>1. /\ run.at # "idle" /\ UNCHANGED <<issued, job, request, backlog, llm, faults>>
    BY <1>15 DEF RunStageBad, MayTake, AtStage
  <2>2. run' \in RunState /\ run'.job = run.job /\ run'.loaded.code = Code
    BY <1>15 DEF RunStageBad, RunState, Code
  <2>3. report' \in [Codes -> ReportRow]
    BY <1>15, <1>5, <2>1 DEF RunStageBad, ReportRow, Results
  <2> QED BY <1>6, <2>1, <2>2, <2>3
<1>16. ASSUME run.at # "idle" PROVE Finalized \in [Codes -> ReportRow]
  BY <1>5, <1>16 DEF Finalized, ReportRow
<1>17. CASE RunPublish
  <2>1. /\ run.at # "idle" /\ report' = Finalized /\ UNCHANGED <<issued, job, request, backlog, llm, faults>>
    BY <1>17 DEF RunPublish, AtStage
  <2>2. run' \in RunState /\ run'.job = run.job /\ run'.loaded.code = Code
    BY <1>17 DEF RunPublish, RunState, Code
  <2> QED BY <1>6, <1>16, <2>1, <2>2
<1>18. CASE RunDone
  <2> DEFINE row == [old EXCEPT !.status = "done", !.stage = MaxStage]
  <2>1. /\ run.at # "idle" /\ report' = Finalized /\ run' = IdleRun
        /\ UNCHANGED <<issued, request, backlog, llm, faults>>
    BY <1>18 DEF RunDone, AtStage
  <2>2. row \in JobRow /\ row.code = old.code /\ row.status # "absent"
    <3>1. MaxStage \in 0..MaxStage
      OBVIOUS
    <3> QED BY <1>5, <2>1, <3>1 DEF JobRow
  <2>3. job' = [job EXCEPT ![run.job] = row]
    BY <1>18, <1>5, <2>1 DEF RunDone
  <2> HIDE DEF row
  <2> QED BY <1>4, <1>16, <2>1, <2>2, <2>3
<1>19. CASE RunReload
  <2>1. /\ run.at # "idle" /\ UNCHANGED <<issued, job, report, request, backlog, llm, faults>>
    BY <1>19 DEF RunReload
  <2>2. [old EXCEPT !.stage = run.loaded.stage] \in JobRow
    BY <1>5, <2>1 DEF RunState, JobRow
  <2>3. run' \in RunState /\ run'.job = run.job /\ run'.loaded.code = old.code
    <3> DEFINE again == [old EXCEPT !.stage = run.loaded.stage]
    <3>1. again.code = old.code
      BY <1>5, <2>1 DEF JobRow
    <3>2. run' = [run EXCEPT !.loaded = again]
      BY <1>19 DEF RunReload
    <3> HIDE DEF again, old
    <3> QED BY <2>2, <3>1, <3>2 DEF RunState, again
  <2>4. old.code = Code
    BY <2>1 DEF RowsExist, Code
  <2> QED BY <1>6, <2>1, <2>3, <2>4
<1> QED BY <1>2, <1>3, <1>7, <1>9, <1>10, <1>11, <1>12, <1>13, <1>14, <1>15, <1>17, <1>18, <1>19
        DEF Run, Take

LEMMA NextDeepDiveTyped == DeepDiveTyped /\ [Next]_vars => DeepDiveTyped'
<1> SUFFICES ASSUME DeepDiveTyped, [Next]_vars PROVE DeepDiveTyped'
  OBVIOUS
<1>1. CASE \E c \in Clients, k \in Codes : EnqueueCheck(c, k)
  BY <1>1, ClientTyped
<1>2. CASE \E c \in Clients : EnqueueInsert(c)
  <2>1. PICK c \in Clients : EnqueueInsert(c)
    BY <1>2
  <2>2. request[c] \in Codes
    BY <2>1 DEF EnqueueInsert, DeepDiveTyped, TypeOK
  <2> QED BY <2>1, <2>2, ClientTyped
<1>3. CASE \E k \in Codes, input \in {"blank", "text"} : SubmitHitl(k, input)
  BY <1>3, HitlTyped
<1>4. CASE PollPending \/ PollReclaim \/ \E j \in JobIds : Age(j)
  BY <1>4, PollTyped
<1>5. CASE Run \/ RunReload \/ Crash
  BY <1>5, RunTyped
<1>6. CASE UNCHANGED vars
  BY <1>6 DEF vars, DeepDiveTyped, TypeOK, RowsExist
<1> QED BY <1>1, <1>2, <1>3, <1>4, <1>5, <1>6 DEF Next
-------------------------------------------------------------------------------
(***************************************************************************)
(* A published report is complete.                                         *)
(***************************************************************************)
ReportInv == RunIsBacked /\ PublishedIsComplete

LEMMA InitReportInv == Init => ReportInv
BY DEF Init, ReportInv, RunIsBacked, PublishedIsComplete, IdleRun, EmptyReport

\* A step that writes no report and leaves the run, or ends it, or loads another.
LEMMA NoReportWritten ==
  ASSUME ReportInv, UNCHANGED report, run' = run \/ run'.at = "idle" \/ (run'.at = "loaded" /\ run'.stage = 1)
  PROVE  ReportInv'
BY DEF ReportInv, RunIsBacked, PublishedIsComplete, Code

LEMMA RunReportInv ==
  ASSUME DeepDiveTyped, ReportInv, Run \/ RunReload \/ Crash
  PROVE  ReportInv'
<1>0. /\ report \in [Codes -> ReportRow] /\ run \in RunState
      /\ \A k \in Codes : report[k].result \in [Stages -> Results] /\ report[k] \in ReportRow
  BY DEF DeepDiveTyped, TypeOK, ReportRow
<1>1. ASSUME run.at # "idle" PROVE Code \in Codes /\ run.stage \in Nat
  BY <1>1, RunOfStock
<1>2. CASE RunLoad \/ RunUnconfigured \/ RunAborts \/ RunPause \/ RunFails \/ Crash
  <2>1. UNCHANGED report /\ (run'.at = "idle" \/ (run'.at = "loaded" /\ run'.stage = 1))
    <3>1. IdleRun \in RunState /\ IdleRun.at = "idle" /\ IdleRun.stage = 1
      BY DEF IdleRun, RunState, NoRow, JobRow, NoJob
    <3>2. RunLoad => run'.at = "loaded" /\ run'.stage = 1
      BY <3>1 DEF RunLoad, RunState
    <3> QED BY <1>2, <3>1, <3>2 DEF RunLoad, RunUnconfigured, RunAborts, RunPause, RunFails, Crash, Ends
  <2> QED BY <2>1, NoReportWritten
<1>3. CASE RunBegin
  <2>1. /\ run.at = "loaded" /\ run.stage = 1 /\ run'.at = "stages" /\ run'.stage = 1 /\ run'.loaded = run.loaded
        /\ ~report'[Code].published /\ \A k \in Codes \ {Code} : report'[k] = report[k]
    BY <1>0, <1>1, <1>3 DEF RunBegin, EmptyReport, ReportInv, RunIsBacked, RunState, ReportRow
  <2> QED BY <1>1, <2>1 DEF ReportInv, RunIsBacked, PublishedIsComplete, Code, Stages
<1>4. CASE RunVerify
  <2>1. /\ UNCHANGED run
        /\ \A k \in Codes : report'[k].published = report[k].published /\ report'[k].result = report[k].result
        /\ run.at # "idle"
    BY <1>0, <1>4 DEF RunVerify, NeedsVerdicts, AtStage, ReportRow
  <2> QED BY <1>1, <2>1 DEF ReportInv, RunIsBacked, PublishedIsComplete, Code
<1>5. ASSUME NEW s \in Stages, RunReuse(s) PROVE ReportInv'
  <2>1. /\ run.at = "stages" /\ run.stage = s /\ report[Code].result[s] = "ok"
        /\ run'.at = "stages" /\ run'.stage = s + 1 /\ run'.loaded = run.loaded /\ UNCHANGED report
    BY <1>0, <1>5 DEF RunReuse, MayTake, AtStage, Reusable, RunState
  <2>2. \A i \in Stages : i < s + 1 => i < s \/ i = s
    BY DEF Stages
  <2> QED BY <1>1, <2>1, <2>2 DEF ReportInv, RunIsBacked, PublishedIsComplete, Code
<1>6. ASSUME NEW s \in Stages, RunStage(s) PROVE ReportInv'
  <2>1. /\ run.at = "stages" /\ run.stage = s /\ Code \in Codes
        /\ run'.at = "stages" /\ run'.stage = s + 1 /\ run'.loaded = run.loaded
    BY <1>0, <1>1, <1>6 DEF RunStage, MayTake, AtStage, RunState
  <2>2. /\ report'[Code].result[s] = "ok" /\ report'[Code].published = report[Code].published
        /\ \A i \in Stages \ {s} : report'[Code].result[i] = report[Code].result[i]
        /\ \A k \in Codes \ {Code} : report'[k] = report[k]
    BY <1>0, <1>6, <2>1 DEF RunStage, ReportRow
  <2>3. \A i \in Stages : i < s + 1 => i < s \/ i = s
    BY DEF Stages
  <2> QED BY <2>1, <2>2, <2>3 DEF ReportInv, RunIsBacked, PublishedIsComplete, Code
<1>7. ASSUME NEW s \in Stages, RunStageBad(s) PROVE ReportInv'
  <2>1. /\ run.at = "stages" /\ Code \in Codes /\ run'.at = "failing" /\ run'.loaded = run.loaded
    BY <1>0, <1>1, <1>7 DEF RunStageBad, MayTake, AtStage, RunState
  <2>2. /\ report'[Code].published = report[Code].published
        /\ \A k \in Codes \ {Code} : report'[k] = report[k]
    BY <1>0, <1>7, <2>1 DEF RunStageBad, ReportRow
  <2> QED BY <2>1, <2>2 DEF ReportInv, RunIsBacked, PublishedIsComplete, Code
<1>8. CASE RunPublish \/ RunDone
  <2>1. /\ AtStage(MaxStage + 1) \/ run.at = "closing"
        /\ report' = Finalized /\ Code \in Codes
        /\ run'.at = "idle" \/ (run'.at = "closing" /\ run'.loaded = run.loaded)
    BY <1>0, <1>1, <1>8 DEF RunPublish, RunDone, AtStage, RunState, IdleRun
  <2>2. \A s \in Stages : report[Code].result[s] = "ok"
    BY <2>1 DEF AtStage, Stages, ReportInv, RunIsBacked
  <2>3. \A k \in Codes : report'[k].result = report[k].result /\ (k # Code => report'[k] = report[k])
    BY <1>0, <2>1 DEF Finalized, ReportRow
  <2> QED BY <2>1, <2>2, <2>3 DEF ReportInv, RunIsBacked, PublishedIsComplete, Code
<1>9. CASE RunReload
  <2>1. /\ run.at = "stages" /\ UNCHANGED report /\ run'.at = "stages" /\ run'.stage = run.stage
        /\ run'.loaded.code = job[run.job].code
    BY <1>0, <1>9, RunOfStock DEF RunReload, RunState, JobRow
  <2>2. run'.loaded.code = Code
    BY <2>1, RunOfStock DEF Code
  <2> QED BY <2>1, <2>2 DEF ReportInv, RunIsBacked, PublishedIsComplete, Code
<1> QED BY <1>2, <1>3, <1>4, <1>5, <1>6, <1>7, <1>8, <1>9 DEF Run, Take

LEMMA NextReportInv == DeepDiveTyped /\ ReportInv /\ [Next]_vars => ReportInv'
<1> SUFFICES ASSUME DeepDiveTyped, ReportInv, [Next]_vars PROVE ReportInv'
  OBVIOUS
<1>1. CASE Run \/ RunReload \/ Crash
  BY <1>1, RunReportInv
<1>2. CASE UNCHANGED <<report, run>>
  BY <1>2, NoReportWritten
<1> QED BY <1>1, <1>2, Zenon DEF Next, EnqueueCheck, EnqueueInsert, SubmitHitl, PollPending, PollReclaim, Age, vars

\* A published report has every stage and no error marker, for every number of
\* stages, rows, clients, deaths and however long a run takes.
THEOREM PublishedReportIsComplete == Spec => []PublishedIsComplete
<1>1. Init => DeepDiveTyped /\ ReportInv
  BY InitDeepDiveTyped, InitReportInv
<1>2. DeepDiveTyped /\ ReportInv /\ [Next]_vars => (DeepDiveTyped /\ ReportInv)'
  BY NextDeepDiveTyped, NextReportInv
<1>3. ReportInv => PublishedIsComplete
  BY DEF ReportInv
<1> QED BY <1>1, <1>2, <1>3, PTL DEF Spec

-------------------------------------------------------------------------------
(***************************************************************************)
(* What the only row of a code counts is backed by the report.  While its  *)
(* run takes over the stages it resumed from the count stays, then it      *)
(* follows the stage; the report is emptied only when the count is 0.      *)
(***************************************************************************)
CountInv == RunIsCounted /\ OnlyIsBacked

LEMMA InitCountInv == Init => CountInv
BY DEF Init, CountInv, RunIsCounted, OnlyIsBacked, OnlyRow, IdleRun, NoRow

\* Rows stay and keep their codes.
CodesStay ==
  \A j \in JobIds : job[j].status # "absent" => job'[j].status # "absent" /\ job'[j].code = job[j].code

LEMMA NextCodesStay ==
  ASSUME DeepDiveTyped, DeepDiveTyped', [Next]_vars
  PROVE  CodesStay
<1>1. /\ \A j \in JobIds : job[j].status = "absent" <=> j > issued
      /\ \A j \in JobIds : job'[j].status = "absent" <=> j > issued'
      /\ issued \in Nat /\ job \in [JobIds -> JobRow]
  <2>1. RowsExist /\ RowsExist' /\ TypeOK
    BY DEF DeepDiveTyped
  <2>2. issued \in Nat /\ job \in [JobIds -> JobRow]
    BY <2>1 DEF TypeOK
  <2>3. \A j \in JobIds : job[j].status = "absent" <=> j > issued
    BY <2>1 DEF RowsExist
  <2>4. \A j \in JobIds : job'[j].status = "absent" <=> j > issued'
    BY <2>1 DEF RowsExist
  <2> QED BY <2>2, <2>3, <2>4
<1>2. issued' = issued \/ issued' = issued + 1
  BY Zenon DEF Next, EnqueueCheck, EnqueueInsert, SubmitHitl, PollPending, PollReclaim, Age, vars, Run, Take, RunLoad,
         RunUnconfigured, RunAborts, RunBegin, RunPause, RunVerify, RunReuse, RunStage, RunStageBad, RunFails,
         RunPublish, RunDone, RunReload, Crash
<1>3. \A j \in JobIds : j <= issued => job'[j].code = job[j].code
  <2>1. CASE \E c \in Clients : EnqueueInsert(c)
    BY <1>1, <2>1 DEF EnqueueInsert
  <2>2. CASE \E k \in Codes, input \in {"blank", "text"} : SubmitHitl(k, input)
    BY <1>1, <2>2 DEF SubmitHitl, JobRow
  <2>3. CASE PollReclaim
    BY <1>1, <2>3 DEF PollReclaim, JobRow
  <2>6. ASSUME NEW j \in JobIds, Age(j) PROVE \A i \in JobIds : job'[i].code = job[i].code
    BY <1>1, <2>6 DEF Age, JobRow
  <2>4. CASE RunUnconfigured \/ RunFails
    BY <1>1, <2>4 DEF RunUnconfigured, RunFails, Ends, JobRow
  <2>7. CASE job' = SetRunning(run.job)
    BY <1>1, <2>7 DEF SetRunning, JobRow
  <2>8. CASE RunPause
    BY <1>1, <2>8 DEF RunPause, JobRow
  <2>9. CASE RunDone
    BY <1>1, <2>9 DEF RunDone, JobRow
  <2>10. ASSUME NEW s \in Stages, RunStage(s) PROVE \A i \in JobIds : job'[i].code = job[i].code
    BY <1>1, <2>10 DEF RunStage, JobRow
  <2>5. CASE UNCHANGED job
    BY <2>5
  <2> QED
    BY <2>1, <2>2, <2>3, <2>4, <2>5, <2>6, <2>7, <2>8, <2>9, <2>10
       DEF Next, EnqueueCheck, PollPending, vars, Run, Take, RunLoad, RunAborts, RunBegin, RunVerify,
           RunReuse, RunStageBad, RunPublish, RunReload, Crash
<1>4. \A j \in JobIds : ~(j > issued) => j <= issued /\ ~(j > issued')
  BY <1>1, <1>2
<1>5. \A j \in JobIds : job[j].status # "absent" => job'[j].status # "absent"
  BY <1>1, <1>4
<1> QED BY <1>1, <1>3, <1>4, <1>5 DEF CodesStay

LEMMA OnlyWasOnly ==
  ASSUME DeepDiveTyped, CodesStay, NEW j \in JobIds, job[j].status # "absent", OnlyRow(j)'
  PROVE  OnlyRow(j)
BY DEF CodesStay, OnlyRow

\* The requests and the polls: the run and the reports stay, no row becomes done.
LEMMA OthersCountInv ==
  ASSUME DeepDiveTyped, DeepDiveTyped', CodesStay, CountInv, UNCHANGED <<report, run>>,
         \A j \in JobIds : job[j].status # "absent" =>
           job'[j].stage = job[j].stage /\ (job'[j].status = "done" => job[j].status = "done"),
         \A j \in JobIds : job[j].status = "absent" /\ job'[j].status # "absent" =>
           job'[j].stage = 0 /\ job'[j].status # "done"
  PROVE  CountInv'
<1>1. RunIsCounted'
  <2>1. CASE run.at = "idle"
    BY <2>1 DEF CountInv, RunIsCounted
  <2>2. CASE run.at # "idle" /\ OnlyRow(run.job)'
    <3>1. run.job \in JobIds /\ job[run.job].status # "absent" /\ OnlyRow(run.job)
      BY <2>2, RunOfStock, OnlyWasOnly
    <3>2. job'[run.job].stage = job[run.job].stage /\ (job'[run.job].status = "done" => job[run.job].status = "done")
      BY <3>1
    <3> QED BY <2>2, <3>1, <3>2 DEF CountInv, RunIsCounted, ResumeFrom, Code
  <2> QED BY <2>1, <2>2 DEF RunIsCounted
<1>2. OnlyIsBacked'
  <2> SUFFICES ASSUME NEW j \in JobIds, OnlyRow(j)' PROVE IsBacked(j)'
    BY DEF OnlyIsBacked
  <2>1. CASE job[j].status = "absent"
    <3>1. job'[j].stage = 0 /\ job'[j].status # "done"
      BY <2>1 DEF OnlyRow
    <3> QED BY <3>1 DEF IsBacked
  <2>2. CASE job[j].status # "absent"
    <3>1. OnlyRow(j) /\ IsBacked(j)
      BY <2>2, OnlyWasOnly DEF CountInv, OnlyIsBacked
    <3>2. job'[j].code = job[j].code
      BY <2>2 DEF CodesStay
    <3> QED BY <2>2, <3>1, <3>2 DEF IsBacked
  <2> QED BY <2>1, <2>2
<1> QED BY <1>1, <1>2 DEF CountInv

\* A run keeps its hands off the rows and the reports of other codes.
LEMMA RunOfOthers ==
  ASSUME DeepDiveTyped, CodesStay, CountInv, run.at # "idle",
         \A j \in JobIds \ {run.job} : job'[j] = job[j],
         \A k \in Codes \ {Code} : report'[k] = report[k],
         NEW j \in JobIds, j # run.job, OnlyRow(j)'
  PROVE  IsBacked(j)'
<1>1. job'[j] = job[j] /\ job[j].status # "absent"
  BY DEF OnlyRow
<1>2. OnlyRow(j) /\ IsBacked(j)
  BY <1>1, OnlyWasOnly DEF CountInv, OnlyIsBacked
<1>3. job[j].code # Code /\ job[j].code \in Codes
  BY <1>1, <1>2, RunOfStock DEF OnlyRow, DeepDiveTyped, RowsExist, Code
<1>4. job[j].status = "done" => report[job[j].code].published
  BY <1>2, <1>3 DEF IsBacked, Code
<1> QED BY <1>1, <1>2, <1>3, <1>4 DEF IsBacked

\* What a step of a run does to its own row r and report.
LEMMA RunCountInv ==
  ASSUME DeepDiveTyped, CodesStay, CountInv, run.at # "idle", NEW r \in JobIds, r = run.job,
         \A j \in JobIds \ {r} : job'[j] = job[j],
         \A k \in Codes \ {Code} : report'[k] = report[k],
         \/ run'.at = "idle" /\ run'.loaded.code = NoCode
         \/ run'.at # "idle" /\ run'.job = r /\ run'.loaded.code = Code,
         OnlyRow(r) /\ OnlyRow(r)' /\ IsBacked(r) => IsBacked(r)',
         run'.at # "idle" /\ OnlyRow(r) /\ OnlyRow(r)' /\ IsBacked(r) => RunIsCounted'
  PROVE  CountInv'
<1>1. job[r].status # "absent"
  BY RunOfStock
<1>2. OnlyRow(r)' => OnlyRow(r)
  BY <1>1, OnlyWasOnly
<1>3. OnlyRow(r) => IsBacked(r)
  BY DEF CountInv, OnlyIsBacked
<1>4. OnlyIsBacked'
  <2> SUFFICES ASSUME NEW j \in JobIds, OnlyRow(j)' PROVE IsBacked(j)'
    BY DEF OnlyIsBacked
  <2>1. CASE j = r
    BY <1>2, <1>3, <2>1
  <2>2. CASE j # r
    BY <2>2, RunOfOthers
  <2> QED BY <2>1, <2>2
<1>5. RunIsCounted'
  <2>1. CASE run'.at = "idle"
    BY <2>1 DEF RunIsCounted
  <2>2. CASE run'.at # "idle" /\ OnlyRow(r)'
    BY <1>2, <1>3, <2>2
  <2>3. CASE run'.at # "idle" /\ ~OnlyRow(r)'
    BY <2>3 DEF RunIsCounted
  <2> QED BY <2>1, <2>2, <2>3
<1> QED BY <1>4, <1>5 DEF CountInv

\* What a finished only row promises does not hang on the run.
LEMMA OnlyIsPublished ==
  ASSUME DeepDiveTyped, CountInv, NEW j \in JobIds, OnlyRow(j), job[j].status = "done"
  PROVE  report[job[j].code].published
<1>1. IsBacked(j) /\ job[j].code \in Codes
  BY DEF CountInv, OnlyIsBacked, OnlyRow, DeepDiveTyped, RowsExist
<1>2. CASE run.loaded.code = job[j].code
  <2>1. run.at # "idle"
    BY <1>1, <1>2 DEF CountInv, RunIsCounted
  <2>2. run.job \in JobIds /\ run.job = j /\ run.at \in {"loaded", "stages", "failing", "closing"}
    BY <1>2, <2>1, RunOfStock DEF OnlyRow, DeepDiveTyped, TypeOK, RunState
  <2> QED BY <1>2, <2>1, <2>2 DEF CountInv, RunIsCounted, Code
<1> QED BY <1>1, <1>2 DEF IsBacked

\* A run that is loaded, or gone: the rows and the reports stay.
LEMMA LoadCountInv ==
  ASSUME DeepDiveTyped, CountInv, RunLoad \/ Crash
  PROVE  CountInv'
<1>1. UNCHANGED <<job, report>>
  BY DEF RunLoad, Crash
<1>2. OnlyIsBacked'
  <2> SUFFICES ASSUME NEW j \in JobIds, OnlyRow(j)' PROVE IsBacked(j)'
    BY DEF OnlyIsBacked
  <2>1. OnlyRow(j) /\ IsBacked(j)
    BY <1>1 DEF OnlyRow, CountInv, OnlyIsBacked
  <2>2. job[j].status = "done" => report[job[j].code].published
    BY <2>1, OnlyIsPublished
  <2> QED BY <1>1, <2>1, <2>2 DEF IsBacked
<1>3. RunIsCounted'
  <2>1. IdleRun \in RunState /\ IdleRun.at = "idle" /\ IdleRun.loaded.code = NoCode
    BY DEF IdleRun, RunState, NoRow, JobRow, NoJob
  <2>2. CASE Crash
    BY <2>1, <2>2 DEF Crash, RunIsCounted
  <2>3. CASE RunLoad
    <3>1. PICK r \in JobIds : r = Head(backlog)
      BY <2>3 DEF RunLoad, DeepDiveTyped, TypeOK
    <3>2. run'.at = "loaded" /\ run'.job = r /\ run'.loaded = job[r]
      BY <2>1, <2>3, <3>1 DEF RunLoad, RunState
    <3>3. OnlyRow(r)' => OnlyRow(r)
      BY <1>1 DEF OnlyRow
    <3>4. OnlyRow(r) /\ job[r].status = "done" => report[job[r].code].published
      BY OnlyIsPublished
    <3> QED BY <1>1, <3>2, <3>3, <3>4 DEF RunIsCounted, ResumeFrom, Code
  <2> QED BY <2>2, <2>3
<1> QED BY <1>2, <1>3 DEF CountInv

\* A run that is over leaves its row as it was or does not call it done.
LEMMA EndCountInv ==
  ASSUME DeepDiveTyped, CodesStay, ReportInv, CountInv,
         RunUnconfigured \/ RunFails \/ RunPause \/ RunAborts \/ RunDone
  PROVE  CountInv'
<1>0. /\ run.at # "idle" /\ job \in [JobIds -> JobRow] /\ report \in [Codes -> ReportRow]
      /\ run' = IdleRun
  BY DEF RunUnconfigured, RunFails, RunPause, RunAborts, RunDone, Ends, AtStage, DeepDiveTyped, TypeOK
<1>1. PICK r \in JobIds : r = run.job
  BY <1>0, RunOfStock
<1>2. run'.at = "idle" /\ run'.loaded.code = NoCode
  BY <1>0 DEF IdleRun, NoRow
<1>3. job[r].code = Code /\ Code \in Codes /\ job[r] \in JobRow /\ run.stage \in Nat
  BY <1>0, <1>1, RunOfStock DEF Code
<1>4. ASSUME UNCHANGED report, job'[r].stage = job[r].stage, \A j \in JobIds \ {r} : job'[j] = job[j],
             OnlyRow(r) => job'[r].status # "done" \/ UNCHANGED job
      PROVE  CountInv'
  <2>1. job'[r].code = job[r].code
    BY <1>0, <1>1, RunOfStock DEF CodesStay
  <2>2. OnlyRow(r) /\ OnlyRow(r)' /\ IsBacked(r) => IsBacked(r)'
    <3> SUFFICES ASSUME OnlyRow(r), IsBacked(r) PROVE IsBacked(r)'
      OBVIOUS
    <3>1. job[r].status = "done" => report[job[r].code].published
      BY OnlyIsPublished
    <3>2. job'[r].status = "done" => report'[job'[r].code].published
      BY <1>4, <3>1
    <3> QED BY <1>4, <2>1, <3>2 DEF IsBacked
  <2> QED BY <1>0, <1>1, <1>2, <1>4, <2>2, RunCountInv
<1>5. CASE RunUnconfigured \/ RunFails
  <2>1. /\ UNCHANGED report /\ job'[r].stage = job[r].stage /\ job'[r].status = "failed"
        /\ \A j \in JobIds \ {r} : job'[j] = job[j]
    BY <1>0, <1>1, <1>3, <1>5, SMTT(30) DEF RunUnconfigured, RunFails, Ends, JobRow
  <2> QED BY <1>4, <2>1
<1>6. CASE RunPause
  <2>1. /\ UNCHANGED report /\ job'[r].stage = job[r].stage /\ job'[r].status = "paused"
        /\ \A j \in JobIds \ {r} : job'[j] = job[j]
    BY <1>0, <1>1, <1>3, <1>6 DEF RunPause, JobRow
  <2> QED BY <1>4, <2>1
<1>7. CASE RunAborts
  <2>1. CASE UNCHANGED job
    BY <1>4, <1>7, <2>1 DEF RunAborts
  <2>2. CASE job' = SetRunning(run.job)
    <3>1. /\ UNCHANGED report /\ job'[r].stage = job[r].stage /\ run.at = "loaded"
          /\ job'[r].status = IF run.loaded.status = "running" THEN job[r].status ELSE "running"
          /\ \A j \in JobIds \ {r} : job'[j] = job[j]
      BY <1>0, <1>1, <1>3, <1>7, <2>2 DEF RunAborts, SetRunning, JobRow
    <3>2. OnlyRow(r) => job'[r].status # "done"
      BY <1>1, <3>1 DEF CountInv, RunIsCounted
    <3> QED BY <1>4, <3>1, <3>2
  <2> QED BY <1>7, <2>1, <2>2 DEF RunAborts
<1>8. CASE RunDone
  <2>1. /\ report' = Finalized /\ (AtStage(MaxStage + 1) \/ run.at = "closing")
        /\ job'[r].status = "done" /\ job'[r].stage = MaxStage /\ job'[r].code = Code
        /\ \A j \in JobIds \ {r} : job'[j] = job[j]
    BY <1>0, <1>1, <1>3, <1>8 DEF RunDone, JobRow
  <2>2. /\ report'[Code].published /\ report'[Code].result = report[Code].result
        /\ \A k \in Codes \ {Code} : report'[k] = report[k]
    BY <1>0, <1>3, <1>8 DEF RunDone, Finalized, ReportRow
  <2>3. \A s \in 1..MaxStage : report[Code].result[s] = "ok"
    BY <1>8 DEF RunDone, AtStage, Stages, ReportInv, RunIsBacked
  <2>4. IsBacked(r)'
    BY <2>1, <2>2, <2>3 DEF IsBacked
  <2> QED BY <1>0, <1>1, <1>2, <2>1, <2>2, <2>4, RunCountInv
<1> QED BY <1>5, <1>6, <1>7, <1>8

\* A run that goes on.
LEMMA StageCountInv ==
  ASSUME DeepDiveTyped, CodesStay, ReportInv, CountInv,
         RunBegin \/ RunVerify \/ Take \/ RunPublish \/ RunReload
  PROVE  CountInv'
<1>0. /\ run.at # "idle" /\ job \in [JobIds -> JobRow] /\ report \in [Codes -> ReportRow] /\ run \in RunState
  BY DEF RunBegin, RunVerify, NeedsVerdicts, Take, RunReuse, RunStage, RunStageBad, MayTake, RunPublish, RunReload,
         AtStage, DeepDiveTyped, TypeOK
<1>1. PICK r \in JobIds : r = run.job
  BY <1>0, RunOfStock
<1>2. /\ job[r].code = Code /\ Code \in Codes /\ job[r] \in JobRow /\ run.stage \in Nat
      /\ job[r].stage \in Nat /\ ResumeFrom \in Nat /\ report[Code] \in ReportRow
  BY <1>0, <1>1, RunOfStock DEF Code, JobRow, ResumeFrom
<1>3. ASSUME run'.at # "idle", run'.job = r, run'.loaded.code = Code,
             \A j \in JobIds \ {r} : job'[j] = job[j],
             \A k \in Codes \ {Code} : report'[k] = report[k],
             OnlyRow(r) /\ IsBacked(r) => IsBacked(r)',
             OnlyRow(r) /\ IsBacked(r) => RunIsCounted'
      PROVE  CountInv'
  BY <1>0, <1>1, <1>3, RunCountInv
<1>4. CASE RunBegin
  <2>1. /\ run.at = "loaded" /\ run.stage = 1 /\ run'.at = "stages" /\ run'.stage = 1
        /\ run'.loaded = run.loaded /\ run'.job = r /\ run'.loaded.code = Code
    BY <1>0, <1>1, <1>4 DEF RunBegin, ReportInv, RunIsBacked, RunState, Code
  <2>2. /\ job'[r].stage = job[r].stage /\ job'[r].code = Code
        /\ job'[r].status = IF run.loaded.status = "running" THEN job[r].status ELSE "running"
        /\ \A j \in JobIds \ {r} : job'[j] = job[j]
    BY <1>0, <1>1, <1>2, <1>4 DEF RunBegin, SetRunning, JobRow
  <2>3. /\ ResumeFrom # 0 => report'[Code].result = report[Code].result
        /\ \A k \in Codes \ {Code} : report'[k] = report[k]
    BY <1>0, <1>2, <1>4 DEF RunBegin, ReportRow
  <2>4. ASSUME OnlyRow(r) PROVE ResumeFrom = job[r].stage /\ job'[r].status # "done"
    BY <1>1, <2>1, <2>2, <2>4 DEF CountInv, RunIsCounted
  <2>5. OnlyRow(r) /\ IsBacked(r) => IsBacked(r)'
    BY <1>2, <2>2, <2>3, <2>4 DEF IsBacked
  <2>6. OnlyRow(r) => RunIsCounted'
    BY <1>2, <2>1, <2>2, <2>4 DEF RunIsCounted, ResumeFrom
  <2> QED BY <1>3, <2>1, <2>2, <2>3, <2>5, <2>6
<1>5. CASE RunVerify
  <2>1. /\ UNCHANGED <<job, run>> /\ run.at = "stages"
        /\ \A k \in Codes : report'[k].published = report[k].published /\ report'[k].result = report[k].result
        /\ \A k \in Codes \ {Code} : report'[k] = report[k]
    BY <1>0, <1>5 DEF RunVerify, NeedsVerdicts, AtStage, ReportRow
  <2>2. IsBacked(r) => IsBacked(r)'
    BY <1>2, <2>1 DEF IsBacked
  <2>3. OnlyRow(r) => RunIsCounted'
    BY <1>1, <2>1 DEF CountInv, RunIsCounted, OnlyRow, ResumeFrom, Code
  <2> QED BY <1>1, <1>3, <2>1, <2>2, <2>3 DEF Code
<1>6. ASSUME NEW s \in Stages, MayTake(s), OnlyRow(r), IsBacked(r)
      PROVE  /\ ~Reusable(s) => ResumeFrom < s
             /\ job[r].stage = IF ResumeFrom < s THEN s - 1 ELSE ResumeFrom
             /\ job[r].status # "done" /\ s \in Nat /\ s >= 1
  <2>1. s \in Nat /\ s >= 1
    BY DEF Stages
  <2>2. job[r].stage = IF ResumeFrom < s THEN s - 1 ELSE ResumeFrom
    BY <1>0, <1>1, <1>6 DEF MayTake, AtStage, CountInv, RunIsCounted
  <2>3. job[r].status # "done"
    BY <1>0, <1>1, <1>6 DEF MayTake, AtStage, CountInv, RunIsCounted
  <2>4. s <= ResumeFrom => s \in 1..job[r].stage
    BY <1>2, <2>1, <2>2
  <2>5. s <= ResumeFrom => report[Code].result[s] = "ok"
    BY <1>2, <1>6, <2>4 DEF IsBacked
  <2> QED BY <1>2, <2>1, <2>2, <2>3, <2>5 DEF Reusable
<1>7. ASSUME NEW s \in Stages, RunReuse(s) PROVE CountInv'
  <2>1. /\ UNCHANGED <<job, report>> /\ run'.at = "stages" /\ run'.stage = s + 1 /\ run'.job = r
        /\ run'.loaded = run.loaded /\ run'.loaded.code = Code /\ s <= ResumeFrom /\ MayTake(s)
    BY <1>0, <1>1, <1>7 DEF RunReuse, MayTake, AtStage, Reusable, RunState, Code
  <2>2. IsBacked(r) /\ OnlyRow(r) => IsBacked(r)'
    BY <1>2, <2>1 DEF IsBacked, Code
  <2>3. OnlyRow(r) /\ IsBacked(r) => RunIsCounted'
    <3> SUFFICES ASSUME OnlyRow(r), IsBacked(r) PROVE RunIsCounted'
      OBVIOUS
    <3>1. s \in Nat /\ s >= 1 /\ job[r].stage = (IF ResumeFrom < s THEN s - 1 ELSE ResumeFrom) /\ job[r].status # "done"
      BY <1>6, <2>1
    <3>2. job[r].stage = IF ResumeFrom < s + 1 THEN (s + 1) - 1 ELSE ResumeFrom
      BY <1>2, <2>1, <3>1
    <3> QED BY <2>1, <3>1, <3>2 DEF RunIsCounted, ResumeFrom
  <2> QED BY <1>3, <2>1, <2>2, <2>3
<1>8. ASSUME NEW s \in Stages, RunStage(s) PROVE CountInv'
  <2>1. /\ run'.at = "stages" /\ run'.stage = s + 1 /\ run'.job = r
        /\ run'.loaded = run.loaded /\ run'.loaded.code = Code /\ MayTake(s) /\ ~Reusable(s)
    BY <1>0, <1>1, <1>8 DEF RunStage, MayTake, AtStage, RunState, Code
  <2>2. /\ job'[r].stage = s /\ job'[r].status = job[r].status /\ job'[r].code = Code
        /\ \A j \in JobIds \ {r} : job'[j] = job[j]
    BY <1>0, <1>1, <1>2, <1>8 DEF RunStage, JobRow
  <2>3. /\ report'[Code].result[s] = "ok"
        /\ \A i \in Stages \ {s} : report'[Code].result[i] = report[Code].result[i]
        /\ \A k \in Codes \ {Code} : report'[k] = report[k]
    BY <1>0, <1>2, <1>8 DEF RunStage, ReportRow
  <2>4. OnlyRow(r) /\ IsBacked(r) => IsBacked(r)' /\ RunIsCounted'
    <3> SUFFICES ASSUME OnlyRow(r), IsBacked(r) PROVE IsBacked(r)' /\ RunIsCounted'
      OBVIOUS
    <3>1. s \in Nat /\ s >= 1 /\ job[r].stage = s - 1 /\ ResumeFrom < s /\ job[r].status # "done"
      BY <1>6, <2>1
    <3>2. \A i \in 1..s : i = s \/ (i \in 1..job[r].stage /\ i # s /\ i \in Stages)
      BY <3>1 DEF Stages
    <3>3. \A i \in 1..s : report'[Code].result[i] = "ok"
      BY <1>2, <2>3, <3>2 DEF IsBacked
    <3>4. IsBacked(r)'
      BY <2>2, <3>1, <3>3 DEF IsBacked
    <3>5. ResumeFrom < s + 1 /\ (s + 1) - 1 = s
      BY <1>2, <3>1
    <3>6. RunIsCounted'
      BY <2>1, <2>2, <3>1, <3>5 DEF RunIsCounted, ResumeFrom
    <3> QED BY <3>4, <3>6
  <2> QED BY <1>3, <2>1, <2>2, <2>3, <2>4
<1>9. ASSUME NEW s \in Stages, RunStageBad(s) PROVE CountInv'
  <2>1. /\ run'.at = "failing" /\ run'.job = r /\ UNCHANGED job
        /\ run'.loaded = run.loaded /\ run'.loaded.code = Code /\ MayTake(s) /\ ~Reusable(s)
    BY <1>0, <1>1, <1>9 DEF RunStageBad, MayTake, AtStage, RunState, Code
  <2>2. /\ \A i \in Stages \ {s} : report'[Code].result[i] = report[Code].result[i]
        /\ \A k \in Codes \ {Code} : report'[k] = report[k]
    BY <1>0, <1>2, <1>9 DEF RunStageBad, ReportRow
  <2>3. OnlyRow(r) /\ IsBacked(r) => IsBacked(r)' /\ RunIsCounted'
    <3> SUFFICES ASSUME OnlyRow(r), IsBacked(r) PROVE IsBacked(r)' /\ RunIsCounted'
      OBVIOUS
    <3>1. s \in Nat /\ s >= 1 /\ job[r].stage = s - 1 /\ job[r].status # "done" /\ s <= MaxStage
      BY <1>6, <2>1 DEF Stages
    <3>2. \A i \in 1..job[r].stage : i # s /\ i \in Stages
      BY <3>1 DEF Stages
    <3>3. \A i \in 1..job[r].stage : report'[Code].result[i] = "ok"
      BY <1>2, <2>2, <3>2 DEF IsBacked
    <3>4. IsBacked(r)'
      BY <1>2, <2>1, <3>1, <3>3 DEF IsBacked
    <3>5. RunIsCounted'
      BY <2>1, <3>1 DEF RunIsCounted
    <3> QED BY <3>4, <3>5
  <2> QED BY <1>3, <2>1, <2>2, <2>3
<1>10. CASE RunPublish
  <2>1. /\ UNCHANGED job /\ run'.at = "closing" /\ run'.job = r
        /\ run'.loaded = run.loaded /\ run'.loaded.code = Code
    BY <1>0, <1>1, <1>10 DEF RunPublish, AtStage, RunState, Code
  <2>2. /\ report'[Code].published /\ report'[Code].result = report[Code].result
        /\ \A k \in Codes \ {Code} : report'[k] = report[k]
    BY <1>0, <1>2, <1>10 DEF RunPublish, Finalized, ReportRow
  <2>3. IsBacked(r) => IsBacked(r)'
    BY <1>2, <2>1, <2>2 DEF IsBacked
  <2>4. RunIsCounted'
    BY <2>1, <2>2 DEF RunIsCounted, Code
  <2> QED BY <1>3, <2>1, <2>2, <2>3, <2>4
<1>11. CASE RunReload
  <2>1. [job[run.job] EXCEPT !.stage = run.loaded.stage].code = job[run.job].code
    BY <1>1, <1>2 DEF JobRow
  <2>2. [job[run.job] EXCEPT !.stage = run.loaded.stage].stage = run.loaded.stage
    BY <1>1, <1>2 DEF JobRow
  <2>3. /\ UNCHANGED <<job, report>> /\ run.at = "stages" /\ run'.at = "stages" /\ run'.job = r
        /\ run'.stage = run.stage /\ run'.loaded = [job[run.job] EXCEPT !.stage = run.loaded.stage]
    BY <1>0, <1>1, <1>11 DEF RunReload, RunState
  <2>4. run'.loaded.code = Code /\ run'.loaded.stage = ResumeFrom
    BY <1>1, <1>2, <2>1, <2>2, <2>3 DEF ResumeFrom
  <2>5. IsBacked(r) => IsBacked(r)'
    BY <1>2, <2>3, <2>4 DEF IsBacked, Code
  <2>6. OnlyRow(r) => RunIsCounted'
    BY <1>1, <2>3, <2>4 DEF CountInv, RunIsCounted, ResumeFrom
  <2> QED BY <1>3, <2>3, <2>4, <2>5, <2>6
<1> QED BY <1>4, <1>5, <1>7, <1>8, <1>9, <1>10, <1>11 DEF Take

LEMMA NextCountInv ==
  DeepDiveTyped /\ DeepDiveTyped' /\ ReportInv /\ CountInv /\ [Next]_vars => CountInv'
<1> SUFFICES ASSUME DeepDiveTyped, DeepDiveTyped', ReportInv, CountInv, [Next]_vars PROVE CountInv'
  OBVIOUS
<1>0. CodesStay /\ job \in [JobIds -> JobRow] /\ issued \in Nat
  BY NextCodesStay DEF DeepDiveTyped, TypeOK
<1>1. CASE RunLoad \/ Crash
  BY <1>1, LoadCountInv
<1>2. CASE RunUnconfigured \/ RunFails \/ RunPause \/ RunAborts \/ RunDone
  BY <1>0, <1>2, EndCountInv
<1>3. CASE RunBegin \/ RunVerify \/ Take \/ RunPublish \/ RunReload
  BY <1>0, <1>3, StageCountInv
<1>4. ASSUME UNCHANGED <<report, run>>,
             \A j \in JobIds : job[j].status # "absent" =>
               job'[j].stage = job[j].stage /\ (job'[j].status = "done" => job[j].status = "done"),
             \A j \in JobIds : job[j].status = "absent" /\ job'[j].status # "absent" =>
               job'[j].stage = 0 /\ job'[j].status # "done"
      PROVE  CountInv'
  BY <1>0, <1>4, OthersCountInv
<1>5. CASE UNCHANGED <<job, report, run>>
  BY <1>4, <1>5
<1>6. CASE \E c \in Clients : EnqueueInsert(c)
  <2>1. PICK c \in Clients : EnqueueInsert(c)
    BY <1>6
  <2> DEFINE row == [NoRow EXCEPT !.code = request[c], !.status = "pending"]
  <2>2. row.status = "pending" /\ row.stage = 0
    BY DEF NoRow
  <2>3. job' = [job EXCEPT ![issued + 1] = row] /\ issued + 1 \in JobIds /\ UNCHANGED <<report, run>>
    BY <1>0, <2>1 DEF EnqueueInsert
  <2>4. job[issued + 1].status = "absent"
    BY <1>0, <2>3 DEF DeepDiveTyped, RowsExist
  <2> HIDE DEF row
  <2>5. job'[issued + 1] = row /\ \A j \in JobIds \ {issued + 1} : job'[j] = job[j]
    BY <1>0, <2>3
  <2> QED BY <1>4, <2>2, <2>3, <2>4, <2>5
<1>7. ASSUME NEW j \in JobIds, job[j].status # "absent", UNCHANGED <<report, run>>,
             job'[j].stage = job[j].stage, job'[j].status # "done", \A i \in JobIds \ {j} : job'[i] = job[i]
      PROVE  CountInv'
  BY <1>4, <1>7
<1>8. CASE \E k \in Codes, input \in {"blank", "text"} : SubmitHitl(k, input)
  <2>1. PICK k \in Codes, input \in {"blank", "text"} : SubmitHitl(k, input)
    BY <1>8
  <2>2. PICK j \in Paused(k) : j = Latest(Paused(k))
    BY <2>1, LatestIsMember DEF SubmitHitl, Paused
  <2>3. /\ j \in JobIds /\ job[j].status = "paused" /\ UNCHANGED <<report, run>>
        /\ job'[j].stage = job[j].stage /\ job'[j].status = "pending" /\ \A i \in JobIds \ {j} : job'[i] = job[i]
    BY <1>0, <2>1, <2>2, Zenon DEF SubmitHitl, Paused, JobRow
  <2> QED BY <1>7, <2>3
<1>9. CASE PollReclaim
  <2>1. PICK j \in Stale : j = Oldest(Stale)
    BY <1>9, OldestIsMember DEF PollReclaim, Stale, WithStatus
  <2>2. /\ j \in JobIds /\ job[j].status = "running" /\ UNCHANGED <<report, run>>
        /\ job'[j].stage = job[j].stage /\ job'[j].status = "pending" /\ \A i \in JobIds \ {j} : job'[i] = job[i]
    <3>1. /\ UNCHANGED <<report, run>>
          /\ job' = [job EXCEPT ![j] = [[job[j] EXCEPT !.status = "pending"] EXCEPT !.stale = FALSE]]
      BY <1>9, <2>1, Zenon DEF PollReclaim
    <3>2. j \in JobIds /\ job[j].status = "running" /\ job[j] \in JobRow
      BY <1>0, <2>1 DEF Stale, WithStatus
    <3> QED BY <1>0, <3>1, <3>2 DEF JobRow
  <2> QED BY <1>7, <2>2
<1>10. CASE \E j \in JobIds : Age(j)
  <2>1. PICK j \in JobIds : Age(j)
    BY <1>10
  <2>2. /\ job[j].status = "running" /\ UNCHANGED <<report, run>>
        /\ job'[j].stage = job[j].stage /\ job'[j].status = "running" /\ \A i \in JobIds \ {j} : job'[i] = job[i]
    BY <1>0, <2>1 DEF Age, JobRow
  <2> QED BY <1>7, <2>2
<1> QED BY <1>1, <1>2, <1>3, <1>5, <1>6, <1>8, <1>9, <1>10 DEF Next, Run, EnqueueCheck, PollPending, vars

\* The stages the only row of a code counts are in the report for a resume to take
\* over, and when it is done its report is published unless a run of the code is
\* under way, whatever was resumed, run twice or lost.
THEOREM OnlyJobIsBacked == Spec => []OnlyIsBacked
<1>1. Init => DeepDiveTyped /\ ReportInv /\ CountInv
  BY InitDeepDiveTyped, InitReportInv, InitCountInv
<1>2. DeepDiveTyped /\ ReportInv /\ CountInv /\ [Next]_vars => (DeepDiveTyped /\ ReportInv /\ CountInv)'
  BY NextDeepDiveTyped, NextReportInv, NextCountInv
<1>3. CountInv => OnlyIsBacked
  BY DEF CountInv
<1> QED BY <1>1, <1>2, <1>3, PTL DEF Spec

\* Rows, reports, the executor's queue and its run are what they are declared to be.
THEOREM DeepDiveTypeCorrect == Spec => []TypeOK
<1>1. Init => DeepDiveTyped
  BY InitDeepDiveTyped
<1>2. DeepDiveTyped /\ [Next]_vars => DeepDiveTyped'
  BY NextDeepDiveTyped
<1>3. DeepDiveTyped => TypeOK
  BY DEF DeepDiveTyped
<1> QED BY <1>1, <1>2, <1>3, PTL DEF Spec

-------------------------------------------------------------------------------
(***************************************************************************)
(* The research queue.  A row is submitted as long as it is pending, so     *)
(* several submissions of one row may wait, and a reclaim may cross a run;  *)
(* a conclusion is still of a run that has merged.                          *)
(***************************************************************************)

\* A job is done only after its summary was merged, and the thread concludes
\* only what it has merged itself.
ResearchInv ==
  /\ ResearchTypeOK
  /\ study.at # "idle" => study.job \in StudyIds
  /\ study.at = "close" => study.job \in merged
  /\ DoneIsMerged

LEMMA ResearchInitInv == ResearchInit => ResearchInv
<1> SUFFICES ASSUME ResearchInit PROVE ResearchInv
  OBVIOUS
<1>1. (CHOOSE c \in Subjects : TRUE) \in Subjects
  BY ResearchAssumption
<1>2. PICK first \in Subjects : first = (CHOOSE c \in Subjects : TRUE)
  BY <1>1
<1>3. studies \in [StudyIds -> {StudyRow(first, "none", FALSE)}]
  BY <1>2 DEF ResearchInit
<1>4. StudyRow(first, "none", FALSE) \in [code : Subjects, status : StudyStatuses, old : BOOLEAN]
      /\ StudyRow(first, "none", FALSE).status = "none"
  BY DEF StudyRow, StudyStatuses
<1>5. studies \in [StudyIds -> [code : Subjects, status : StudyStatuses, old : BOOLEAN]]
      /\ \A j \in StudyIds : studies[j].status = "none"
  BY <1>3, <1>4
<1>6. queue \in Seq(StudyIds) /\ Len(queue) = 0
  BY DEF ResearchInit
<1> QED
  BY <1>5, <1>6, ResearchAssumption
  DEF ResearchInit, ResearchInv, ResearchTypeOK, DoneIsMerged, IdleStudy, At

\* What is written to a row keeps its code.
LEMMA WriteKeepsRows ==
  ASSUME ResearchInv, NEW j \in StudyIds, NEW s \in StudyStatuses, Write(j, s)
  PROVE  /\ studies' \in [StudyIds -> [code : Subjects, status : StudyStatuses, old : BOOLEAN]]
         /\ studies'[j].status = s
         /\ \A i \in StudyIds \ {j} : studies'[i] = studies[i]
<1>1. studies[j].code \in Subjects
  BY DEF ResearchInv, ResearchTypeOK
<1>2. StudyRow(studies[j].code, s, FALSE) \in [code : Subjects, status : StudyStatuses, old : BOOLEAN]
  BY <1>1 DEF StudyRow
<1> QED
  BY <1>2 DEF ResearchInv, ResearchTypeOK, Write, StudyRow

\* A submission is appended within the bound.
LEMMA SubmitKeepsQueue ==
  ASSUME ResearchInv, NEW j \in StudyIds, Submit(j)
  PROVE  queue' \in Seq(StudyIds) /\ Len(queue') <= MaxQueued
<1>1. queue \in Seq(StudyIds) /\ Len(queue) < MaxQueued /\ queue' = Append(queue, j)
  BY DEF ResearchInv, ResearchTypeOK, Submit
<1>2. queue' \in Seq(StudyIds) /\ Len(queue') = Len(queue) + 1
  BY <1>1
<1> QED
  BY <1>1, <1>2, ResearchAssumption

\* What is taken is the first of what was submitted.
LEMMA TakeKeepsQueue ==
  ASSUME ResearchInv, queue # << >>
  PROVE  /\ Head(queue) \in StudyIds
         /\ Tail(queue) \in Seq(StudyIds)
         /\ Len(Tail(queue)) <= MaxQueued
<1>1. queue \in Seq(StudyIds) /\ Len(queue) <= MaxQueued
  BY DEF ResearchInv, ResearchTypeOK
<1> QED
  BY <1>1, HeadTailProperties, ResearchAssumption

LEMMA ResearchApiInv ==
  ASSUME ResearchInv, NEW k \in Visitors, StudyEnqueueInsert(k) \/ \E c \in Subjects : StudyEnqueueCheck(k, c)
  PROVE  ResearchInv'
<1>1. CASE StudyEnqueueInsert(k)
  <2>1. PICK c \in visitor[k] : studies' = [studies EXCEPT ![studied + 1] = StudyRow(c, "pending", FALSE)]
    BY <1>1 DEF StudyEnqueueInsert
  <2>2. c \in Subjects /\ studied + 1 \in StudyIds
    BY <1>1, <2>1, ResearchAssumption DEF ResearchInv, ResearchTypeOK, StudyEnqueueInsert, StudyIds
  <2>3. StudyRow(c, "pending", FALSE) \in [code : Subjects, status : StudyStatuses, old : BOOLEAN]
    BY <2>2 DEF StudyRow, StudyStatuses
  <2>4. studies' \in [StudyIds -> [code : Subjects, status : StudyStatuses, old : BOOLEAN]]
    BY <2>1, <2>2, <2>3 DEF ResearchInv, ResearchTypeOK
  <2>5. visitor' \in [Visitors -> SUBSET Subjects] /\ studied' \in 0..MaxStudies
    BY <1>1, <2>2, ResearchAssumption DEF ResearchInv, ResearchTypeOK, StudyEnqueueInsert, StudyIds
  <2>6. DoneIsMerged'
    BY <1>1, <2>1, <2>2 DEF ResearchInv, ResearchTypeOK, DoneIsMerged, StudyEnqueueInsert, StudyRow
  <2> QED
    BY <1>1, <2>4, <2>5, <2>6 DEF ResearchInv, ResearchTypeOK, StudyEnqueueInsert
<1>2. ASSUME NEW c \in Subjects, StudyEnqueueCheck(k, c) PROVE ResearchInv'
  BY <1>2 DEF StudyEnqueueCheck, ResearchInv, ResearchTypeOK, DoneIsMerged
<1> QED
  BY <1>1, <1>2

LEMMA ResearchPollInv ==
  ASSUME ResearchInv, PollStudies \/ \E j \in StudyIds : StudyAges(j)
  PROVE  ResearchInv'
<1>1. CASE PollNextStudy
  <2>1. PICK j \in StudyIds : Submit(j)
    BY <1>1 DEF PollNextStudy, First
  <2> QED
    BY <1>1, <2>1, SubmitKeepsQueue DEF PollNextStudy, ResearchInv, ResearchTypeOK, DoneIsMerged
<1>2. CASE PollStale
  <2>1. PICK j \in StudyIds : stale' = j
    BY <1>2 DEF PollStale, First
  <2>2. stale' \in 0..MaxStudies
    BY <2>1, ResearchAssumption DEF StudyIds
  <2> QED
    BY <1>2, <2>2 DEF PollStale, ResearchInv, ResearchTypeOK, DoneIsMerged
<1>3. CASE PollPutBack
  <2>1. stale \in StudyIds /\ "pending" \in StudyStatuses
    BY <1>3, ResearchAssumption DEF PollPutBack, ResearchInv, ResearchTypeOK, StudyIds, StudyStatuses
  <2>2. Write(stale, "pending") /\ Submit(stale)
    BY <1>3 DEF PollPutBack
  <2>3. /\ studies' \in [StudyIds -> [code : Subjects, status : StudyStatuses, old : BOOLEAN]]
        /\ studies'[stale].status = "pending"
        /\ \A i \in StudyIds \ {stale} : studies'[i] = studies[i]
    BY <2>1, <2>2, WriteKeepsRows
  <2>4. DoneIsMerged'
    BY <1>3, <2>3 DEF PollPutBack, ResearchInv, DoneIsMerged
  <2>5. queue' \in Seq(StudyIds) /\ Len(queue') <= MaxQueued
    BY <2>1, <2>2, SubmitKeepsQueue
  <2>6. stale' \in 0..MaxStudies
    BY <1>3, ResearchAssumption DEF PollPutBack
  <2> QED
    BY <1>3, <2>3, <2>4, <2>5, <2>6 DEF PollPutBack, ResearchInv, ResearchTypeOK
<1>4. ASSUME NEW j \in StudyIds, StudyAges(j) PROVE ResearchInv'
  <2>1. studies[j].code \in Subjects
    BY DEF ResearchInv, ResearchTypeOK
  <2>2. StudyRow(studies[j].code, "running", TRUE) \in [code : Subjects, status : StudyStatuses, old : BOOLEAN]
    BY <2>1 DEF StudyRow, StudyStatuses
  <2>3. /\ studies' \in [StudyIds -> [code : Subjects, status : StudyStatuses, old : BOOLEAN]]
        /\ studies'[j].status = "running"
        /\ \A i \in StudyIds \ {j} : studies'[i] = studies[i]
    BY <1>4, <2>2 DEF ResearchInv, ResearchTypeOK, StudyAges, StudyRow
  <2>4. DoneIsMerged'
    BY <1>4, <2>3 DEF StudyAges, ResearchInv, DoneIsMerged
  <2> QED
    BY <1>4, <2>3, <2>4 DEF StudyAges, ResearchInv, ResearchTypeOK
<1> QED
  BY <1>1, <1>2, <1>3, <1>4 DEF PollStudies

LEMMA ResearchRunInv ==
  ASSUME ResearchInv, RunStudy \/ StudyAborts \/ StudyCrash
  PROVE  ResearchInv'
<1> DEFINE Steps == [at : {"idle", "research", "close"}, job : 0..MaxStudies]
<1>1. IdleStudy \in Steps /\ IdleStudy.at = "idle"
  BY ResearchAssumption DEF IdleStudy, At
<1>2. ASSUME NEW j \in StudyIds, NEW step \in {"research", "close"}
      PROVE  At(step, j) \in Steps /\ At(step, j).at = step /\ At(step, j).job = j
  BY ResearchAssumption DEF At, StudyIds
<1>3. \A s \in {"running", "failed", "done"} : s \in StudyStatuses
  BY DEF StudyStatuses
<1>4. losses < MaxLosses => losses + 1 \in 0..MaxLosses
  BY ResearchAssumption DEF ResearchInv, ResearchTypeOK
<1> HIDE DEF Steps
<1>5. ASSUME NEW j \in StudyIds, NEW s \in {"running", "failed", "done"}, Write(j, s),
             s = "done" => j \in merged, merged' = merged
      PROVE  /\ studies' \in [StudyIds -> [code : Subjects, status : StudyStatuses, old : BOOLEAN]]
             /\ DoneIsMerged'
  <2>1. /\ studies' \in [StudyIds -> [code : Subjects, status : StudyStatuses, old : BOOLEAN]]
        /\ studies'[j].status = s
        /\ \A i \in StudyIds \ {j} : studies'[i] = studies[i]
    BY <1>3, <1>5, WriteKeepsRows
  <2> QED
    BY <1>5, <2>1 DEF ResearchInv, DoneIsMerged
<1>6. CASE StudyBegin
  <2>1. /\ Head(queue) \in StudyIds
        /\ queue' \in Seq(StudyIds)
        /\ Len(queue') <= MaxQueued
    BY <1>6, TakeKeepsQueue DEF StudyBegin
  <2>2. studies' \in [StudyIds -> [code : Subjects, status : StudyStatuses, old : BOOLEAN]] /\ DoneIsMerged'
    BY <1>5, <1>6, <2>1 DEF StudyBegin
  <2>3. study' \in Steps /\ study'.at = "research" /\ study'.job \in StudyIds
    BY <1>2, <1>6, <2>1 DEF StudyBegin
  <2> QED
    BY <1>6, <2>1, <2>2, <2>3 DEF StudyBegin, ResearchInv, ResearchTypeOK, Steps
<1>7. CASE StudyUnconfigured
  <2>1. /\ Head(queue) \in StudyIds
        /\ queue' \in Seq(StudyIds)
        /\ Len(queue') <= MaxQueued
    BY <1>7, TakeKeepsQueue DEF StudyUnconfigured
  <2>2. studies' \in [StudyIds -> [code : Subjects, status : StudyStatuses, old : BOOLEAN]] /\ DoneIsMerged'
    BY <1>5, <1>7, <2>1 DEF StudyUnconfigured
  <2> QED
    BY <1>7, <2>1, <2>2 DEF StudyUnconfigured, ResearchInv, ResearchTypeOK
<1>8. CASE RunMerge
  <2>1. study.job \in StudyIds /\ studies[study.job].code \in Subjects
    BY <1>8 DEF RunMerge, ResearchInv, ResearchTypeOK
  <2>2. study' \in Steps /\ study'.at = "close" /\ study'.job = study.job
    BY <1>2, <1>8, <2>1 DEF RunMerge
  <2>3. merged' \in SUBSET StudyIds /\ study'.job \in merged' /\ DoneIsMerged'
    BY <1>8, <2>1, <2>2 DEF RunMerge, ResearchInv, ResearchTypeOK, DoneIsMerged
  <2>4. shown' \in [Subjects -> 0..MaxStudies]
    BY <1>8, <2>1, ResearchAssumption DEF RunMerge, ResearchInv, ResearchTypeOK, StudyIds
  <2> QED
    BY <1>8, <2>1, <2>2, <2>3, <2>4 DEF RunMerge, ResearchInv, ResearchTypeOK, Steps
<1>9. CASE StudyDone \/ StudyFails
  <2>1. study.job \in StudyIds /\ study' = IdleStudy
    BY <1>9 DEF StudyDone, StudyFails, ResearchInv
  <2>2. studies' \in [StudyIds -> [code : Subjects, status : StudyStatuses, old : BOOLEAN]] /\ DoneIsMerged'
    BY <1>5, <1>9, <2>1 DEF StudyDone, StudyFails, ResearchInv
  <2> QED
    BY <1>1, <1>9, <2>1, <2>2 DEF StudyDone, StudyFails, ResearchInv, ResearchTypeOK, Steps
<1>10. CASE StudyAborts
  <2>1. queue' \in Seq(StudyIds) /\ Len(queue') <= MaxQueued
    BY <1>10, TakeKeepsQueue DEF StudyAborts, ResearchInv, ResearchTypeOK
  <2>2. study' = study \/ study' = IdleStudy
    BY <1>10 DEF StudyAborts
  <2>3. /\ study' \in Steps
        /\ study'.at # "idle" => study'.job \in StudyIds
        /\ study'.at = "close" => study'.job \in merged
    BY <1>1, <2>2 DEF ResearchInv, ResearchTypeOK, Steps
  <2> QED
    BY <1>4, <1>10, <2>1, <2>3 DEF StudyAborts, ResearchInv, ResearchTypeOK, DoneIsMerged, Steps
<1>11. CASE StudyCrash
  <2>1. queue' \in Seq(StudyIds) /\ Len(queue') <= MaxQueued /\ stale' \in 0..MaxStudies
    BY <1>11, ResearchAssumption DEF StudyCrash
  <2> QED
    BY <1>1, <1>4, <1>11, <2>1 DEF StudyCrash, ResearchInv, ResearchTypeOK, DoneIsMerged, Steps
<1> QED
  BY <1>6, <1>7, <1>8, <1>9, <1>10, <1>11 DEF RunStudy

LEMMA ResearchStepInv == ResearchInv /\ [ResearchNext]_researchVars => ResearchInv'
<1> SUFFICES ASSUME ResearchInv, [ResearchNext]_researchVars PROVE ResearchInv'
  OBVIOUS
<1>1. CASE UNCHANGED researchVars
  BY <1>1 DEF researchVars, ResearchInv, ResearchTypeOK, DoneIsMerged
<1> QED
  BY <1>1, ResearchApiInv, ResearchPollInv, ResearchRunInv
  DEF ResearchNext, PollStudies, RunStudy

\* The rows, the executor's queue and the thread of the research keep their
\* types, however submissions repeat and rows are reclaimed.
THEOREM ResearchTypeCorrect == ResearchSpec => []ResearchTypeOK
<1>1. ResearchInv => ResearchTypeOK
  BY DEF ResearchInv
<1> QED
  BY <1>1, ResearchInitInv, ResearchStepInv, PTL DEF ResearchSpec

\* BusinessResearchJob: a job that is done has merged its summary, through
\* duplicate submissions, reclaims of a live run and deaths.
THEOREM DoneStudiesAreMerged == ResearchSpec => []DoneIsMerged
<1>1. ResearchInv => DoneIsMerged
  BY DEF ResearchInv
<1> QED
  BY <1>1, ResearchInitInv, ResearchStepInv, PTL DEF ResearchSpec

-------------------------------------------------------------------------------
(***************************************************************************)
(* The streams of prices.  Counts are the streams' own, whatever the        *)
(* connection does.  That what is settled is what is desired rests on the   *)
(* frames keeping the order of the marks: a mark is what KIS will have made  *)
(* of a code once the frames on their way have arrived.                     *)
(***************************************************************************)

CountInvOfStreams == RealtimeTypeOK /\ CountsAreStreams

Reconciliations == [at : {"idle", "sub", "unsub"}, want : SUBSET Quoted, todo : SUBSET Quoted, sending : SUBSET Quoted]
Frames == [code : Quoted, on : BOOLEAN]

LEMMA HoldersAreFinite == \A c \in Quoted : IsFiniteSet(Holders(c)) /\ Cardinality(Holders(c)) \in Nat
  BY RealtimeAssumption, FS_Subset, FS_CardinalityType DEF Holders

LEMMA IdleIsTyped == Idle \in Reconciliations /\ Idle.at = "idle" /\ Idle.todo = {} /\ Idle.sending = {}
  BY DEF Idle, Reconciling, Reconciliations

LEMMA RealtimeInitCounts == RealtimeInit => CountInvOfStreams
<1> SUFFICES ASSUME RealtimeInit PROVE CountInvOfStreams
  OBVIOUS
<1>1. \A c \in Quoted : Holders(c) = {}
  BY DEF RealtimeInit, Holders
<1>2. CountsAreStreams
  BY <1>1, FS_EmptySet DEF RealtimeInit, CountsAreStreams
<1>3. task \in [Tasks -> Reconciliations]
  BY IdleIsTyped DEF RealtimeInit
<1>4. wire \in Seq(Frames) /\ breaks \in 0..MaxBreaks
  BY RealtimeAssumption DEF RealtimeInit
<1>5. stream \in [Streams -> SUBSET Quoted] /\ desired \in [Quoted -> Nat]
  BY DEF RealtimeInit
<1> QED
  BY <1>2, <1>3, <1>4, <1>5 DEF RealtimeInit, CountInvOfStreams, RealtimeTypeOK, Reconciliations, Frames

\* A stream that opens or ends changes the count of its code by itself.
LEMMA AcquireCounts ==
  ASSUME CountInvOfStreams, NEW s \in Streams, NEW c \in Quoted, Acquire(s, c)
  PROVE  CountInvOfStreams'
<1>1. stream' \in [Streams -> SUBSET Quoted] /\ desired' \in [Quoted -> Nat] /\ event' \in BOOLEAN
  BY DEF CountInvOfStreams, RealtimeTypeOK, Acquire
<1>2. Holders(c)' = Holders(c) \cup {s} /\ s \notin Holders(c)
  BY DEF CountInvOfStreams, RealtimeTypeOK, Acquire, Holders
<1>3. \A d \in Quoted \ {c} : Holders(d)' = Holders(d)
  BY DEF CountInvOfStreams, RealtimeTypeOK, Acquire, Holders
<1>4. desired'[c] = desired[c] + 1 /\ \A d \in Quoted \ {c} : desired'[d] = desired[d]
  BY DEF CountInvOfStreams, RealtimeTypeOK, Acquire
<1>5. Cardinality(Holders(c)') = Cardinality(Holders(c)) + 1
  BY <1>2, HoldersAreFinite, FS_AddElement
<1>6. CountsAreStreams'
  BY <1>3, <1>4, <1>5 DEF CountInvOfStreams, CountsAreStreams
<1> QED
  BY <1>1, <1>6 DEF CountInvOfStreams, RealtimeTypeOK, Acquire, atKis, begun

LEMMA ReleaseCounts ==
  ASSUME CountInvOfStreams, NEW s \in Streams, NEW c \in Quoted, Release(s, c)
  PROVE  CountInvOfStreams' /\ desired[c] > 0
<1>1. s \in Holders(c) /\ Holders(c)' = Holders(c) \ {s}
  BY DEF CountInvOfStreams, RealtimeTypeOK, Release, Holders
<1>2. \A d \in Quoted \ {c} : Holders(d)' = Holders(d)
  BY DEF CountInvOfStreams, RealtimeTypeOK, Release, Holders
<1>3. Cardinality(Holders(c)') = Cardinality(Holders(c)) - 1 /\ IsFiniteSet(Holders(c)')
  BY <1>1, HoldersAreFinite, FS_RemoveElement
<1>4. Cardinality(Holders(c)') \in Nat
  BY <1>3, FS_CardinalityType
<1>5. desired[c] = Cardinality(Holders(c)) /\ desired[c] \in Nat /\ desired[c] > 0
  BY <1>3, <1>4 DEF CountInvOfStreams, CountsAreStreams, RealtimeTypeOK
<1>6. desired'[c] = desired[c] - 1 /\ \A d \in Quoted \ {c} : desired'[d] = desired[d]
  BY DEF CountInvOfStreams, RealtimeTypeOK, Release
<1>7. stream' \in [Streams -> SUBSET Quoted] /\ desired' \in [Quoted -> Nat] /\ event' \in BOOLEAN
  BY <1>5 DEF CountInvOfStreams, RealtimeTypeOK, Release
<1>8. CountsAreStreams'
  BY <1>2, <1>3, <1>5, <1>6 DEF CountInvOfStreams, CountsAreStreams
<1> QED
  BY <1>5, <1>7, <1>8 DEF CountInvOfStreams, RealtimeTypeOK, Release, atKis, begun

\* What a step of a task writes about the task.
LEMMA TaskIsTyped ==
  ASSUME RealtimeTypeOK, NEW t \in Tasks, NEW x \in Reconciliations, task' = [task EXCEPT ![t] = x]
  PROVE  task' \in [Tasks -> Reconciliations] /\ task'[t] = x /\ \A u \in Tasks \ {t} : task'[u] = task[u]
  BY DEF RealtimeTypeOK, Reconciliations

\* A reconciliation that comes on over a socket: it takes a code out of its list and marks it, turns to the codes
\* that are too much, or is at its end.
Took(x, at, want, todo, have, now) ==
  \/ /\ x.at = at /\ x.want = want
     /\ \E c \in todo : x.todo = todo \ {c} /\ now = IF at = "sub" THEN have \cup {c} ELSE have \ {c}
  \/ /\ x.at = "unsub" /\ x.want = want /\ at = "sub" /\ todo = {}
     /\ \E c \in have \ want : x.todo = (have \ want) \ {c} /\ now = have \ {c}
  \/ x.at = "idle" /\ todo = {} /\ (at = "unsub" \/ have \subseteq want) /\ now = have

\* The frames follow the marks.
Wrote(w, v, have, now) ==
  \/ v = w /\ now = have
  \/ \E f \in Frames : v = Append(w, f) /\ now = IF f.on THEN have \cup {f.code} ELSE have \ {f.code}

\* What a step writes about a task whose reconciliation comes on.
Moves(t, x, socket, at, want, todo, have) ==
  /\ task' = [task EXCEPT ![t] = x]
  /\ x.at = "idle" => x.sending = {}
  /\ subscribed' \in SUBSET Quoted /\ wire' \in Seq(Frames)
  /\ socket = "up" => Took(x, at, want, todo, have, subscribed') /\ Wrote(wire, wire', have, subscribed')
  /\ socket # "up" => wire' = wire

LEMMA FramesAreThere ==
  ASSUME NEW c \in Quoted, NEW at
  PROVE  \E f \in Frames : f.code = c /\ (f.on <=> at = "sub") /\ f = Frame(c, at = "sub")
<1>1. PICK on \in BOOLEAN : on = (at = "sub")
  OBVIOUS
<1>2. PICK f : f = Frame(c, on) /\ f \in Frames /\ f.code = c /\ f.on = on
  <2>1. Frame(c, on) \in Frames /\ Frame(c, on).code = c /\ Frame(c, on).on = on
    BY DEF Frame, Frames
  <2> QED
    BY <2>1
<1>3. f = Frame(c, at = "sub")
  BY <1>1, <1>2, Zenon
<1>4. f.on <=> at = "sub"
  BY <1>1, <1>2, Zenon
<1> QED
  BY <1>2, <1>3, <1>4

SendMoves(t, x, c, socket, at, want, todo, have) ==
  /\ task' = [task EXCEPT ![t] = x]
  /\ x.at = at /\ x.want = want /\ x.todo = todo \ {c} /\ x.sending = {c}
  /\ subscribed' = IF at = "sub" THEN have \cup {c} ELSE have \ {c}
  /\ subscribed' \in SUBSET Quoted /\ wire' \in Seq(Frames)
  /\ socket = "up" => Wrote(wire, wire', have, subscribed')
  /\ socket # "up" => wire' = wire

LEMMA SendsMoves ==
  ASSUME RealtimeTypeOK, NEW t \in Tasks, NEW socket, NEW at \in {"sub", "unsub"}, NEW want \in SUBSET Quoted,
         NEW todo \in SUBSET Quoted, NEW have \in SUBSET Quoted, Sends(t, socket, at, want, todo, have)
  PROVE  \E x \in Reconciliations, c \in todo : SendMoves(t, x, c, socket, at, want, todo, have)
<1>1. PICK c \in todo :
        /\ task' = [task EXCEPT ![t] = [Reconciling(at, want, todo \ {c}) EXCEPT !.sending = {c}]]
        /\ subscribed' = IF at = "sub" THEN have \cup {c} ELSE have \ {c}
        /\ wire' = IF socket = "up" THEN Append(wire, Frame(c, at = "sub")) ELSE wire
  BY DEF Sends
<1>2. c \in Quoted /\ wire \in Seq(Frames)
  BY DEF RealtimeTypeOK, Frames
<1>3. PICK x \in Reconciliations :
        /\ x = [Reconciling(at, want, todo \ {c}) EXCEPT !.sending = {c}]
        /\ x.at = at /\ x.want = want /\ x.todo = todo \ {c} /\ x.sending = {c}
  <2>1. [Reconciling(at, want, todo \ {c}) EXCEPT !.sending = {c}]
          = [at |-> at, want |-> want, todo |-> todo \ {c}, sending |-> {c}]
    BY DEF Reconciling
  <2>2. [at |-> at, want |-> want, todo |-> todo \ {c}, sending |-> {c}] \in Reconciliations
    BY <1>2 DEF Reconciliations
  <2> QED
    BY <2>1, <2>2
<1>4. PICK f \in Frames : f.code = c /\ (f.on <=> at = "sub") /\ f = Frame(c, at = "sub")
  BY <1>2, FramesAreThere
<1>5. wire' = IF socket = "up" THEN Append(wire, f) ELSE wire
  BY <1>1, <1>4
<1>6. wire' \in Seq(Frames) /\ subscribed' \in SUBSET Quoted
  BY <1>1, <1>2, <1>5
<1>7. socket = "up" => Wrote(wire, wire', have, subscribed')
  <2> SUFFICES ASSUME socket = "up" PROVE Wrote(wire, wire', have, subscribed')
    OBVIOUS
  <2>1. wire' = Append(wire, f) /\ subscribed' = IF f.on THEN have \cup {f.code} ELSE have \ {f.code}
    BY <1>1, <1>4, <1>5
  <2> QED
    BY <2>1 DEF Wrote
<1>8. task' = [task EXCEPT ![t] = x]
  BY <1>1, <1>3
<1> QED
  BY <1>1, <1>3, <1>5, <1>6, <1>7, <1>8 DEF SendMoves

LEMMA GoesOnMoves ==
  ASSUME RealtimeTypeOK, NEW t \in Tasks, NEW socket, NEW at \in {"sub", "unsub"}, NEW want \in SUBSET Quoted,
         NEW todo \in SUBSET Quoted, NEW have \in SUBSET Quoted, GoesOn(t, socket, at, want, todo, have)
  PROVE  \E x \in Reconciliations : Moves(t, x, socket, at, want, todo, have)
<1>1. CASE Sends(t, socket, at, want, todo, have)
  <2>1. PICK x \in Reconciliations, c \in todo : SendMoves(t, x, c, socket, at, want, todo, have)
    BY <1>1, SendsMoves
  <2>2. Took(x, at, want, todo, have, subscribed')
    BY <2>1 DEF Took, SendMoves
  <2>3. Moves(t, x, socket, at, want, todo, have)
    BY <2>1, <2>2 DEF Moves, SendMoves
  <2> QED
    BY <2>3
<1>2. CASE at = "sub" /\ todo = {} /\ Sends(t, socket, "unsub", want, have \ want, have)
  <2>0. PICK list \in SUBSET Quoted : list = have \ want
    OBVIOUS
  <2>1. PICK x \in Reconciliations, c \in list : SendMoves(t, x, c, socket, "unsub", want, list, have)
    BY <1>2, <2>0, SendsMoves
  <2>2. Took(x, at, want, todo, have, subscribed')
    BY <1>2, <2>0, <2>1 DEF Took, SendMoves
  <2>3. Moves(t, x, socket, at, want, todo, have)
    BY <2>1, <2>2 DEF Moves, SendMoves
  <2> QED
    BY <2>3
<1>3. CASE /\ socket = "down" \/ (todo = {} /\ (at = "unsub" \/ have \subseteq want))
           /\ task' = [task EXCEPT ![t] = Idle]
           /\ subscribed' = have
           /\ UNCHANGED wire
  <2>1. PICK x \in Reconciliations : x = Idle /\ x.at = "idle" /\ x.sending = {}
    BY IdleIsTyped
  <2>2. socket = "up" => Took(x, at, want, todo, have, subscribed') /\ Wrote(wire, wire', have, subscribed')
    BY <1>3, <2>1 DEF Took, Wrote
  <2>3. wire' \in Seq(Frames)
    BY <1>3 DEF RealtimeTypeOK, Frames
  <2>4. Moves(t, x, socket, at, want, todo, have)
    BY <1>3, <2>1, <2>2, <2>3 DEF Moves
  <2> QED
    BY <2>4
<1> QED
  BY <1>1, <1>2, <1>3 DEF GoesOn

\* A reconciliation begins with the codes it lacks, those desired.
LEMMA BeginsMoves ==
  ASSUME RealtimeTypeOK, NEW t \in Tasks, NEW socket, NEW have \in SUBSET Quoted, Begins(t, socket, have)
  PROVE  /\ \E x \in Reconciliations : Moves(t, x, socket, "sub", Desired, Desired \ have, have)
         /\ wanted' = Desired /\ crossing' \in SUBSET Quoted
         /\ \A u \in Tasks \ {t} : task[u].at # "idle" =>
              \A c \in Quoted \ crossing' : c \in task[u].want <=> c \in Desired
<1>1. Desired \in SUBSET Quoted /\ \A u \in Tasks : task[u].want \in SUBSET Quoted
  BY DEF Desired, RealtimeTypeOK
<1>2. \E x \in Reconciliations : Moves(t, x, socket, "sub", Desired, Desired \ have, have)
  <2>1. PICK want \in SUBSET Quoted, todo \in SUBSET Quoted : want = Desired /\ todo = Desired \ have
    BY <1>1
  <2>2. GoesOn(t, socket, "sub", want, todo, have)
    BY <2>1 DEF Begins
  <2>3. \E x \in Reconciliations : Moves(t, x, socket, "sub", want, todo, have)
    BY <2>2, GoesOnMoves
  <2> QED
    BY <2>1, <2>3
<1>3. crossing' = UNION {SymDiff(task[u].want, Desired) : u \in {v \in Tasks \ {t} : task[v].at # "idle"}}
  BY DEF Begins
<1>4. \A u \in Tasks : SymDiff(task[u].want, Desired) \in SUBSET Quoted
  BY <1>1 DEF SymDiff
<1>5. crossing' \in SUBSET Quoted
  BY <1>3, <1>4
<1>6. ASSUME NEW u \in Tasks \ {t}, task[u].at # "idle", NEW c \in Quoted \ crossing'
      PROVE  c \in task[u].want <=> c \in Desired
  <2>1. c \notin SymDiff(task[u].want, Desired)
    BY <1>3, <1>6
  <2> QED
    BY <2>1 DEF SymDiff
<1> QED
  BY <1>2, <1>5, <1>6 DEF Begins

\* A send that has ended, written or failed.
LEMMA SentMoves ==
  ASSUME RealtimeTypeOK, NEW t \in Tasks, task[t].at # "idle", SendEnd(t) \/ SendFails(t)
  PROVE  /\ \E x \in Reconciliations, have \in SUBSET Quoted :
              /\ Moves(t, x, link, task[t].at, task[t].want, task[t].todo, have)
              /\ link = "up" => have = subscribed
         /\ UNCHANGED <<manager, link, approval, atKis, begun, breaks>>
<1>1. /\ task[t].at \in {"sub", "unsub"} /\ task[t].want \in SUBSET Quoted /\ task[t].todo \in SUBSET Quoted
      /\ task[t].sending \in SUBSET Quoted /\ subscribed \in SUBSET Quoted
  BY DEF RealtimeTypeOK
<1>2. PICK have \in SUBSET Quoted :
        GoesOn(t, link, task[t].at, task[t].want, task[t].todo, have) /\ (link = "up" => have = subscribed)
  <2>1. CASE SendEnd(t)
    BY <1>1, <2>1 DEF SendEnd
  <2>2. CASE SendFails(t)
    <3>1. PICK have \in SUBSET Quoted :
            have = IF task[t].at = "sub" THEN subscribed \ task[t].sending ELSE subscribed \cup task[t].sending
      BY <1>1
    <3> QED
      BY <2>2, <3>1 DEF SendFails
  <2> QED
    BY <2>1, <2>2
<1>3. \E x \in Reconciliations : Moves(t, x, link, task[t].at, task[t].want, task[t].todo, have)
  <2>1. PICK at \in {"sub", "unsub"}, want \in SUBSET Quoted, todo \in SUBSET Quoted :
          at = task[t].at /\ want = task[t].want /\ todo = task[t].todo
    BY <1>1
  <2>2. \E x \in Reconciliations : Moves(t, x, link, at, want, todo, have)
    BY <1>2, <2>1, GoesOnMoves
  <2> QED
    BY <2>1, <2>2
<1> QED
  BY <1>2, <1>3 DEF SendEnd, SendFails

\* The frame at the head of the wire is one of the manager's.
LEMMA HeadOfWire ==
  ASSUME RealtimeTypeOK, wire # << >>
  PROVE  Head(wire) \in Frames /\ Tail(wire) \in Seq(Frames)
<1>1. wire \in Seq(Frames)
  BY DEF RealtimeTypeOK, Frames
<1> QED
  BY <1>1, HeadTailProperties

LEMMA OtherCounts ==
  ASSUME CountInvOfStreams, UNCHANGED <<stream, desired>>, RealtimeTypeOK'
  PROVE  CountInvOfStreams'
<1>1. \A c \in Quoted : Holders(c)' = Holders(c)
  BY DEF Holders
<1> QED
  BY <1>1 DEF CountInvOfStreams, CountsAreStreams

\* A task that sends is at work.
SendersWork == \A t \in Tasks : task[t].at = "idle" => task[t].sending = {}

LEMMA MovedCounts ==
  ASSUME RealtimeTypeOK, SendersWork, NEW t \in Tasks, NEW x \in Reconciliations,
         NEW socket, NEW at, NEW want, NEW todo, NEW have, Moves(t, x, socket, at, want, todo, have)
  PROVE  /\ task' \in [Tasks -> Reconciliations] /\ SendersWork'
         /\ subscribed' \in SUBSET Quoted /\ wire' \in Seq(Frames)
<1>1. task' \in [Tasks -> Reconciliations] /\ task'[t] = x /\ \A u \in Tasks \ {t} : task'[u] = task[u]
  BY TaskIsTyped DEF Moves
<1>2. SendersWork'
  BY <1>1 DEF Moves, SendersWork
<1> QED
  BY <1>1, <1>2 DEF Moves

LEMMA RealtimeStepCounts ==
  CountInvOfStreams /\ SendersWork /\ [RealtimeNext]_realtimeVars => CountInvOfStreams' /\ SendersWork'
<1> SUFFICES ASSUME CountInvOfStreams, SendersWork, [RealtimeNext]_realtimeVars
             PROVE  CountInvOfStreams' /\ SendersWork'
  OBVIOUS
<1> USE DEF manager, atKis, begun
<1>0. RealtimeTypeOK
  BY DEF CountInvOfStreams
<1>1. ASSUME NEW s \in Streams, NEW c \in Quoted, Acquire(s, c) \/ Release(s, c)
      PROVE  CountInvOfStreams' /\ SendersWork'
  <2>1. task' = task
    BY <1>1 DEF Acquire, Release
  <2> QED
    BY <1>1, <2>1, AcquireCounts, ReleaseCounts DEF SendersWork
<1>2. CASE LoopWake
  <2>1. CASE link = "down"
    <3>1. RealtimeTypeOK' /\ SendersWork'
      BY <1>0, <1>2, <2>1 DEF LoopWake, RealtimeTypeOK, SendersWork
    <3> QED
      BY <1>2, <3>1, OtherCounts DEF LoopWake
  <2>2. CASE link # "down"
    <3>1. Begins("loop", link, subscribed) /\ "loop" \in Tasks /\ subscribed \in SUBSET Quoted
      BY <1>0, <1>2, <2>2 DEF LoopWake, Tasks, RealtimeTypeOK
    <3>2. PICK x \in Reconciliations : Moves("loop", x, link, "sub", Desired, Desired \ subscribed, subscribed)
      BY <1>0, <3>1, BeginsMoves
    <3>3. wanted' \in SUBSET Quoted /\ crossing' \in SUBSET Quoted
      BY <1>0, <3>1, BeginsMoves DEF Desired
    <3>4. /\ task' \in [Tasks -> Reconciliations] /\ SendersWork'
          /\ subscribed' \in SUBSET Quoted /\ wire' \in Seq(Frames)
      BY <1>0, <3>1, <3>2, MovedCounts
    <3>5. RealtimeTypeOK'
      BY <1>0, <1>2, <3>3, <3>4 DEF LoopWake, RealtimeTypeOK, Reconciliations, Frames
    <3> QED
      BY <1>2, <3>4, <3>5, OtherCounts DEF LoopWake
  <2> QED
    BY <2>1, <2>2
<1>3. ASSUME NEW t \in Tasks, SendEnd(t) \/ SendFails(t) PROVE CountInvOfStreams' /\ SendersWork'
  <2>1. task[t].at # "idle"
    BY <1>3 DEF SendersWork, SendEnd, SendFails
  <2>2. PICK x \in Reconciliations, have \in SUBSET Quoted :
          Moves(t, x, link, task[t].at, task[t].want, task[t].todo, have)
    BY <1>0, <1>3, <2>1, SentMoves
  <2>3. /\ task' \in [Tasks -> Reconciliations] /\ SendersWork'
        /\ subscribed' \in SUBSET Quoted /\ wire' \in Seq(Frames)
    BY <1>0, <2>2, MovedCounts
  <2>4. UNCHANGED <<manager, link, approval, atKis, begun, breaks>>
    BY <1>3 DEF SendEnd, SendFails
  <2>5. RealtimeTypeOK'
    BY <1>0, <2>3, <2>4 DEF RealtimeTypeOK, Reconciliations, Frames
  <2> QED
    BY <2>3, <2>4, <2>5, OtherCounts
<1>4. CASE Approve \/ Notice
  <2>1. RealtimeTypeOK' /\ SendersWork'
    BY <1>0, <1>4 DEF Approve, Notice, RealtimeTypeOK, SendersWork
  <2> QED
    BY <1>4, <2>1, OtherCounts DEF Approve, Notice
<1>5. CASE Connect
  <2>1. Begins("run", "up", {}) /\ "run" \in Tasks
    BY <1>5 DEF Connect, Tasks
  <2>2. PICK x \in Reconciliations : Moves("run", x, "up", "sub", Desired, Desired \ {}, {})
    BY <1>0, <2>1, BeginsMoves
  <2>3. wanted' \in SUBSET Quoted /\ crossing' \in SUBSET Quoted
    BY <1>0, <2>1, BeginsMoves DEF Desired
  <2>4. /\ task' \in [Tasks -> Reconciliations] /\ SendersWork'
        /\ subscribed' \in SUBSET Quoted /\ wire' \in Seq(Frames)
    BY <1>0, <2>1, <2>2, MovedCounts
  <2>5. RealtimeTypeOK'
    BY <1>0, <1>5, <2>3, <2>4 DEF Connect, RealtimeTypeOK, Reconciliations, Frames
  <2> QED
    BY <1>5, <2>4, <2>5, OtherCounts DEF Connect
<1>6. CASE KisReceive
  <2>1. Head(wire).code \in Quoted /\ wire' \in Seq(Frames)
    BY <1>0, <1>6, HeadOfWire DEF KisReceive, Frames
  <2>2. registered' \in SUBSET Quoted /\ refused' \in SUBSET Quoted
    BY <1>0, <1>6, <2>1 DEF KisReceive, RealtimeTypeOK
  <2>3. RealtimeTypeOK' /\ SendersWork'
    BY <1>0, <1>6, <2>1, <2>2 DEF KisReceive, RealtimeTypeOK, Frames, SendersWork
  <2> QED
    BY <1>6, <2>3, OtherCounts DEF KisReceive
<1>7. CASE Break
  <2>1. RealtimeTypeOK' /\ SendersWork'
    BY <1>0, <1>7, RealtimeAssumption DEF Break, RealtimeTypeOK, SendersWork
  <2> QED
    BY <1>7, <2>1, OtherCounts DEF Break
<1>8. CASE UNCHANGED realtimeVars
  <2>1. RealtimeTypeOK' /\ SendersWork'
    BY <1>0, <1>8 DEF realtimeVars, RealtimeTypeOK, SendersWork
  <2> QED
    BY <1>8, <2>1, OtherCounts DEF realtimeVars
<1> QED
  BY <1>1, <1>2, <1>3, <1>4, <1>5, <1>6, <1>7, <1>8 DEF RealtimeNext

LEMMA RealtimeInitSenders == RealtimeInit => SendersWork
  BY IdleIsTyped DEF RealtimeInit, SendersWork

\* Codes, tasks, frames and the connection keep their types, for any streams.
THEOREM RealtimeTypeCorrect == RealtimeSpec => []RealtimeTypeOK
<1>1. CountInvOfStreams => RealtimeTypeOK
  BY DEF CountInvOfStreams
<1> QED
  BY <1>1, RealtimeInitCounts, RealtimeInitSenders, RealtimeStepCounts, PTL DEF RealtimeSpec

\* acquire and release: however streams overlap and end, a code is counted
\* once for each stream that holds it; no count leaks and none is dropped.
THEOREM NoCountLeaks == RealtimeSpec => []CountsAreStreams
<1>1. CountInvOfStreams => CountsAreStreams
  BY DEF CountInvOfStreams
<1> QED
  BY <1>1, RealtimeInitCounts, RealtimeInitSenders, RealtimeStepCounts, PTL DEF RealtimeSpec

\* The last frame of a code on a wire.
LastOf(w, i, c) == w[i].code = c /\ \A k \in (i + 1)..Len(w) : w[k].code # c
\* When every frame has arrived, KIS has the codes of a set.
WillHave(reg, w, have) ==
  \A c \in Quoted :
    /\ \A i \in 1..Len(w) : LastOf(w, i, c) => (w[i].on <=> c \in have)
    /\ (\A i \in 1..Len(w) : w[i].code # c) => (c \in reg <=> c \in have)

LEMMA FrameAppended ==
  ASSUME NEW w \in Seq(Frames), NEW reg, NEW have, WillHave(reg, w, have), NEW f \in Frames
  PROVE  WillHave(reg, Append(w, f), IF f.on THEN have \cup {f.code} ELSE have \ {f.code})
<1> DEFINE v == Append(w, f)
           c == f.code
           new == IF f.on THEN have \cup {c} ELSE have \ {c}
<1>1. c \in Quoted
  BY DEF Frames
<1>2. /\ Len(w) \in Nat /\ Len(v) = Len(w) + 1 /\ v[Len(w) + 1] = f
      /\ \A i \in 1..Len(w) : v[i] = w[i]
  BY <1>1
<1> HIDE DEF v
<1> SUFFICES ASSUME NEW d \in Quoted
             PROVE  /\ \A i \in 1..Len(v) : LastOf(v, i, d) => (v[i].on <=> d \in new)
                    /\ (\A i \in 1..Len(v) : v[i].code # d) => (d \in reg <=> d \in new)
  BY DEF WillHave, v
<1>3. CASE d = c
  <2>1. ASSUME NEW i \in 1..Len(v), LastOf(v, i, d) PROVE i = Len(w) + 1
    BY <1>1, <1>2, <1>3, <2>1 DEF LastOf
  <2>2. c \in new <=> f.on
    OBVIOUS
  <2>3. Len(w) + 1 \in 1..Len(v)
    BY <1>2
  <2> QED
    BY <1>1, <1>2, <1>3, <2>1, <2>2, <2>3
<1>4. CASE d # c
  <2>1. d \in new <=> d \in have
    BY <1>4
  <2>2. ASSUME NEW i \in 1..Len(v), LastOf(v, i, d) PROVE i \in 1..Len(w) /\ LastOf(w, i, d)
    <3>1. i # Len(w) + 1
      BY <1>1, <1>2, <1>4, <2>2 DEF LastOf
    <3>2. i \in 1..Len(w)
      BY <1>2, <3>1
    <3>3. w[i].code = d
      BY <1>2, <2>2, <3>2 DEF LastOf
    <3>4. ASSUME NEW k \in (i + 1)..Len(w) PROVE w[k].code # d
      <4>1. k \in (i + 1)..Len(v) /\ k \in 1..Len(w)
        BY <1>2, <3>2
      <4> QED
        BY <1>2, <2>2, <4>1 DEF LastOf
    <3> QED
      BY <3>2, <3>3, <3>4 DEF LastOf
  <2>3. ASSUME \A i \in 1..Len(v) : v[i].code # d PROVE \A i \in 1..Len(w) : w[i].code # d
    <3> SUFFICES ASSUME NEW i \in 1..Len(w) PROVE w[i].code # d
      OBVIOUS
    <3>1. i \in 1..Len(v)
      BY <1>2
    <3> QED
      BY <1>2, <2>3, <3>1
  <2>4. \A i \in 1..Len(v) : LastOf(v, i, d) => (v[i].on <=> d \in new)
    BY <1>2, <2>1, <2>2 DEF WillHave
  <2>5. (\A i \in 1..Len(v) : v[i].code # d) => (d \in reg <=> d \in new)
    BY <2>1, <2>3 DEF WillHave
  <2> QED
    BY <2>4, <2>5
<1> QED
  BY <1>3, <1>4

LEMMA FrameTaken ==
  ASSUME NEW w \in Seq(Frames), w # << >>, NEW reg, NEW have, WillHave(reg, w, have)
  PROVE  WillHave(IF Head(w).on THEN reg \cup {Head(w).code} ELSE reg \ {Head(w).code}, Tail(w), have)
<1> DEFINE v == Tail(w)
           c == Head(w).code
           new == IF Head(w).on THEN reg \cup {c} ELSE reg \ {c}
<1>1. /\ Len(w) \in Nat \ {0} /\ Len(v) = Len(w) - 1 /\ Head(w) = w[1]
      /\ \A i \in 1..Len(v) : v[i] = w[i + 1]
  BY HeadTailProperties
<1> HIDE DEF v
<1> SUFFICES ASSUME NEW d \in Quoted
             PROVE  /\ \A i \in 1..Len(v) : LastOf(v, i, d) => (v[i].on <=> d \in have)
                    /\ (\A i \in 1..Len(v) : v[i].code # d) => (d \in new <=> d \in have)
  BY DEF WillHave, v
<1>2. ASSUME NEW i \in 1..Len(v), LastOf(v, i, d) PROVE v[i].on <=> d \in have
  <2>1. i + 1 \in 1..Len(w) /\ v[i] = w[i + 1]
    BY <1>1
  <2>2. ASSUME NEW k \in (i + 2)..Len(w) PROVE w[k].code # d
    <3>1. k - 1 \in (i + 1)..Len(v) /\ k - 1 \in 1..Len(v) /\ (k - 1) + 1 = k
      BY <1>1
    <3> QED
      BY <1>1, <1>2, <3>1 DEF LastOf
  <2>3. LastOf(w, i + 1, d)
    BY <1>2, <2>1, <2>2 DEF LastOf
  <2> QED
    BY <2>1, <2>3 DEF WillHave
<1>3. ASSUME \A i \in 1..Len(v) : v[i].code # d PROVE d \in new <=> d \in have
  <2>1. ASSUME NEW k \in 2..Len(w) PROVE w[k].code # d
    <3>1. k - 1 \in 1..Len(v) /\ (k - 1) + 1 = k
      BY <1>1
    <3> QED
      BY <1>1, <1>3, <3>1
  <2>2. CASE d = c
    <3>1. LastOf(w, 1, d) /\ 1 \in 1..Len(w)
      BY <1>1, <2>1, <2>2 DEF LastOf
    <3>2. Head(w).on <=> d \in have
      BY <1>1, <3>1 DEF WillHave
    <3> QED
      BY <2>2, <3>2
  <2>3. CASE d # c
    <3>1. ASSUME NEW i \in 1..Len(w) PROVE w[i].code # d
      <4>1. i = 1 \/ i \in 2..Len(w)
        BY <1>1
      <4> QED
        BY <1>1, <2>1, <2>3, <4>1
    <3>2. d \in reg <=> d \in have
      BY <3>1 DEF WillHave
    <3> QED
      BY <2>3, <3>2
  <2> QED
    BY <2>2, <2>3
<1> QED
  BY <1>2, <1>3

LEMMA AllArrived ==
  ASSUME NEW reg \in SUBSET Quoted, NEW have \in SUBSET Quoted
  PROVE  WillHave(reg, << >>, have) <=> reg = have
  BY DEF WillHave

\* A task at work works for the codes that are wanted, but for those two tasks differ in; it registers what it
\* wants and drops what it does not want.
Works(x, want, but) ==
  /\ x.at # "idle" => \A c \in Quoted \ but : c \in x.want <=> c \in want
  /\ x.at = "sub" => x.todo \subseteq x.want
  /\ x.at = "unsub" => x.todo \cap x.want = {}

\* A code is marked as it is wanted, or a task still has it before it.
Handled(c, tasks, want, have) ==
  /\ c \in want => c \in have \/ \E t \in Tasks : tasks[t].at = "sub" /\ c \in tasks[t].todo
  /\ c \notin want => c \notin have \/ \E t \in Tasks : tasks[t].at = "sub" \/ (tasks[t].at = "unsub" /\ c \in tasks[t].todo)

TasksInv ==
  /\ \A t \in Tasks : Works(task[t], wanted, crossing)
  /\ \A c \in Quoted \ crossing : Handled(c, task, wanted, subscribed)

LinkInv ==
  /\ SendersWork
  /\ link = "up" => TasksInv
  /\ link = "up" /\ ~event => wanted = Desired
  /\ link = "up" => WillHave(registered \cup refused, wire, subscribed)
  /\ link # "up" => wire = << >> /\ registered = {} /\ refused = {}
  /\ registered \cap refused = {}

QuotesInv == CountInvOfStreams /\ LinkInv

LEMMA RealtimeInitQuotes == RealtimeInit => QuotesInv
  BY RealtimeInitCounts, RealtimeInitSenders DEF RealtimeInit, QuotesInv, LinkInv

\* Streams come and go; a code that begins or ends to be desired wakes the loop.
LEMMA StreamsQuotes ==
  ASSUME QuotesInv, SendersWork', NEW s \in Streams, NEW c \in Quoted, Acquire(s, c) \/ Release(s, c)
  PROVE  LinkInv'
<1>1. UNCHANGED <<subscribed, task, link, approval, wire, atKis, begun>>
  BY DEF Acquire, Release
<1>2. RealtimeTypeOK
  BY DEF QuotesInv, CountInvOfStreams
<1>3. ~event' => Desired' = Desired /\ ~event
  <2>1. CASE Acquire(s, c)
    <3>1. ~event' => ~event /\ desired[c] > 0
      <4>1. ~event' => ~event /\ desired[c] # 0
        BY <2>1, Zenon DEF Acquire
      <4> QED
        BY <1>2, <4>1 DEF RealtimeTypeOK
    <3>2. desired[c] > 0 => \A d \in Quoted : desired'[d] > 0 <=> desired[d] > 0
      BY <1>2, <2>1 DEF Acquire, RealtimeTypeOK
    <3> QED
      BY <3>1, <3>2 DEF Desired
  <2>2. CASE Release(s, c)
    <3>1. desired[c] > 0
      BY <2>2, ReleaseCounts DEF QuotesInv
    <3> QED
      <4>1. ~event' => ~event /\ desired[c] > 1
        <5>1. ~event' => ~event /\ desired[c] # 1
          BY <2>2, Zenon DEF Release
        <5> QED
          BY <1>2, <3>1, <5>1 DEF RealtimeTypeOK
      <4>2. desired[c] > 1 => \A d \in Quoted : desired'[d] > 0 <=> desired[d] > 0
        BY <1>2, <2>2 DEF Release, RealtimeTypeOK
      <4> QED
        BY <4>1, <4>2 DEF Desired
  <2> QED
    BY <2>1, <2>2
<1>4. TasksInv' <=> TasksInv
  BY <1>1 DEF TasksInv, Works, Handled, begun
<1>5. WillHave(registered \cup refused, wire, subscribed)' = WillHave(registered \cup refused, wire, subscribed)
  BY <1>1 DEF WillHave, LastOf, atKis
<1> QED
  BY <1>1, <1>3, <1>4, <1>5 DEF QuotesInv, LinkInv, atKis, begun

\* A reconciliation that begins has every code before it that is not marked as it is desired.
LEMMA BegunHandles ==
  ASSUME NEW c \in Quoted, NEW t \in Tasks, NEW x, NEW tasks, tasks[t] = x, NEW want, NEW have, NEW now,
         Took(x, "sub", want, want \ have, have, now)
  PROVE  Handled(c, tasks, want, now) /\ Works(x, want, {})
<1>1. Works(x, want, {})
  BY DEF Took, Works
<1>2. Handled(c, tasks, want, now)
  BY DEF Took, Handled
<1> QED
  BY <1>1, <1>2

\* A reconciliation that comes on leaves no code behind, and takes none from the other task.
ComesOn(t, tasks, others, want, but, have, now) ==
  /\ \A u \in Tasks \ {t} : others[u] = tasks[u]
  /\ tasks[t].at \in {"sub", "unsub"} /\ Works(tasks[t], want, but)
  /\ Took(others[t], tasks[t].at, tasks[t].want, tasks[t].todo, have, now)

LEMMA TookHandles ==
  ASSUME NEW c \in Quoted, NEW t \in Tasks, NEW tasks, NEW others, NEW want, NEW but, NEW have, NEW now,
         c \notin but, Handled(c, tasks, want, have), ComesOn(t, tasks, others, want, but, have, now)
  PROVE  Handled(c, others, want, now)
<1>1. c \in tasks[t].want <=> c \in want
  BY DEF ComesOn, Works
<1>2. ASSUME c \in want PROVE c \in now \/ \E v \in Tasks : others[v].at = "sub" /\ c \in others[v].todo
  <2>1. CASE c \in have
    BY <1>1, <1>2, <2>1 DEF ComesOn, Took, Works
  <2>2. ASSUME NEW v \in Tasks \ {t}, tasks[v].at = "sub", c \in tasks[v].todo
        PROVE  \E u \in Tasks : others[u].at = "sub" /\ c \in others[u].todo
    BY <2>2 DEF ComesOn
  <2>3. CASE tasks[t].at = "sub" /\ c \in tasks[t].todo
    <3>1. c \in now \/ (others[t].at = "sub" /\ c \in others[t].todo)
      BY <2>3 DEF ComesOn, Took
    <3> QED
      BY <3>1
  <2> QED
    BY <1>2, <2>1, <2>2, <2>3 DEF Handled
<1>3. ASSUME c \notin want
      PROVE  c \notin now \/ \E v \in Tasks : others[v].at = "sub" \/ (others[v].at = "unsub" /\ c \in others[v].todo)
  <2>1. CASE c \notin have
    BY <1>1, <1>3, <2>1 DEF ComesOn, Took, Works
  <2>2. ASSUME NEW v \in Tasks \ {t}, tasks[v].at = "sub" \/ (tasks[v].at = "unsub" /\ c \in tasks[v].todo)
        PROVE  \E u \in Tasks : others[u].at = "sub" \/ (others[u].at = "unsub" /\ c \in others[u].todo)
    BY <2>2 DEF ComesOn
  <2>3. CASE tasks[t].at = "sub" \/ (tasks[t].at = "unsub" /\ c \in tasks[t].todo)
    <3>1. c \notin now \/ others[t].at = "sub" \/ (others[t].at = "unsub" /\ c \in others[t].todo)
      BY <1>1, <1>3, <2>3 DEF ComesOn, Took
    <3> QED
      BY <3>1
  <2> QED
    BY <1>3, <2>1, <2>2, <2>3 DEF Handled
<1> QED
  BY <1>2, <1>3 DEF Handled

LEMMA TookWorks ==
  ASSUME NEW y, NEW x, NEW want, NEW but, NEW have, NEW now, y.at \in {"sub", "unsub"},
         Works(y, want, but), Took(x, y.at, y.want, y.todo, have, now)
  PROVE  Works(x, want, but)
  BY DEF Took, Works

\* The frames keep the order of the marks.
LEMMA WroteWillHave ==
  ASSUME NEW w \in Seq(Frames), NEW v, NEW reg, NEW have, NEW now, WillHave(reg, w, have), Wrote(w, v, have, now)
  PROVE  WillHave(reg, v, now)
<1>1. CASE v = w /\ now = have
  BY <1>1
<1>2. ASSUME NEW f \in Frames, v = Append(w, f), now = IF f.on THEN have \cup {f.code} ELSE have \ {f.code}
      PROVE  WillHave(reg, v, now)
  <2>1. PICK after : after = IF f.on THEN have \cup {f.code} ELSE have \ {f.code}
    OBVIOUS
  <2>2. WillHave(reg, Append(w, f), after)
    BY <2>1, FrameAppended
  <2> QED
    BY <1>2, <2>1, <2>2
<1> QED
  BY <1>1, <1>2 DEF Wrote

\* What a reconciliation that begins over a socket brings about.
LEMMA BegunTasks ==
  ASSUME RealtimeTypeOK, NEW t \in Tasks, NEW x \in Reconciliations, NEW have \in SUBSET Quoted,
         Moves(t, x, "up", "sub", Desired, Desired \ have, have), wanted' = Desired,
         \A u \in Tasks \ {t} : task[u].at # "idle" =>
           /\ \A c \in Quoted \ crossing' : c \in task[u].want <=> c \in Desired
           /\ Works(task[u], wanted, crossing)
  PROVE  TasksInv'
<1>1. task'[t] = x /\ \A u \in Tasks \ {t} : task'[u] = task[u]
  BY TaskIsTyped DEF Moves
<1>2. Took(x, "sub", Desired, Desired \ have, have, subscribed')
  BY DEF Moves
<1>3. PICK want, now, tasks : want = Desired /\ now = subscribed' /\ tasks = task'
  OBVIOUS
<1>4. \A c \in Quoted : Handled(c, tasks, want, now) /\ Works(x, want, {})
  BY <1>1, <1>2, <1>3, BegunHandles
<1>5. \A c \in Quoted : Handled(c, task', wanted', subscribed')
  BY <1>3, <1>4
<1>6. Works(x, wanted', crossing')
  <2>1. Works(x, want, {})
    BY <1>2, <1>3, <1>4 DEF Took, Works
  <2> QED
    BY <1>3, <2>1 DEF Works
<1>7. ASSUME NEW u \in Tasks \ {t} PROVE Works(task[u], wanted', crossing')
  BY DEF Works
<1>8. \A u \in Tasks : Works(task'[u], wanted', crossing')
  BY <1>1, <1>6, <1>7
<1> QED
  BY <1>5, <1>8 DEF TasksInv, Handled

LEMMA BeginsQuotes ==
  ASSUME QuotesInv, SendersWork', LoopWake \/ Connect
  PROVE  LinkInv'
<1>1. RealtimeTypeOK /\ LinkInv
  BY DEF QuotesInv, CountInvOfStreams
<1>2. Desired' = Desired /\ UNCHANGED <<registered, refused>>
  BY DEF LoopWake, Connect, manager, Desired, atKis
<1>3. "loop" \in Tasks /\ "run" \in Tasks /\ subscribed \in SUBSET Quoted /\ wire \in Seq(Frames)
  BY <1>1 DEF Tasks, RealtimeTypeOK, Frames
<1>4. CASE LoopWake /\ link = "down"
  <2>1. UNCHANGED <<link, wire>>
    BY <1>4 DEF LoopWake
  <2> QED
    BY <1>1, <1>2, <1>4, <2>1 DEF LinkInv
<1>5. CASE LoopWake /\ link # "down"
  <2>1. Begins("loop", link, subscribed) /\ link' = link
    BY <1>5 DEF LoopWake
  <2>2. PICK x \in Reconciliations : Moves("loop", x, link, "sub", Desired, Desired \ subscribed, subscribed)
    BY <1>1, <1>3, <2>1, BeginsMoves
  <2>3. wanted' = Desired /\ \A u \in Tasks \ {"loop"} : task[u].at # "idle" =>
              \A c \in Quoted \ crossing' : c \in task[u].want <=> c \in Desired
    BY <1>1, <1>3, <2>1, BeginsMoves
  <2>4. CASE link = "up"
    <3>1. \A u \in Tasks : Works(task[u], wanted, crossing)
      BY <1>1, <2>4 DEF LinkInv, TasksInv
    <3>2. Moves("loop", x, "up", "sub", Desired, Desired \ subscribed, subscribed)
      BY <2>2, <2>4
    <3>3. TasksInv'
      BY <1>1, <1>3, <2>3, <3>1, <3>2, BegunTasks
    <3>4. Wrote(wire, wire', subscribed, subscribed')
      BY <3>2 DEF Moves
    <3>5. PICK reg, v, now : reg = registered \cup refused /\ v = wire' /\ now = subscribed'
      OBVIOUS
    <3>6. WillHave(reg, wire, subscribed)
      BY <1>1, <2>4, <3>5 DEF LinkInv
    <3>7. WillHave(reg, v, now)
      BY <1>3, <3>4, <3>5, <3>6, WroteWillHave
    <3> QED
      BY <1>1, <1>2, <2>1, <2>3, <2>4, <3>3, <3>5, <3>7 DEF LinkInv
  <2>5. CASE link # "up"
    <3>1. wire' = wire
      BY <2>2, <2>5 DEF Moves
    <3> QED
      BY <1>1, <1>2, <2>1, <2>5, <3>1 DEF LinkInv
  <2> QED
    BY <2>4, <2>5
<1>6. CASE Connect
  <2>1. Begins("run", "up", {}) /\ link' = "up" /\ link = "down" /\ task["loop"].at = "idle"
    BY <1>6 DEF Connect
  <2>0. PICK none \in SUBSET Quoted : none = {}
    OBVIOUS
  <2>2. PICK x \in Reconciliations : Moves("run", x, "up", "sub", Desired, Desired \ none, none)
    BY <1>1, <1>3, <2>0, <2>1, BeginsMoves
  <2>3. wanted' = Desired
    BY <1>1, <1>3, <2>0, <2>1, BeginsMoves
  <2>4. \A u \in Tasks \ {"run"} : task[u].at = "idle"
    BY <2>1 DEF Tasks
  <2>5. TasksInv'
    BY <1>1, <1>3, <2>2, <2>3, <2>4, BegunTasks
  <2>6. Wrote(<< >>, wire', {}, subscribed') /\ registered = {} /\ refused = {}
    BY <1>1, <2>0, <2>1, <2>2 DEF Moves, LinkInv
  <2>7. PICK reg, v, now : reg = registered \cup refused /\ v = wire' /\ now = subscribed'
    OBVIOUS
  <2>8. WillHave(reg, << >>, {}) /\ << >> \in Seq(Frames)
    BY <2>6, <2>7 DEF WillHave
  <2>9. WillHave(reg, v, now)
    BY <2>6, <2>7, <2>8, WroteWillHave
  <2> QED
    BY <1>2, <2>1, <2>3, <2>5, <2>6, <2>7, <2>9 DEF LinkInv
<1> QED
  BY <1>4, <1>5, <1>6

\* The frame is written and the task comes on; or the connection is lost and the mark taken back.
LEMMA SentQuotes ==
  ASSUME QuotesInv, SendersWork', NEW t \in Tasks, SendEnd(t) \/ SendFails(t)
  PROVE  LinkInv'
<1>1. RealtimeTypeOK /\ LinkInv
  BY DEF QuotesInv, CountInvOfStreams
<1>2. task[t].at # "idle"
  BY <1>1 DEF LinkInv, SendersWork, SendEnd, SendFails
<1>3. PICK x \in Reconciliations, have \in SUBSET Quoted :
        /\ Moves(t, x, link, task[t].at, task[t].want, task[t].todo, have)
        /\ link = "up" => have = subscribed
  BY <1>1, <1>2, SentMoves
<1>4. Desired' = Desired /\ UNCHANGED <<event, link, registered, refused, wanted, crossing>>
  BY DEF SendEnd, SendFails, manager, Desired, atKis, begun
<1>5. task'[t] = x /\ \A u \in Tasks \ {t} : task'[u] = task[u]
  BY <1>1, <1>3, TaskIsTyped DEF Moves
<1>6. CASE link = "up"
  <2>1. /\ Took(x, task[t].at, task[t].want, task[t].todo, subscribed, subscribed')
        /\ Wrote(wire, wire', subscribed, subscribed')
    BY <1>3, <1>6 DEF Moves
  <2>2. TasksInv /\ WillHave(registered \cup refused, wire, subscribed) /\ wire \in Seq(Frames)
    BY <1>1, <1>6 DEF LinkInv, RealtimeTypeOK, Frames
  <2>3. task[t].at \in {"sub", "unsub"}
    BY <1>1, <1>2 DEF RealtimeTypeOK
  <2>4. PICK now, others, v, reg : now = subscribed' /\ others = task' /\ v = wire' /\ reg = registered \cup refused
    OBVIOUS
  <2>5. ASSUME NEW c \in Quoted \ crossing PROVE Handled(c, others, wanted, now)
    <3>1. Works(task[t], wanted, crossing) /\ Handled(c, task, wanted, subscribed)
      BY <2>2 DEF TasksInv
    <3>2. ComesOn(t, task, others, wanted, crossing, subscribed, now)
      BY <1>5, <2>1, <2>3, <2>4, <3>1 DEF ComesOn
    <3> QED
      BY <3>1, <3>2, TookHandles
  <2>6. Works(x, wanted, crossing)
    <3>1. Works(task[t], wanted, crossing)
      BY <2>2 DEF TasksInv
    <3>2. Took(x, task[t].at, task[t].want, task[t].todo, subscribed, now)
      BY <2>1, <2>4
    <3> QED
      BY <2>3, <3>1, <3>2, TookWorks
  <2>7. \A u \in Tasks : Works(task'[u], wanted, crossing)
    BY <1>5, <2>2, <2>6 DEF TasksInv
  <2>8. \A c \in Quoted \ crossing : Handled(c, task', wanted, subscribed')
    BY <2>4, <2>5
  <2>9. TasksInv'
    BY <1>4, <2>7, <2>8 DEF TasksInv, Works, Handled
  <2>10. WillHave(reg, v, now)
    BY <2>1, <2>2, <2>4, WroteWillHave
  <2> QED
    BY <1>1, <1>4, <1>6, <2>4, <2>9, <2>10 DEF LinkInv
<1>7. CASE link # "up"
  <2>1. wire' = wire
    BY <1>3, <1>7 DEF Moves
  <2> QED
    BY <1>1, <1>4, <1>7, <2>1 DEF LinkInv
<1> QED
  BY <1>6, <1>7

\* The connection and KIS.
LEMMA KisQuotes ==
  ASSUME QuotesInv, SendersWork', Approve \/ Notice \/ KisReceive \/ Break
  PROVE  LinkInv'
<1>1. RealtimeTypeOK /\ LinkInv
  BY DEF QuotesInv, CountInvOfStreams
<1>2. Desired' = Desired /\ UNCHANGED <<event, subscribed, task, wanted, crossing>>
  BY DEF Approve, Notice, KisReceive, Break, manager, Desired, begun
<1>3. TasksInv' <=> TasksInv
  BY <1>2 DEF TasksInv, Works, Handled
<1>4. CASE Approve
  <2>1. UNCHANGED <<link, wire, registered, refused>>
    BY <1>4 DEF Approve, atKis
  <2>2. WillHave(registered \cup refused, wire, subscribed)' <=> WillHave(registered \cup refused, wire, subscribed)
    BY <1>2, <2>1 DEF WillHave, LastOf
  <2> QED
    BY <1>1, <1>2, <1>3, <2>1, <2>2 DEF LinkInv
<1>5. CASE Notice
  <2>1. link = "broken" /\ link' = "down" /\ UNCHANGED <<wire, registered, refused>>
    BY <1>5 DEF Notice, atKis
  <2> QED
    BY <1>1, <1>2, <2>1 DEF LinkInv
<1>6. CASE KisReceive
  <2>1. Head(wire) \in Frames /\ wire \in Seq(Frames) /\ wire # << >> /\ wire' = Tail(wire) /\ link' = link
    BY <1>1, <1>6, HeadOfWire DEF KisReceive, RealtimeTypeOK, Frames
  <2>2. link = "up" /\ registered \cap refused = {}
    BY <1>1, <2>1 DEF LinkInv
  <2>3. /\ registered' \cup refused' = IF Head(wire).on THEN (registered \cup refused) \cup {Head(wire).code}
                                                        ELSE (registered \cup refused) \ {Head(wire).code}
        /\ registered' \cap refused' = {}
    BY <1>6, <2>2 DEF KisReceive
  <2>4. PICK reg, now, after : /\ reg = registered \cup refused /\ after = registered' \cup refused'
                               /\ now = IF Head(wire).on THEN reg \cup {Head(wire).code} ELSE reg \ {Head(wire).code}
    OBVIOUS
  <2>5. WillHave(reg, wire, subscribed)
    BY <1>1, <2>2, <2>4 DEF LinkInv
  <2>6. WillHave(now, Tail(wire), subscribed)
    BY <2>1, <2>4, <2>5, FrameTaken
  <2>7. after = now
    BY <2>3, <2>4
  <2>8. WillHave(registered' \cup refused', wire', subscribed')
    BY <1>2, <2>1, <2>4, <2>6, <2>7
  <2> QED
    BY <1>1, <1>2, <1>3, <2>1, <2>2, <2>3, <2>8 DEF LinkInv
<1>7. CASE Break
  <2>1. link' = "broken" /\ wire' = << >> /\ registered' = {} /\ refused' = {}
    BY <1>7 DEF Break
  <2> QED
    BY <2>1 DEF LinkInv
<1> QED
  BY <1>4, <1>5, <1>6, <1>7

LEMMA RealtimeStepQuotes == QuotesInv /\ [RealtimeNext]_realtimeVars => QuotesInv'
<1> SUFFICES ASSUME QuotesInv, [RealtimeNext]_realtimeVars PROVE QuotesInv'
  OBVIOUS
<1>1. CountInvOfStreams' /\ SendersWork'
  BY RealtimeStepCounts DEF QuotesInv, LinkInv
<1>2. CASE UNCHANGED realtimeVars
  <2>1. UNCHANGED <<desired, event, subscribed, task, link, wire, registered, refused, wanted, crossing>>
    BY <1>2 DEF realtimeVars, manager, atKis, begun
  <2>2. Desired' = Desired
    BY <2>1 DEF Desired
  <2>3. TasksInv' <=> TasksInv
    BY <2>1 DEF TasksInv, Works, Handled
  <2>4. WillHave(registered \cup refused, wire, subscribed)' <=> WillHave(registered \cup refused, wire, subscribed)
    BY <2>1 DEF WillHave, LastOf
  <2>5. LinkInv'
    BY <1>1, <2>1, <2>2, <2>3, <2>4 DEF QuotesInv, LinkInv
  <2> QED
    BY <1>1, <2>5 DEF QuotesInv
<1>3. CASE RealtimeNext
  <2>1. LinkInv'
    BY <1>1, <1>3, StreamsQuotes, BeginsQuotes, SentQuotes, KisQuotes DEF RealtimeNext
  <2> QED
    BY <1>1, <2>1 DEF QuotesInv
<1> QED
  BY <1>2, <1>3

\* _reconcile and _reconcile_loop: when all is quiet KIS has what the streams desire and it has not refused,
\* through sends that wait, lost connections and streams that come and go.  Excepted are the codes in which the
\* reconciliation that began last differs from one of the other task that was under way.
THEOREM QuietIsServed == RealtimeSpec => []QuietIsDesired
<1>1. QuotesInv => QuietIsDesired
  <2> SUFFICES ASSUME QuotesInv, Settled, NEW c \in Quoted \ crossing
               PROVE  c \in registered <=> c \in Desired \ refused
    BY DEF QuietIsDesired
  <2>1. /\ registered \in SUBSET Quoted /\ refused \in SUBSET Quoted /\ subscribed \in SUBSET Quoted
        /\ link = "up" /\ wire = << >> /\ wanted = Desired /\ TasksInv
        /\ registered \cap refused = {} /\ WillHave(registered \cup refused, wire, subscribed)
    BY DEF QuotesInv, CountInvOfStreams, RealtimeTypeOK, LinkInv, Settled
  <2>2. c \in Desired <=> c \in subscribed
    BY <2>1 DEF TasksInv, Handled, Settled
  <2>3. registered \cup refused = subscribed
    <3>1. PICK reg \in SUBSET Quoted : reg = registered \cup refused
      BY <2>1
    <3>2. WillHave(reg, << >>, subscribed)
      BY <2>1, <3>1
    <3> QED
      BY <2>1, <3>1, <3>2, AllArrived
  <2> QED
    BY <2>1, <2>2, <2>3
<1> QED
  BY <1>1, RealtimeInitQuotes, RealtimeStepQuotes, PTL DEF RealtimeSpec
=============================================================================
