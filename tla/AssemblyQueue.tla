----------------------------- MODULE AssemblyQueue -----------------------------
(***************************************************************************)
(* The business-overview assembly queue: rows of business_assembly_job,    *)
(* the enqueue of the API processes, the poll of run_business_assembly_    *)
(* queue with its in-flight gate, the thread pool that runs the jobs, the  *)
(* heartbeat threads and the reclaim of stale running rows.                *)
(*                                                                         *)
(* Time advances in heartbeat intervals (240 s).  A Tick waits for what    *)
(* the code does in seconds: a poll under way, a submitted job an idle     *)
(* thread can take, a heartbeat that is due, a thread that is returning.   *)
(***************************************************************************)
EXTENDS Integers, Sequences, FiniteSets

CONSTANTS
  Codes,       \* stock codes
  NoCode,      \* not a stock code: no request, no row
  Clients,     \* request threads of the API that may enqueue
  Pollers,     \* processes that run the poll: the worker, a manual batch run
  Lanes,       \* the threads of one executor; its size is the in-flight gate
  MaxJobs,     \* bound: job rows ever inserted
  MaxCrashes,  \* bound: process deaths and runs that die of an exception
  StaleAfter,  \* a running row is stale when older than this many intervals
  MaxMissed,   \* heartbeats in a row whose UPDATE may fail
  CounterRace  \* TRUE: a thread switch may fall inside the in-flight decrement

JobIds == 1..MaxJobs
NoJob == 0

ASSUME QueueAssumption ==
  /\ NoCode \notin Codes
  /\ IsFiniteSet(Lanes) /\ Lanes # {}
  /\ MaxJobs \in Nat /\ MaxCrashes \in Nat
  /\ StaleAfter \in Nat /\ MaxMissed \in Nat
  /\ CounterRace \in BOOLEAN

\* Missed heartbeats alone never make a row stale: 30 minutes are seven whole
\* intervals of 240 s, so up to six updates in a row may fail.
ASSUME HeartbeatAssumption == MaxMissed + 1 <= StaleAfter

VARIABLES
  issued,    \* rows inserted so far; the next row's id is issued + 1
  code,      \* the stock code of each row
  status,    \* the status column
  age,       \* intervals since started_at, up to StaleAfter + 1; 0 if not running
  request,   \* the code a client is about to insert a row for
  poll,      \* where each poller is in run_business_assembly_queue
  inflight,  \* the module-global in-flight counter of each process
  backlog,   \* the executor's queue of each process
  thread,    \* the pool threads
  crashes    \* process deaths and dead runs so far

rows == <<issued, code, status, age>>
process == <<poll, inflight, backlog, thread>>
vars == <<rows, request, process, crashes>>

Threads == Pollers \X Lanes
Proc(t) == t[1]
MaxInflight == Cardinality(Lanes)

Statuses == {"absent", "pending", "running", "done", "failed"}
Terminal == {"done", "failed"}

NoPoll == [at |-> "idle", victims |-> {}, pick |-> NoJob]
Reclaiming(S) == [at |-> "reclaim", victims |-> S, pick |-> NoJob]
Claiming(j) == [at |-> "claim", victims |-> {}, pick |-> j]
PollState == [at : {"idle", "reclaim", "claim"},
              victims : SUBSET JobIds,
              pick : JobIds \cup {NoJob}]

IdleThread == [at |-> "idle", job |-> NoJob, due |-> FALSE, missed |-> 0, seen |-> 0]
Running(j, d, m) == [at |-> "run", job |-> j, due |-> d, missed |-> m, seen |-> 0]
Returning == [at |-> "release", job |-> NoJob, due |-> FALSE, missed |-> 0, seen |-> 0]
Storing(n) == [at |-> "store", job |-> NoJob, due |-> FALSE, missed |-> 0, seen |-> n]
ThreadState == [at : {"idle", "run", "release", "store"},
                job : JobIds \cup {NoJob},
                due : BOOLEAN,
                missed : 0..MaxMissed,
                seen : Nat]

TypeOK ==
  /\ issued \in 0..MaxJobs
  /\ code \in [JobIds -> Codes \cup {NoCode}]
  /\ status \in [JobIds -> Statuses]
  /\ age \in [JobIds -> 0..(StaleAfter + 1)]
  /\ request \in [Clients -> Codes \cup {NoCode}]
  /\ poll \in [Pollers -> PollState]
  /\ inflight \in [Pollers -> Nat]
  /\ backlog \in [Pollers -> Seq(JobIds)]
  /\ thread \in [Threads -> ThreadState]
  /\ crashes \in 0..MaxCrashes

Init ==
  /\ issued = 0
  /\ code = [j \in JobIds |-> NoCode]
  /\ status = [j \in JobIds |-> "absent"]
  /\ age = [j \in JobIds |-> 0]
  /\ request = [c \in Clients |-> NoCode]
  /\ poll = [p \in Pollers |-> NoPoll]
  /\ inflight = [p \in Pollers |-> 0]
  /\ backlog = [p \in Pollers |-> <<>>]
  /\ thread = [t \in Threads |-> IdleThread]
  /\ crashes = 0

-------------------------------------------------------------------------------
(***************************************************************************)
(* enqueue(): look for an active row of the code, then insert one.         *)
(***************************************************************************)

Active(j) == status[j] \in {"pending", "running"}

\* The SELECT finds no active row; when it finds one it is returned and
\* nothing changes.
EnqueueCheck(c, k) ==
  /\ request[c] = NoCode
  /\ issued < MaxJobs
  /\ \A j \in JobIds : code[j] = k => ~Active(j)
  /\ request' = [request EXCEPT ![c] = k]
  /\ UNCHANGED <<rows, process, crashes>>

EnqueueInsert(c) ==
  /\ request[c] # NoCode
  /\ issued < MaxJobs
  /\ issued' = issued + 1
  /\ code' = [code EXCEPT ![issued + 1] = request[c]]
  /\ status' = [status EXCEPT ![issued + 1] = "pending"]
  /\ request' = [request EXCEPT ![c] = NoCode]
  /\ UNCHANGED <<age, process, crashes>>

-------------------------------------------------------------------------------
(***************************************************************************)
(* run_business_assembly_queue(): the in-flight gate, then claim_next() in *)
(* its two commits -- the reclaim and the claim -- then the submit.        *)
(***************************************************************************)

Stale == {j \in JobIds : status[j] = "running" /\ age[j] > StaleAfter}

Oldest(S) == CHOOSE j \in S : \A i \in S : j <= i

\* Faulty variant for a mutant: the gate lets one job too many through.
PollStart_GateOffByOne(p) ==
  /\ poll[p].at = "idle"
  /\ inflight[p] <= MaxInflight
  /\ poll' = [poll EXCEPT ![p] = Reclaiming(Stale)]
  /\ UNCHANGED <<rows, request, inflight, backlog, thread, crashes>>

\* The gate, and the SELECT of the stale running rows.
PollStart(p) ==
  /\ poll[p].at = "idle"
  /\ inflight[p] < MaxInflight
  /\ poll' = [poll EXCEPT ![p] = Reclaiming(Stale)]
  /\ UNCHANGED <<rows, request, inflight, backlog, thread, crashes>>

\* Faulty variant for a mutant: the stale rows are never put back.
PollReclaim_Skipped(p) ==
  LET queued == {j \in JobIds : status[j] = "pending"} IN
  /\ poll[p].at = "reclaim"
  /\ poll' = [poll EXCEPT ![p] = IF queued = {} THEN NoPoll ELSE Claiming(Oldest(queued))]
  /\ UNCHANGED <<rows, request, inflight, backlog, thread, crashes>>

\* The stale rows go back to pending whatever they have become since the
\* SELECT (an UPDATE by primary key); then the oldest pending row is read.
PollReclaim(p) ==
  LET victims == poll[p].victims
      queued == {j \in JobIds : j \in victims \/ status[j] = "pending"} IN
  /\ poll[p].at = "reclaim"
  /\ status' = [j \in JobIds |-> IF j \in victims THEN "pending" ELSE status[j]]
  /\ age' = [j \in JobIds |-> IF j \in victims THEN 0 ELSE age[j]]
  /\ poll' = [poll EXCEPT ![p] = IF queued = {} THEN NoPoll ELSE Claiming(Oldest(queued))]
  /\ UNCHANGED <<issued, code, request, inflight, backlog, thread, crashes>>

Releasing(p) == \E t \in Threads : Proc(t) = p /\ thread[t].at = "store"

\* Faulty variant for a mutant: the job is submitted but its row stays pending.
PollClaim_KeepsPending(p) ==
  /\ poll[p].at = "claim"
  /\ ~CounterRace => ~Releasing(p)
  /\ inflight' = [inflight EXCEPT ![p] = @ + 1]
  /\ backlog' = [backlog EXCEPT ![p] = Append(@, poll[p].pick)]
  /\ poll' = [poll EXCEPT ![p] = NoPoll]
  /\ UNCHANGED <<rows, request, thread, crashes>>

\* Faulty variant for a mutant: the claim has a status no reader knows.
PollClaim_OwnStatus(p) ==
  LET j == poll[p].pick IN
  /\ poll[p].at = "claim"
  /\ ~CounterRace => ~Releasing(p)
  /\ status' = [status EXCEPT ![j] = "claimed"]
  /\ age' = [age EXCEPT ![j] = 0]
  /\ inflight' = [inflight EXCEPT ![p] = @ + 1]
  /\ backlog' = [backlog EXCEPT ![p] = Append(@, j)]
  /\ poll' = [poll EXCEPT ![p] = NoPoll]
  /\ UNCHANGED <<issued, code, request, thread, crashes>>

\* The claim is committed, the counter incremented and the job submitted.  A
\* death between these is the same as one right after them.
PollClaim(p) ==
  LET j == poll[p].pick IN
  /\ poll[p].at = "claim"
  /\ ~CounterRace => ~Releasing(p)
  /\ status' = [status EXCEPT ![j] = "running"]
  /\ age' = [age EXCEPT ![j] = 0]
  /\ inflight' = [inflight EXCEPT ![p] = @ + 1]
  /\ backlog' = [backlog EXCEPT ![p] = Append(@, j)]
  /\ poll' = [poll EXCEPT ![p] = NoPoll]
  /\ UNCHANGED <<issued, code, request, thread, crashes>>

-------------------------------------------------------------------------------
(***************************************************************************)
(* A pool thread: run_job() with its heartbeat, then the decrement.        *)
(***************************************************************************)

\* A pool thread takes the next submitted job.  A row already concluded is
\* skipped, any other is set running with a fresh started_at.
ThreadStart(t) ==
  LET j == Head(backlog[Proc(t)]) IN
  /\ thread[t].at = "idle"
  /\ backlog[Proc(t)] # <<>>
  /\ backlog' = [backlog EXCEPT ![Proc(t)] = Tail(@)]
  /\ \/ /\ status[j] \in Terminal
        /\ thread' = [thread EXCEPT ![t] = Returning]
        /\ UNCHANGED <<status, age>>
     \/ /\ status[j] \notin Terminal
        /\ thread' = [thread EXCEPT ![t] = Running(j, FALSE, 0)]
        /\ status' = [status EXCEPT ![j] = "running"]
        /\ age' = [age EXCEPT ![j] = 0]
  /\ UNCHANGED <<issued, code, request, poll, inflight, crashes>>

Beating(t) == thread[t].at = "run" /\ thread[t].due

\* Faulty variant for a mutant: the update touches no started_at.
Heartbeat_NoRefresh(t) ==
  /\ Beating(t)
  /\ thread' = [thread EXCEPT ![t] = Running(thread[t].job, FALSE, 0)]
  /\ UNCHANGED <<rows, request, poll, inflight, backlog, crashes>>

\* UPDATE ... SET started_at = now WHERE id = job AND status = 'running'.
Heartbeat(t) ==
  LET j == thread[t].job IN
  /\ Beating(t)
  /\ age' = [age EXCEPT ![j] = IF status[j] = "running" THEN 0 ELSE @]
  /\ thread' = [thread EXCEPT ![t] = Running(j, FALSE, 0)]
  /\ UNCHANGED <<issued, code, status, request, poll, inflight, backlog, crashes>>

\* The update fails and the exception is swallowed.
HeartbeatFails(t) ==
  /\ Beating(t)
  /\ thread[t].missed < MaxMissed
  /\ thread' = [thread EXCEPT ![t] = Running(thread[t].job, FALSE, thread[t].missed + 1)]
  /\ UNCHANGED <<rows, request, poll, inflight, backlog, crashes>>

\* run_job's last commit: done, failed, or pending again after a rate limit.
Conclude(t, outcome) ==
  LET j == thread[t].job IN
  /\ thread[t].at = "run"
  /\ status' = [status EXCEPT ![j] = outcome]
  /\ age' = [age EXCEPT ![j] = 0]
  /\ thread' = [thread EXCEPT ![t] = Returning]
  /\ UNCHANGED <<issued, code, request, poll, inflight, backlog, crashes>>

Finish(t) == Conclude(t, "done") \/ Conclude(t, "failed")
Requeue(t) == Conclude(t, "pending")

\* An exception outside run_job's try block, or in the commit of its outcome, is
\* only logged: the row stays as it is, the thread and its heartbeat are gone.
RunDies(t) ==
  /\ thread[t].at = "run"
  /\ crashes < MaxCrashes
  /\ crashes' = crashes + 1
  /\ thread' = [thread EXCEPT ![t] = Returning]
  /\ UNCHANGED <<rows, request, poll, inflight, backlog>>

\* inflight = max(0, inflight - 1): the read, then the store.
ReleaseRead(t) ==
  /\ thread[t].at = "release"
  /\ ~CounterRace => ~Releasing(Proc(t))
  /\ thread' = [thread EXCEPT ![t] = Storing(inflight[Proc(t)])]
  /\ UNCHANGED <<rows, request, poll, inflight, backlog, crashes>>

\* Faulty variant for a mutant: the finally block forgets the decrement.
ReleaseStore_NoDecrement(t) ==
  /\ thread[t].at = "store"
  /\ thread' = [thread EXCEPT ![t] = IdleThread]
  /\ UNCHANGED <<rows, request, poll, inflight, backlog, crashes>>

ReleaseStore(t) ==
  /\ thread[t].at = "store"
  /\ inflight' = [inflight EXCEPT ![Proc(t)] =
                    IF thread[t].seen = 0 THEN 0 ELSE thread[t].seen - 1]
  /\ thread' = [thread EXCEPT ![t] = IdleThread]
  /\ UNCHANGED <<rows, request, poll, backlog, crashes>>

-------------------------------------------------------------------------------
(***************************************************************************)
(* Time, and the death of a process.                                       *)
(***************************************************************************)

Startable(t) == thread[t].at = "idle" /\ backlog[Proc(t)] # <<>>

\* Nothing that takes only seconds is left to do.
Quiet ==
  /\ \A p \in Pollers : poll[p].at = "idle"
  /\ \A t \in Threads : /\ ~Beating(t)
                        /\ ~Startable(t)
                        /\ thread[t].at \in {"idle", "run"}

\* One heartbeat interval passes.
Tick ==
  /\ Quiet
  /\ age' = [j \in JobIds |->
               IF status[j] = "running" /\ age[j] <= StaleAfter THEN age[j] + 1 ELSE age[j]]
  /\ thread' = [t \in Threads |->
                  IF thread[t].at = "run" THEN Running(thread[t].job, TRUE, thread[t].missed)
                  ELSE thread[t]]
  /\ UNCHANGED <<issued, code, status, request, poll, inflight, backlog, crashes>>

\* A poller's process dies and comes back with nothing in memory: its threads,
\* submitted jobs and counter are gone, the rows it was running stay running.
Crash(p) ==
  /\ crashes < MaxCrashes
  /\ crashes' = crashes + 1
  /\ poll' = [poll EXCEPT ![p] = NoPoll]
  /\ inflight' = [inflight EXCEPT ![p] = 0]
  /\ backlog' = [backlog EXCEPT ![p] = <<>>]
  /\ thread' = [t \in Threads |-> IF Proc(t) = p THEN IdleThread ELSE thread[t]]
  /\ UNCHANGED <<rows, request>>

Next ==
  \/ \E c \in Clients, k \in Codes : EnqueueCheck(c, k)
  \/ \E c \in Clients : EnqueueInsert(c)
  \/ \E p \in Pollers : PollStart(p) \/ PollReclaim(p) \/ PollClaim(p) \/ Crash(p)
  \/ \E t \in Threads : \/ ThreadStart(t) \/ Heartbeat(t) \/ HeartbeatFails(t)
                        \/ Finish(t) \/ Requeue(t) \/ RunDies(t)
                        \/ ReleaseRead(t) \/ ReleaseStore(t)
  \/ Tick

Spec == Init /\ [][Next]_vars

(***************************************************************************)
(* The scheduler keeps polling, pool and heartbeat threads run, time       *)
(* passes; and a job that is tried for ever is not answered with a rate    *)
(* limit every time.                                                       *)
(***************************************************************************)
FinishJob(j) == \E t \in Threads : thread[t].job = j /\ Finish(t)

Fairness ==
  /\ \A p \in Pollers : WF_vars(PollStart(p)) /\ WF_vars(PollReclaim(p)) /\ WF_vars(PollClaim(p))
  /\ \A t \in Threads : /\ WF_vars(ThreadStart(t))
                        /\ WF_vars(Heartbeat(t) \/ HeartbeatFails(t))
                        /\ WF_vars(ReleaseRead(t)) /\ WF_vars(ReleaseStore(t))
  /\ SF_vars(Tick)
  /\ \A j \in JobIds : SF_vars(FinishJob(j))

FairSpec == Spec /\ Fairness

-------------------------------------------------------------------------------
(***************************************************************************)
(* Properties.                                                             *)
(***************************************************************************)

\* A row old enough to be reclaimed has no thread executing it: the heartbeat
\* tells a long assembly from an orphan, whatever the interleaving of polls,
\* threads and deaths (business_assembly.py: _heartbeat and claim_next).
StaleIsOrphan ==
  \A j \in Stale : \A t \in Threads : ~(thread[t].at = "run" /\ thread[t].job = j)

Submitted(p, j) == {i \in DOMAIN backlog[p] : backlog[p][i] = j}
Executing(j) == {t \in Threads : thread[t].at = "run" /\ thread[t].job = j}

Held(j) == Executing(j) # {} \/ \E p \in Pollers : Submitted(p, j) # {}

\* A job is executed, or waits to be executed, at most once at a time.
\* (claim_next: the double execution of 005930 is ruled out at the source.)
OneExecution ==
  \A j \in JobIds :
    /\ \A t, u \in Executing(j) : t = u
    /\ \A p \in Pollers : \A m, n \in Submitted(p, j) : m = n
    /\ \A p, q \in Pollers : Submitted(p, j) # {} /\ Submitted(q, j) # {} => p = q
    /\ \A p \in Pollers : ~(Executing(j) # {} /\ Submitted(p, j) # {})

Busy(p) == {t \in Threads : Proc(t) = p /\ thread[t].at # "idle"}

\* A claim never runs ahead of the pool: every submitted job has a thread.
\* (run_business_assembly_queue: no claim while the executor is saturated.)
ClaimsFitLanes == \A p \in Pollers : Len(backlog[p]) + Cardinality(Busy(p)) <= MaxInflight

\* A concluded job is never concluded again, reclaimed or run again
\* (run_job's guard against jobs submitted twice).
ConclusionIsFinal ==
  [][\A j \in JobIds : status[j] \in Terminal => status'[j] = status[j]]_vars

ActiveRows(k) == {j \in JobIds : code[j] = k /\ Active(j)}

\* Only requests that cross make a second active row of a code, each at most one:
\* with one request thread there is one (enqueue's dedup, business_assembly.py 45).
ActiveFitClients == \A k \in Codes : Cardinality(ActiveRows(k)) <= Cardinality(Clients)

\* No second execution of a row, no claim ahead of the pool, no more active rows of
\* a code than requests can cross, no concluded row that goes on: with one poller,
\* and decrements nothing interrupts, the table is a queue.
QueueIsOrderly == [](OneExecution /\ ClaimsFitLanes /\ ActiveFitClients) /\ ConclusionIsFinal

\* What the code leaves to the interpreter: a reading of the counter that is about to
\* be stored is still what the counter holds (scheduler.py 465 takes no lock).
DecrementsAreCurrent ==
  \A t \in Threads : thread[t].at = "store" => thread[t].seen = inflight[Proc(t)]

\* What enqueue's docstring says of a code (line 45), a promise and it does not keep:
\* two requests that both find no active row insert one each.
OneActivePerCode == \A k \in Codes : Cardinality(ActiveRows(k)) <= 1

\* Every queued job is concluded at last, also when its process dies under it:
\* the orphaned row turns stale and is reclaimed (claim_next: 060230).
EveryJobConcludes ==
  \A j \in JobIds : status[j] = "pending" ~> status[j] \in Terminal

\* The queue implements the lease: a job is leased while its row is running and
\* held while a thread executes it or is about to.
Lease == INSTANCE JobLease WITH
  Jobs <- JobIds,
  phase <- [j \in JobIds |-> CASE status[j] = "pending" -> "queued"
                               [] status[j] = "running" -> "leased"
                               [] OTHER -> status[j]],
  held <- [j \in JobIds |-> Held(j)]

ImplementsLease == Lease!Spec

===============================================================================
