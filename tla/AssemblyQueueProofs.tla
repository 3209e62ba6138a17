-------------------------- MODULE AssemblyQueueProofs --------------------------
(***************************************************************************)
(* Proofs about AssemblyQueue, for every number of pollers, threads, jobs  *)
(* and clients, with or without a race on the in-flight counter.           *)
(***************************************************************************)
EXTENDS AssemblyQueue, FiniteSetTheorems, TLAPS

(***************************************************************************)
(* The oldest row of a non-empty set of rows is one of them.               *)
(***************************************************************************)
Less == {pair \in Nat \X Nat : pair[1] < pair[2]}

LEMMA LessIsWellFounded == IsWellFoundedOn(Less, Nat)
BY NatLessThanWellFounded DEF OpToRel, Less

LEMMA OldestIsMember ==
  ASSUME NEW S \in SUBSET JobIds, S # {}
  PROVE  Oldest(S) \in S
<1>1. S \subseteq Nat
  BY QueueAssumption DEF JobIds
<1>2. PICK j \in S : \A i \in S : ~ (<<i, j>> \in Less)
  BY <1>1, LessIsWellFounded, WFMin, Zenon
<1>3. \A i \in S : ~ (i < j)
  BY <1>1, <1>2 DEF Less
<1>4. \A i \in S : j <= i
  BY <1>1, <1>3
<1>5. QED
  BY <1>4 DEF Oldest

-------------------------------------------------------------------------------
(***************************************************************************)
(* Type correctness.  A claim and an execution refer to a row that exists  *)
(* as one: without it a row "0" could be claimed or executed.              *)
(***************************************************************************)
Referenced ==
  /\ \A p \in Pollers : poll[p].at = "claim" => poll[p].pick \in JobIds
  /\ \A t \in Threads : thread[t].at = "run" => thread[t].job \in JobIds

TypeInv == TypeOK /\ Referenced

USE QueueAssumption DEF TypeInv, TypeOK, Referenced, rows, process, vars,
                        Statuses, Terminal, PollState, NoPoll, Reclaiming, Claiming,
                        ThreadState, IdleThread, Running, Returning, Storing

\* What a starting thread writes, in the two cases of run_job's guard.
LEMMA StartEffect ==
  ASSUME NEW t \in Threads, ThreadStart(t), NEW j, j = Head(backlog[Proc(t)])
  PROVE  \/ /\ thread' = [thread EXCEPT ![t] = Returning]
            /\ UNCHANGED <<status, age>>
         \/ /\ thread' = [thread EXCEPT ![t] = Running(j, FALSE, 0)]
            /\ status' = [status EXCEPT ![j] = "running"]
            /\ age' = [age EXCEPT ![j] = 0]
BY DEF ThreadStart

LEMMA StartedRow ==
  ASSUME TypeInv, NEW t \in Threads, ThreadStart(t)
  PROVE  Head(backlog[Proc(t)]) \in JobIds
<1>1. backlog[Proc(t)] \in Seq(JobIds) /\ backlog[Proc(t)] # <<>>
  BY DEF ThreadStart, Threads, Proc
<1>2. QED
  BY <1>1

LEMMA InitTypeInv == Init => TypeInv
BY DEF Init

LEMMA EnqueueTypeInv ==
  ASSUME TypeInv, NEW c \in Clients, NEW k \in Codes,
         EnqueueCheck(c, k) \/ EnqueueInsert(c)
  PROVE  TypeInv'
<1>1. CASE EnqueueCheck(c, k)
  BY <1>1 DEF EnqueueCheck
<1>2. CASE EnqueueInsert(c)
  <2>1. issued + 1 \in JobIds
    BY <1>2 DEF EnqueueInsert, JobIds
  <2>2. QED
    BY <1>2, <2>1 DEF EnqueueInsert
<1>3. QED
  BY <1>1, <1>2

LEMMA PollTypeInv ==
  ASSUME TypeInv, NEW p \in Pollers,
         PollStart(p) \/ PollReclaim(p) \/ PollClaim(p) \/ Crash(p)
  PROVE  TypeInv'
<1>1. CASE PollStart(p)
  BY <1>1 DEF PollStart, Stale
<1>2. CASE PollReclaim(p)
  <2> DEFINE queued == {j \in JobIds : j \in poll[p].victims \/ status[j] = "pending"}
  <2>1. ASSUME queued # {} PROVE Oldest(queued) \in JobIds
    <3>1. queued \in SUBSET JobIds
      OBVIOUS
    <3> HIDE DEF queued
    <3>2. QED
      BY <2>1, <3>1, OldestIsMember
  <2>2. status' \in [JobIds -> Statuses] /\ age' \in [JobIds -> 0..(StaleAfter + 1)]
    BY <1>2 DEF PollReclaim
  <2>3. poll' \in [Pollers -> PollState]
    BY <1>2, <2>1 DEF PollReclaim
  <2>4. \A q \in Pollers : poll'[q].at = "claim" => poll'[q].pick \in JobIds
    BY <1>2, <2>1 DEF PollReclaim
  <2>5. QED
    BY <1>2, <2>2, <2>3, <2>4 DEF PollReclaim
<1>3. CASE PollClaim(p)
  <2>1. poll[p].pick \in JobIds
    BY <1>3 DEF PollClaim
  <2>2. QED
    BY <1>3, <2>1 DEF PollClaim
<1>4. CASE Crash(p)
  BY <1>4 DEF Crash
<1>5. QED
  BY <1>1, <1>2, <1>3, <1>4

LEMMA ThreadTypeInv ==
  ASSUME TypeInv, NEW t \in Threads,
         \/ ThreadStart(t) \/ Heartbeat(t) \/ HeartbeatFails(t)
         \/ Finish(t) \/ Requeue(t) \/ RunDies(t) \/ ReleaseRead(t) \/ ReleaseStore(t)
  PROVE  TypeInv'
<1>0. Proc(t) \in Pollers
  BY DEF Threads, Proc
<1>1. CASE ThreadStart(t)
  <2>1. PICK j \in JobIds : j = Head(backlog[Proc(t)])
    BY <1>1, StartedRow
  <2>2. backlog' \in [Pollers -> Seq(JobIds)]
    BY <1>0, <1>1 DEF ThreadStart
  <2>3. /\ UNCHANGED <<issued, code, request, poll, inflight, crashes>>
        /\ Running(j, FALSE, 0) \in ThreadState /\ Returning \in ThreadState
    BY <1>1 DEF ThreadStart
  <2>4. CASE /\ thread' = [thread EXCEPT ![t] = Returning]
             /\ UNCHANGED <<status, age>>
    BY <2>2, <2>3, <2>4
  <2>5. CASE /\ thread' = [thread EXCEPT ![t] = Running(j, FALSE, 0)]
             /\ status' = [status EXCEPT ![j] = "running"]
             /\ age' = [age EXCEPT ![j] = 0]
    BY <2>2, <2>3, <2>5
  <2>6. QED
    BY <1>1, <2>1, <2>4, <2>5, StartEffect
<1>2. CASE Heartbeat(t)
  BY <1>2 DEF Heartbeat, Beating
<1>3. CASE HeartbeatFails(t)
  BY <1>3 DEF HeartbeatFails, Beating
<1>4. CASE Finish(t) \/ Requeue(t)
  <2>1. PICK outcome \in Statuses : Conclude(t, outcome)
    BY <1>4 DEF Finish, Requeue
  <2>2. QED
    BY <2>1 DEF Conclude
<1>5. CASE ReleaseRead(t)
  BY <1>0, <1>5 DEF ReleaseRead
<1>6. CASE ReleaseStore(t)
  BY <1>0, <1>6 DEF ReleaseStore
<1>7. CASE RunDies(t)
  BY <1>7 DEF RunDies
<1>8. QED
  BY <1>1, <1>2, <1>3, <1>4, <1>5, <1>6, <1>7

LEMMA TickTypeInv ==
  ASSUME TypeInv, Tick
  PROVE  TypeInv'
BY DEF Tick

LEMMA NextTypeInv == TypeInv /\ [Next]_vars => TypeInv'
<1> SUFFICES ASSUME TypeInv, [Next]_vars PROVE TypeInv'
  OBVIOUS
<1>1. CASE Next
  <2> HIDE DEF TypeInv
  <2>1. CASE \E c \in Clients, k \in Codes : EnqueueCheck(c, k)
    BY <2>1, EnqueueTypeInv
  <2>2. CASE \E c \in Clients : EnqueueInsert(c)
    <3>1. PICK c \in Clients : EnqueueInsert(c)
      BY <2>2
    <3>2. request[c] \in Codes
      BY <3>1 DEF EnqueueInsert, TypeInv
    <3>3. QED
      BY <3>1, <3>2, EnqueueTypeInv
  <2>3. CASE \E p \in Pollers : PollStart(p) \/ PollReclaim(p) \/ PollClaim(p) \/ Crash(p)
    BY <2>3, PollTypeInv
  <2>4. CASE \E t \in Threads : \/ ThreadStart(t) \/ Heartbeat(t) \/ HeartbeatFails(t)
                                \/ Finish(t) \/ Requeue(t) \/ RunDies(t)
                                \/ ReleaseRead(t) \/ ReleaseStore(t)
    BY <2>4, ThreadTypeInv
  <2>5. CASE Tick
    BY <2>5, TickTypeInv
  <2>6. QED
    BY <1>1, <2>1, <2>2, <2>3, <2>4, <2>5 DEF Next
<1>2. CASE UNCHANGED vars
  BY <1>2
<1>3. QED
  BY <1>1, <1>2

\* Every reachable state has its types, whatever the constants.
THEOREM TypeCorrect == Spec => []TypeOK
<1>1. TypeInv => TypeOK
  OBVIOUS
<1>2. QED
  BY <1>1, InitTypeInv, NextTypeInv, PTL DEF Spec

-------------------------------------------------------------------------------
(***************************************************************************)
(* A stale row is an orphan.  The invariant that carries it: the row of an *)
(* executing thread is no older than the heartbeats missed in a row, and   *)
(* one interval more while a heartbeat is due.                             *)
(***************************************************************************)
Fresh ==
  \A t \in Threads :
    LET j == thread[t].job IN
    thread[t].at = "run" /\ status[j] = "running" =>
      age[j] <= thread[t].missed + (IF thread[t].due THEN 1 ELSE 0)

LEMMA InitFresh == Init => Fresh
BY DEF Init, Fresh

LEMMA ClientFresh ==
  ASSUME TypeInv, Fresh, NEW c \in Clients, NEW k \in Codes,
         EnqueueCheck(c, k) \/ EnqueueInsert(c)
  PROVE  Fresh'
BY DEF EnqueueCheck, EnqueueInsert, Fresh

LEMMA PollFresh ==
  ASSUME TypeInv, Fresh, NEW p \in Pollers,
         PollStart(p) \/ PollReclaim(p) \/ PollClaim(p) \/ Crash(p)
  PROVE  Fresh'
<1>1. CASE PollStart(p)
  BY <1>1 DEF PollStart, Fresh
<1>2. CASE PollReclaim(p)
  BY <1>2 DEF PollReclaim, Fresh
<1>3. CASE PollClaim(p)
  <2>1. PICK j \in JobIds : j = poll[p].pick
    BY <1>3 DEF PollClaim
  <2>2. /\ status' = [status EXCEPT ![j] = "running"]
        /\ age' = [age EXCEPT ![j] = 0]
        /\ thread' = thread
    BY <1>3, <2>1 DEF PollClaim
  <2>3. SUFFICES ASSUME NEW u \in Threads, thread[u].at = "run",
                        status'[thread[u].job] = "running"
                 PROVE  age'[thread[u].job] <=
                          thread[u].missed + (IF thread[u].due THEN 1 ELSE 0)
    BY <2>2 DEF Fresh
  <2>4. CASE thread[u].job = j
    BY <2>2, <2>4
  <2>5. CASE thread[u].job # j
    BY <2>2, <2>3, <2>5 DEF Fresh
  <2>6. QED
    BY <2>4, <2>5
<1>4. CASE Crash(p)
  BY <1>4 DEF Crash, Fresh
<1>5. QED
  BY <1>1, <1>2, <1>3, <1>4

LEMMA ThreadFresh ==
  ASSUME TypeInv, Fresh, NEW t \in Threads,
         \/ ThreadStart(t) \/ Heartbeat(t) \/ HeartbeatFails(t)
         \/ Finish(t) \/ Requeue(t) \/ RunDies(t) \/ ReleaseRead(t) \/ ReleaseStore(t)
  PROVE  Fresh'
<1> SUFFICES ASSUME NEW u \in Threads,
                    thread'[u].at = "run", status'[thread'[u].job] = "running"
             PROVE  age'[thread'[u].job] <=
                      thread'[u].missed + (IF thread'[u].due THEN 1 ELSE 0)
  BY DEF Fresh
<1>1. CASE ThreadStart(t)
  <2>1. PICK j \in JobIds : j = Head(backlog[Proc(t)])
    BY <1>1, StartedRow
  <2>2. CASE /\ thread' = [thread EXCEPT ![t] = Returning]
             /\ UNCHANGED <<status, age>>
    BY <2>2 DEF Fresh
  <2>3. CASE /\ thread' = [thread EXCEPT ![t] = Running(j, FALSE, 0)]
             /\ status' = [status EXCEPT ![j] = "running"]
             /\ age' = [age EXCEPT ![j] = 0]
    BY <2>3 DEF Fresh
  <2>4. QED
    BY <1>1, <2>1, <2>2, <2>3, StartEffect
<1>2. CASE Heartbeat(t)
  BY <1>2 DEF Heartbeat, Beating, Fresh
<1>3. CASE HeartbeatFails(t)
  BY <1>3 DEF HeartbeatFails, Beating, Fresh
<1>4. CASE Finish(t) \/ Requeue(t)
  <2>1. PICK outcome \in {"done", "failed", "pending"} : Conclude(t, outcome)
    BY <1>4 DEF Finish, Requeue
  <2>2. PICK j \in JobIds : j = thread[t].job
    BY <2>1 DEF Conclude
  <2>3. /\ status' = [status EXCEPT ![j] = outcome]
        /\ age' = [age EXCEPT ![j] = 0]
        /\ thread' = [thread EXCEPT ![t] = Returning]
    BY <2>1, <2>2 DEF Conclude
  <2>4. QED
    BY <2>3 DEF Fresh
<1>5. CASE ReleaseRead(t)
  BY <1>5 DEF ReleaseRead, Fresh
<1>6. CASE ReleaseStore(t)
  BY <1>6 DEF ReleaseStore, Fresh
<1>7. CASE RunDies(t)
  BY <1>7 DEF RunDies, Fresh
<1>8. QED
  BY <1>1, <1>2, <1>3, <1>4, <1>5, <1>6, <1>7

\* A Tick adds an interval to the age only when no heartbeat is due, and makes
\* one due.
LEMMA TickFresh ==
  ASSUME TypeInv, Fresh, Tick
  PROVE  Fresh'
<1> SUFFICES ASSUME NEW u \in Threads,
                    thread'[u].at = "run", status'[thread'[u].job] = "running"
             PROVE  age'[thread'[u].job] <=
                      thread'[u].missed + (IF thread'[u].due THEN 1 ELSE 0)
  BY DEF Fresh
<1>1. thread[u].at = "run" /\ ~thread[u].due /\ thread'[u].due
  BY DEF Tick, Quiet, Beating
<1>2. thread'[u].job = thread[u].job /\ thread'[u].missed = thread[u].missed
  BY DEF Tick
<1>3. age[thread[u].job] <= thread[u].missed
  BY <1>1, <1>2 DEF Tick, Fresh
<1>4. age'[thread[u].job] <= age[thread[u].job] + 1
  BY <1>1 DEF Tick
<1>5. QED
  BY <1>1, <1>2, <1>3, <1>4 DEF Tick

LEMMA NextFresh == TypeInv /\ Fresh /\ [Next]_vars => Fresh'
<1> SUFFICES ASSUME TypeInv, Fresh, [Next]_vars PROVE Fresh'
  OBVIOUS
<1>1. CASE Next
  <2>1. CASE \E c \in Clients, k \in Codes : EnqueueCheck(c, k)
    BY <2>1, ClientFresh
  <2>2. CASE \E c \in Clients : EnqueueInsert(c)
    <3>1. PICK c \in Clients : EnqueueInsert(c)
      BY <2>2
    <3>2. request[c] \in Codes
      BY <3>1 DEF EnqueueInsert
    <3>3. QED
      BY <3>1, <3>2, ClientFresh
  <2>3. CASE \E p \in Pollers : PollStart(p) \/ PollReclaim(p) \/ PollClaim(p) \/ Crash(p)
    BY <2>3, PollFresh
  <2>4. CASE \E t \in Threads : \/ ThreadStart(t) \/ Heartbeat(t) \/ HeartbeatFails(t)
                                \/ Finish(t) \/ Requeue(t) \/ RunDies(t)
                                \/ ReleaseRead(t) \/ ReleaseStore(t)
    BY <2>4, ThreadFresh
  <2>5. CASE Tick
    BY <2>5, TickFresh
  <2>6. QED
    BY <1>1, <2>1, <2>2, <2>3, <2>4, <2>5 DEF Next
<1>2. CASE UNCHANGED vars
  BY <1>2 DEF Fresh
<1>3. QED
  BY <1>1, <1>2

LEMMA FreshIsOrphan == TypeInv /\ Fresh => StaleIsOrphan
<1> SUFFICES ASSUME TypeInv, Fresh, NEW j \in Stale, NEW t \in Threads,
                    thread[t].at = "run", thread[t].job = j
             PROVE  FALSE
  BY DEF StaleIsOrphan
<1>1. j \in JobIds /\ status[j] = "running" /\ age[j] > StaleAfter
  BY DEF Stale
<1>2. age[j] <= thread[t].missed + 1
  BY <1>1 DEF Fresh
<1>3. thread[t].missed \in 0..MaxMissed
  OBVIOUS
<1>4. QED
  BY <1>1, <1>2, <1>3, HeartbeatAssumption

\* The reclaim never takes a row from the thread that is executing it, as long
\* as no more than MaxMissed heartbeats in a row fail.
THEOREM ReclaimTakesOrphans == Spec => []StaleIsOrphan
<1>1. Init => TypeInv /\ Fresh
  BY InitTypeInv, InitFresh
<1>2. TypeInv /\ Fresh /\ [Next]_vars => (TypeInv /\ Fresh)'
  BY NextTypeInv, NextFresh
<1>3. TypeInv /\ Fresh => StaleIsOrphan
  BY FreshIsOrphan
<1>4. QED
  BY <1>1, <1>2, <1>3, PTL DEF Spec

-------------------------------------------------------------------------------
(***************************************************************************)
(* With one poller, and as long as no decrement stores a reading that      *)
(* another thread has made stale, the queue is orderly.  A row that an     *)
(* execution holds is running, a row a poll has chosen is held by none and *)
(* stays as it was chosen, and the counter is what was submitted and not   *)
(* returned yet: so a backlog means an idle thread, no time passes over a  *)
(* submitted job, and it does not turn stale.                              *)
(***************************************************************************)
HIDE DEF TypeInv, TypeOK, Referenced, rows, process, vars, PollState, ThreadState,
         NoPoll, Reclaiming, Claiming, IdleThread, Running, Returning, Storing

OnePoller == \A p, q \in Pollers : p = q

\* The executions of a job, its places in a backlog, and both, of a value of
\* thread and backlog: the sets Executing, Submitted and Held are read from.
RunsIn(th, j) == {t \in Threads : th[t].at = "run" /\ th[t].job = j}
PlacesIn(b, p, j) == {i \in DOMAIN b[p] : b[p][i] = j}
HeldIn(th, b, j) == RunsIn(th, j) # {} \/ \E p \in Pollers : PlacesIn(b, p, j) # {}

BusyIn(th, p) == {t \in Threads : Proc(t) = p /\ th[t].at # "idle"}

OneHolder ==
  \A j \in JobIds :
    /\ \A t, u \in RunsIn(thread, j) : t = u
    /\ \A p \in Pollers : \A m, n \in PlacesIn(backlog, p, j) : m = n
    /\ \A p, q \in Pollers : PlacesIn(backlog, p, j) # {} /\ PlacesIn(backlog, q, j) # {} => p = q
    /\ \A p \in Pollers : ~(RunsIn(thread, j) # {} /\ PlacesIn(backlog, p, j) # {})

LEMMA OneHolderIsOneExecution == OneHolder <=> OneExecution
BY DEF OneHolder, OneExecution, RunsIn, PlacesIn, Executing, Submitted

RowsIssued == \A j \in JobIds : status[j] = "absent" <=> j > issued
HeldRuns == \A j \in JobIds : HeldIn(thread, backlog, j) => status[j] = "running"
SubmittedFresh == \A j \in JobIds, p \in Pollers : PlacesIn(backlog, p, j) # {} => age[j] = 0
PollIsSound ==
  \A p \in Pollers :
    /\ poll[p].at = "reclaim" =>
         \A j \in poll[p].victims : j \in JobIds /\ status[j] = "running" /\ ~HeldIn(thread, backlog, j)
    /\ poll[p].at = "claim" => status[poll[p].pick] = "pending"
CounterIsTrue ==
  \A p \in Pollers :
    /\ inflight[p] = Len(backlog[p]) + Cardinality(BusyIn(thread, p))
    /\ inflight[p] <= MaxInflight
    /\ poll[p].at # "idle" => inflight[p] < MaxInflight
Orderly == RowsIssued /\ HeldRuns /\ OneHolder /\ SubmittedFresh /\ PollIsSound
Counted == CounterIsTrue
IInv == TypeInv /\ Fresh /\ Orderly /\ Counted

(***************************************************************************)
(* What a step may do to the rows and to the executions that hold them: a  *)
(* row is inserted, rows nobody holds are reclaimed, one is claimed and    *)
(* submitted, its holder concludes it or puts it back, or holders are lost.*)
(***************************************************************************)
RowMoves(j, to) == status'[j] = to /\ \A i \in JobIds \ {j} : status'[i] = status[i]
HoldMoves(j, now) ==
  /\ HeldIn(thread', backlog', j) <=> now
  /\ \A i \in JobIds \ {j} : HeldIn(thread', backlog', i) <=> HeldIn(thread, backlog, i)
HoldsStay == \A i \in JobIds : HeldIn(thread', backlog', i) <=> HeldIn(thread, backlog, i)

Inserted(j) == status[j] = "absent" /\ RowMoves(j, "pending") /\ HoldsStay
Reclaimed(S) ==
  /\ \A j \in S : status[j] = "running" /\ ~HeldIn(thread, backlog, j)
  /\ \A j \in JobIds : status'[j] = IF j \in S THEN "pending" ELSE status[j]
  /\ HoldsStay
Claimed(j) ==
  /\ status[j] = "pending" /\ ~HeldIn(thread, backlog, j)
  /\ RowMoves(j, "running") /\ HoldMoves(j, TRUE)
Left(j, outcome) ==
  /\ status[j] = "running" /\ HeldIn(thread, backlog, j)
  /\ RowMoves(j, outcome) /\ HoldMoves(j, FALSE)
HoldersLost ==
  /\ \A j \in JobIds : status'[j] = status[j]
  /\ \A j \in JobIds : HeldIn(thread', backlog', j) => HeldIn(thread, backlog, j)

QueueStep ==
  \/ \E j \in JobIds : Inserted(j)
  \/ \E S \in SUBSET JobIds : Reclaimed(S)
  \/ \E j \in JobIds : Claimed(j)
  \/ \E j \in JobIds, outcome \in {"done", "failed", "pending"} : Left(j, outcome)
  \/ HoldersLost

\* What the set of executions becomes when one thread changes.
LEMMA RunsChange ==
  ASSUME NEW t \in Threads, \A u \in Threads \ {t} : thread'[u] = thread[u]
  PROVE  \A j \in JobIds :
           RunsIn(thread', j) = (RunsIn(thread, j) \ {t})
                                  \cup (IF thread'[t].at = "run" /\ thread'[t].job = j THEN {t} ELSE {})
BY DEF RunsIn

\* What a submission adds to the places of a job in the backlog.
LEMMA SubmittedAppend ==
  ASSUME TypeInv, NEW p \in Pollers, NEW k \in JobIds,
         backlog'[p] = Append(backlog[p], k), \A q \in Pollers \ {p} : backlog'[q] = backlog[q],
         NEW q \in Pollers, NEW j \in JobIds
  PROVE  PlacesIn(backlog', q, j) = IF q = p /\ j = k THEN PlacesIn(backlog, q, j) \cup {Len(backlog[p]) + 1}
                                              ELSE PlacesIn(backlog, q, j)
<1>1. backlog \in [Pollers -> Seq(JobIds)]
  BY DEF TypeInv, TypeOK
<1>2. CASE q # p
  BY <1>1, <1>2 DEF PlacesIn
<1>3. CASE q = p
  <2> DEFINE s == backlog[p]
  <2>1. s \in Seq(JobIds) /\ backlog'[p] = Append(s, k)
    BY <1>1
  <2>2. /\ DOMAIN Append(s, k) = DOMAIN s \cup {Len(s) + 1}
        /\ \A i \in DOMAIN s : Append(s, k)[i] = s[i]
        /\ Append(s, k)[Len(s) + 1] = k
    BY <2>1
  <2> HIDE DEF s
  <2>3. PlacesIn(backlog', q, j) = {i \in DOMAIN Append(s, k) : Append(s, k)[i] = j}
    BY <1>3, <2>1 DEF PlacesIn
  <2>4. PlacesIn(backlog, q, j) = {i \in DOMAIN s : s[i] = j}
    BY <1>3 DEF PlacesIn, s
  <2>5. CASE j = k
    BY <1>3, <2>2, <2>3, <2>4, <2>5 DEF s
  <2>6. CASE j # k
    BY <1>3, <2>2, <2>3, <2>4, <2>6 DEF s
  <2> QED BY <2>5, <2>6
<1> QED BY <1>2, <1>3

\* What taking the first submission leaves of them.
LEMMA SubmittedTail ==
  ASSUME TypeInv, NEW p \in Pollers, backlog[p] # <<>>,
         backlog'[p] = Tail(backlog[p]), \A q \in Pollers \ {p} : backlog'[q] = backlog[q],
         NEW q \in Pollers, NEW j \in JobIds,
         \A m, n \in PlacesIn(backlog, q, j) : m = n
  PROVE  /\ \A m, n \in PlacesIn(backlog', q, j) : m = n
         /\ PlacesIn(backlog', q, j) # {} => PlacesIn(backlog, q, j) # {}
         /\ q = p /\ j = Head(backlog[p]) => PlacesIn(backlog', q, j) = {} /\ 1 \in PlacesIn(backlog, q, j)
<1>1. backlog \in [Pollers -> Seq(JobIds)]
  BY DEF TypeInv, TypeOK
<1>2. CASE q # p
  BY <1>1, <1>2 DEF PlacesIn
<1>3. CASE q = p
  <2> DEFINE s == backlog[p]
  <2>1. s \in Seq(JobIds) /\ s # <<>> /\ backlog'[p] = Tail(s)
    BY <1>1
  <2>2. /\ DOMAIN Tail(s) = 1..(Len(s) - 1) /\ DOMAIN s = 1..Len(s) /\ Len(s) \in Nat \ {0}
        /\ \A i \in 1..(Len(s) - 1) : Tail(s)[i] = s[i + 1]
        /\ Head(s) = s[1]
    BY <2>1
  <2> HIDE DEF s
  <2>3. PlacesIn(backlog', q, j) = {i \in DOMAIN Tail(s) : Tail(s)[i] = j}
    BY <1>3, <2>1 DEF PlacesIn
  <2>4. PlacesIn(backlog, q, j) = {i \in DOMAIN s : s[i] = j}
    BY <1>3 DEF PlacesIn, s
  <2>5. \A i \in PlacesIn(backlog', q, j) : i \in Int /\ i >= 1 /\ i + 1 \in PlacesIn(backlog, q, j)
    BY <2>2, <2>3, <2>4
  <2>6. \A m, n \in PlacesIn(backlog', q, j) : m = n
    BY <2>5
  <2>7. j = Head(s) => 1 \in PlacesIn(backlog, q, j)
    BY <2>2, <2>4
  <2>8. ASSUME j = Head(s), NEW i \in PlacesIn(backlog', q, j) PROVE FALSE
    BY <2>5, <2>7, <2>8
  <2> QED BY <2>5, <2>6, <2>7, <2>8 DEF s
<1> QED BY <1>2, <1>3

\* A submission and its execution have one holder and no other.
LEMMA HeldOnce ==
  ASSUME HeldRuns, OneHolder, NEW j \in JobIds
  PROVE  /\ status[j] # "running" => RunsIn(thread, j) = {} /\ \A p \in Pollers : PlacesIn(backlog, p, j) = {}
         /\ \A t \in Threads, p \in Pollers : t \in RunsIn(thread, j) => RunsIn(thread, j) = {t} /\ PlacesIn(backlog, p, j) = {}
BY DEF HeldRuns, HeldIn, OneHolder

LEMMA InitOrderly == Init => Orderly
<1> SUFFICES ASSUME Init PROVE Orderly
  OBVIOUS
<1>1. /\ status = [j \in JobIds |-> "absent"] /\ issued = 0
      /\ poll = [p \in Pollers |-> NoPoll] /\ backlog = [p \in Pollers |-> <<>>]
      /\ thread = [t \in Threads |-> IdleThread]
  BY DEF Init
<1>2. \A j \in JobIds : RunsIn(thread, j) = {} /\ \A p \in Pollers : PlacesIn(backlog, p, j) = {}
  BY <1>1 DEF RunsIn, PlacesIn, IdleThread
<1>3. RowsIssued
  BY <1>1 DEF RowsIssued, JobIds
<1>4. HeldRuns /\ OneHolder /\ SubmittedFresh
  BY <1>2 DEF HeldRuns, HeldIn, OneHolder, SubmittedFresh
<1>5. PollIsSound
  BY <1>1 DEF PollIsSound, NoPoll
<1> QED BY <1>3, <1>4, <1>5 DEF Orderly

\* Nothing of it looks at the requests.
LEMMA EnqueueOrderly ==
  ASSUME TypeInv, Orderly, NEW c \in Clients, NEW k \in Codes, EnqueueCheck(c, k) \/ EnqueueInsert(c)
  PROVE  Orderly' /\ QueueStep
<1>1. UNCHANGED <<age, poll, backlog, thread>>
  BY DEF EnqueueCheck, EnqueueInsert, process, rows
<1>2. \A j \in JobIds : RunsIn(thread', j) = RunsIn(thread, j) /\ (HeldIn(thread', backlog', j) <=> HeldIn(thread, backlog, j)) /\ \A p \in Pollers : PlacesIn(backlog', p, j) = PlacesIn(backlog, p, j)
  BY <1>1 DEF RunsIn, PlacesIn, HeldIn
<1>3. CASE UNCHANGED <<status, issued>>
  BY <1>1, <1>2, <1>3 DEF Orderly, RowsIssued, HeldRuns, OneHolder, SubmittedFresh, PollIsSound,
                          QueueStep, HoldersLost
<1>4. CASE EnqueueInsert(c)
  <2>1. /\ issued + 1 \in JobIds /\ issued' = issued + 1 /\ issued \in 0..MaxJobs
        /\ status' = [status EXCEPT ![issued + 1] = "pending"] /\ status \in [JobIds -> Statuses]
    BY <1>4 DEF EnqueueInsert, JobIds, TypeInv, TypeOK
  <2>2. status[issued + 1] = "absent"
    BY <2>1 DEF Orderly, RowsIssued
  <2>3. RowsIssued'
    BY <2>1 DEF Orderly, RowsIssued, JobIds
  <2>4. \A j \in JobIds : status[j] # "absent" => status'[j] = status[j]
    BY <2>1, <2>2
  <2>5. (HeldRuns /\ OneHolder /\ SubmittedFresh)'
    BY <1>1, <1>2, <2>4 DEF Orderly, HeldRuns, OneHolder, SubmittedFresh
  <2>6. \A p \in Pollers : poll[p].at = "claim" => poll[p].pick \in JobIds
    BY DEF TypeInv, Referenced
  <2>7. PollIsSound'
    BY <1>1, <1>2, <2>4, <2>6 DEF Orderly, PollIsSound
  <2>8. Inserted(issued + 1)
    BY <1>2, <2>1, <2>2 DEF Inserted, RowMoves, HoldsStay
  <2> QED BY <2>1, <2>3, <2>5, <2>7, <2>8 DEF Orderly, QueueStep
<1> QED BY <1>3, <1>4 DEF EnqueueCheck, rows

\* A poll chooses rows nobody holds; what it chose stays so, for it is alone.
LEMMA PollOrderly ==
  ASSUME OnePoller, TypeInv, Fresh, Orderly, NEW p \in Pollers,
         PollStart(p) \/ PollReclaim(p) \/ PollClaim(p) \/ Crash(p)
  PROVE  Orderly' /\ QueueStep
<1>0. /\ poll \in [Pollers -> PollState] /\ status \in [JobIds -> Statuses] /\ age \in [JobIds -> 0..(StaleAfter + 1)]
      /\ backlog \in [Pollers -> Seq(JobIds)] /\ DOMAIN thread = Threads
  BY DEF TypeInv, TypeOK
<1>1. CASE PollStart(p)
  <2>1. poll' = [poll EXCEPT ![p] = Reclaiming(Stale)] /\ UNCHANGED <<issued, status, age, backlog, thread>>
    BY <1>1 DEF PollStart, rows
  <2>2. \A j \in JobIds : RunsIn(thread', j) = RunsIn(thread, j) /\ (HeldIn(thread', backlog', j) <=> HeldIn(thread, backlog, j)) /\ \A q \in Pollers : PlacesIn(backlog', q, j) = PlacesIn(backlog, q, j)
    BY <2>1 DEF RunsIn, PlacesIn, HeldIn
  <2>3. \A j \in Stale : j \in JobIds /\ status[j] = "running" /\ ~HeldIn(thread, backlog, j)
    <3> SUFFICES ASSUME NEW j \in Stale PROVE j \in JobIds /\ status[j] = "running" /\ ~HeldIn(thread, backlog, j)
      OBVIOUS
    <3>1. j \in JobIds /\ status[j] = "running" /\ age[j] # 0
      BY DEF Stale
    <3>2. RunsIn(thread, j) = {}
      BY FreshIsOrphan DEF StaleIsOrphan, RunsIn
    <3> QED BY <3>1, <3>2 DEF HeldIn, Orderly, SubmittedFresh
  <2>4. PollIsSound'
    BY <1>0, <2>1, <2>2, <2>3 DEF Orderly, PollIsSound, Reclaiming
  <2>5. QueueStep
    BY <2>1, <2>2 DEF QueueStep, HoldersLost
  <2> QED BY <2>1, <2>2, <2>4, <2>5 DEF Orderly, RowsIssued, HeldRuns, OneHolder, SubmittedFresh
<1>2. CASE PollReclaim(p)
  <2> DEFINE victims == poll[p].victims
             queued == {j \in JobIds : j \in victims \/ status[j] = "pending"}
  <2>1. /\ status' = [j \in JobIds |-> IF j \in victims THEN "pending" ELSE status[j]]
        /\ age' = [j \in JobIds |-> IF j \in victims THEN 0 ELSE age[j]]
        /\ poll' = [poll EXCEPT ![p] = IF queued = {} THEN NoPoll ELSE Claiming(Oldest(queued))]
        /\ UNCHANGED <<issued, backlog, thread>>
    BY <1>2 DEF PollReclaim
  <2>2. \A j \in JobIds : RunsIn(thread', j) = RunsIn(thread, j) /\ (HeldIn(thread', backlog', j) <=> HeldIn(thread, backlog, j)) /\ \A q \in Pollers : PlacesIn(backlog', q, j) = PlacesIn(backlog, q, j)
    BY <2>1 DEF RunsIn, PlacesIn, HeldIn
  <2>3. \A j \in victims : j \in JobIds /\ status[j] = "running" /\ ~HeldIn(thread, backlog, j)
    BY <1>2 DEF PollReclaim, Orderly, PollIsSound
  <2>4. queued # {} => Oldest(queued) \in queued
    <3>1. queued \in SUBSET JobIds
      OBVIOUS
    <3> HIDE DEF queued
    <3> QED BY <3>1, OldestIsMember
  <2>5. \A j \in queued : j \in JobIds /\ status'[j] = "pending"
    BY <2>1
  <2> HIDE DEF queued
  <2>6. PollIsSound'
    <3>1. \A q \in Pollers : q = p
      BY DEF OnePoller
    <3>2. poll'[p] = IF queued = {} THEN NoPoll ELSE Claiming(Oldest(queued))
      BY <1>0, <2>1
    <3>3. poll'[p].at # "reclaim" /\ (poll'[p].at = "claim" => queued # {} /\ poll'[p].pick = Oldest(queued))
      BY <3>2 DEF NoPoll, Claiming
    <3> QED BY <2>4, <2>5, <3>1, <3>3 DEF PollIsSound
  <2> HIDE DEF victims
  <2>7. RowsIssued'
    BY <2>1, <2>3 DEF Orderly, RowsIssued
  <2>8. HeldRuns'
    BY <2>1, <2>2, <2>3 DEF Orderly, HeldRuns
  <2>9. OneHolder'
    BY <2>2 DEF Orderly, OneHolder
  <2>10. SubmittedFresh'
    BY <2>1, <2>2 DEF Orderly, SubmittedFresh
  <2>11. Reclaimed(victims) /\ victims \in SUBSET JobIds
    BY <2>1, <2>2, <2>3 DEF Reclaimed, HoldsStay
  <2> QED BY <2>6, <2>7, <2>8, <2>9, <2>10, <2>11 DEF Orderly, QueueStep
<1>3. CASE PollClaim(p)
  <2>1. PICK k \in JobIds : k = poll[p].pick
    BY <1>3 DEF PollClaim, TypeInv, Referenced
  <2>2. /\ status' = [status EXCEPT ![k] = "running"] /\ age' = [age EXCEPT ![k] = 0]
        /\ backlog'[p] = Append(backlog[p], k) /\ \A q \in Pollers \ {p} : backlog'[q] = backlog[q]
        /\ poll' = [poll EXCEPT ![p] = NoPoll] /\ UNCHANGED <<issued, thread>>
        /\ poll[p].at = "claim"
    BY <1>0, <1>3, <2>1 DEF PollClaim
  <2>3. status[k] = "pending"
    BY <2>1, <2>2 DEF Orderly, PollIsSound
  <2>4. RunsIn(thread, k) = {} /\ \A q \in Pollers : PlacesIn(backlog, q, k) = {}
    BY <2>3, HeldOnce DEF Orderly
  <2>5. \A j \in JobIds : RunsIn(thread', j) = RunsIn(thread, j)
    BY <2>2 DEF RunsIn
  <2>6. \A q \in Pollers, j \in JobIds : j # k => PlacesIn(backlog', q, j) = PlacesIn(backlog, q, j)
    BY <2>2, SubmittedAppend
  <2>7. \A q \in Pollers : PlacesIn(backlog', q, k) = IF q = p THEN {Len(backlog[p]) + 1} ELSE {}
    BY <2>2, <2>4, SubmittedAppend
  <2>8. \A j \in JobIds : j # k => (HeldIn(thread', backlog', j) <=> HeldIn(thread, backlog, j))
    BY <2>5, <2>6 DEF HeldIn
  <2>9. RowsIssued'
    BY <1>0, <2>2, <2>3 DEF Orderly, RowsIssued
  <2>10. HeldRuns'
    BY <1>0, <2>2, <2>8 DEF Orderly, HeldRuns
  <2>11. OneHolder'
    <3> SUFFICES ASSUME NEW j \in JobIds
                 PROVE  /\ \A t, u \in RunsIn(thread', j) : t = u
                        /\ \A q \in Pollers : \A m, n \in PlacesIn(backlog', q, j) : m = n
                        /\ \A q, r \in Pollers : PlacesIn(backlog', q, j) # {} /\ PlacesIn(backlog', r, j) # {} => q = r
                        /\ \A q \in Pollers : ~(RunsIn(thread', j) # {} /\ PlacesIn(backlog', q, j) # {})
      BY DEF OneHolder
    <3>1. CASE j = k
      BY <2>4, <2>5, <2>7, <3>1
    <3>2. CASE j # k
      BY <2>5, <2>6, <3>2 DEF Orderly, OneHolder
    <3> QED BY <3>1, <3>2
  <2>12. SubmittedFresh'
    BY <1>0, <2>2, <2>6 DEF Orderly, SubmittedFresh
  <2>13. PollIsSound'
    <3>1. \A q \in Pollers : q = p
      BY DEF OnePoller
    <3>2. poll'[p] = NoPoll
      BY <1>0, <2>2
    <3> QED BY <3>1, <3>2 DEF PollIsSound, NoPoll
  <2>14. Claimed(k)
    BY <1>0, <2>2, <2>3, <2>4, <2>7, <2>8 DEF Claimed, RowMoves, HoldMoves, HeldIn
  <2> QED BY <2>9, <2>10, <2>11, <2>12, <2>13, <2>14 DEF Orderly, QueueStep
<1>4. CASE Crash(p)
  <2>1. /\ poll' = [poll EXCEPT ![p] = NoPoll] /\ backlog' = [backlog EXCEPT ![p] = <<>>]
        /\ thread' = [t \in Threads |-> IF Proc(t) = p THEN IdleThread ELSE thread[t]]
        /\ UNCHANGED <<issued, status, age>>
    BY <1>4 DEF Crash, rows
  <2>2. \A j \in JobIds : RunsIn(thread', j) \subseteq RunsIn(thread, j)
    BY <2>1 DEF RunsIn, IdleThread
  <2>3. \A q \in Pollers, j \in JobIds : PlacesIn(backlog', q, j) \subseteq PlacesIn(backlog, q, j)
    BY <1>0, <2>1 DEF PlacesIn
  <2>4. \A j \in JobIds : HeldIn(thread', backlog', j) => HeldIn(thread, backlog, j)
    BY <2>2, <2>3 DEF HeldIn
  <2>5. RowsIssued' /\ HeldRuns'
    BY <2>1, <2>4 DEF Orderly, RowsIssued, HeldRuns
  <2>6. OneHolder'
    BY <2>2, <2>3 DEF Orderly, OneHolder
  <2>7. SubmittedFresh'
    BY <2>1, <2>3 DEF Orderly, SubmittedFresh
  <2>8. PollIsSound'
    BY <1>0, <2>1, <2>4 DEF Orderly, PollIsSound, NoPoll
  <2>9. QueueStep
    BY <2>1, <2>4 DEF QueueStep, HoldersLost
  <2> QED BY <2>5, <2>6, <2>7, <2>8, <2>9 DEF Orderly
<1> QED BY <1>1, <1>2, <1>3, <1>4

\* A thread takes a job over from the backlog and lets go of it; its row is
\* running as long as the thread, or the backlog, holds it.
LEMMA ThreadOrderly ==
  ASSUME TypeInv, Fresh, Orderly, NEW t \in Threads,
         \/ ThreadStart(t) \/ Heartbeat(t) \/ HeartbeatFails(t)
         \/ Finish(t) \/ Requeue(t) \/ RunDies(t) \/ ReleaseRead(t) \/ ReleaseStore(t)
  PROVE  Orderly' /\ QueueStep
<1>0. /\ status \in [JobIds -> Statuses] /\ age \in [JobIds -> 0..(StaleAfter + 1)]
      /\ backlog \in [Pollers -> Seq(JobIds)] /\ DOMAIN thread = Threads /\ Proc(t) \in Pollers
      /\ thread[t].at = "run" => thread[t].job \in JobIds
      /\ \A p \in Pollers : poll[p].at = "claim" => poll[p].pick \in JobIds
  BY DEF TypeInv, TypeOK, Referenced, Threads, Proc
<1>1. CASE ThreadStart(t)
  <2>1. PICK k \in JobIds : k = Head(backlog[Proc(t)])
    BY <1>1, StartedRow
  <2>2. /\ backlog[Proc(t)] # <<>> /\ thread[t].at = "idle"
        /\ backlog'[Proc(t)] = Tail(backlog[Proc(t)])
        /\ \A q \in Pollers \ {Proc(t)} : backlog'[q] = backlog[q]
        /\ UNCHANGED <<issued, poll>>
    BY <1>0, <1>1 DEF ThreadStart
  <2>3. \A p \in Pollers, j \in JobIds : \A m, n \in PlacesIn(backlog, p, j) : m = n
    BY DEF Orderly, OneHolder
  <2>4. \A p \in Pollers, j \in JobIds :
          /\ \A m, n \in PlacesIn(backlog', p, j) : m = n
          /\ PlacesIn(backlog', p, j) # {} => PlacesIn(backlog, p, j) # {}
          /\ p = Proc(t) /\ j = k => PlacesIn(backlog', p, j) = {} /\ PlacesIn(backlog, p, j) # {}
    BY <1>0, <2>1, <2>2, <2>3, SubmittedTail
  <2>5. /\ HeldIn(thread, backlog, k) /\ status[k] = "running" /\ RunsIn(thread, k) = {}
        /\ \A p \in Pollers : p # Proc(t) => PlacesIn(backlog, p, k) = {}
    <3>1. PlacesIn(backlog, Proc(t), k) # {}
      BY <1>0, <2>4
    <3> QED BY <1>0, <3>1 DEF Orderly, HeldRuns, OneHolder, HeldIn
  <2>6. \A p \in Pollers : PlacesIn(backlog', p, k) = {}
    BY <1>0, <2>4, <2>5
  <2>7. /\ thread' = [thread EXCEPT ![t] = Running(k, FALSE, 0)]
        /\ status' = [status EXCEPT ![k] = "running"]
        /\ age' = [age EXCEPT ![k] = 0]
    BY <1>1, <2>1, <2>5 DEF ThreadStart, Terminal
  <2>8. status' = status
    BY <1>0, <2>5, <2>7
  <2>9. t \notin UNION {RunsIn(thread, j) : j \in JobIds}
    BY <2>2 DEF RunsIn
  <2>10. \A j \in JobIds : RunsIn(thread', j) = IF j = k THEN {t} ELSE RunsIn(thread, j)
    <3>1. thread'[t].at = "run" /\ thread'[t].job = k /\ \A u \in Threads \ {t} : thread'[u] = thread[u]
      BY <1>0, <2>7 DEF Running
    <3> QED BY <2>5, <2>9, <3>1, RunsChange
  <2>11. \A j \in JobIds : HeldIn(thread', backlog', j) => HeldIn(thread, backlog, j)
    BY <2>4, <2>5, <2>10 DEF HeldIn
  <2>12. RowsIssued' /\ HeldRuns'
    BY <2>2, <2>8, <2>11 DEF Orderly, RowsIssued, HeldRuns
  <2>13. OneHolder'
    <3> SUFFICES ASSUME NEW j \in JobIds
                 PROVE  /\ \A u, v \in RunsIn(thread', j) : u = v
                        /\ \A q \in Pollers : \A m, n \in PlacesIn(backlog', q, j) : m = n
                        /\ \A q, r \in Pollers : PlacesIn(backlog', q, j) # {} /\ PlacesIn(backlog', r, j) # {} => q = r
                        /\ \A q \in Pollers : ~(RunsIn(thread', j) # {} /\ PlacesIn(backlog', q, j) # {})
      BY DEF OneHolder
    <3>1. CASE j = k
      BY <2>6, <2>10, <3>1
    <3>2. CASE j # k
      BY <2>4, <2>10, <3>2 DEF Orderly, OneHolder
    <3> QED BY <3>1, <3>2
  <2>14. SubmittedFresh'
    BY <1>0, <2>4, <2>7 DEF Orderly, SubmittedFresh
  <2>15. PollIsSound'
    BY <2>2, <2>8, <2>11 DEF Orderly, PollIsSound
  <2>16. QueueStep
    BY <2>8, <2>11 DEF QueueStep, HoldersLost
  <2> QED BY <2>12, <2>13, <2>14, <2>15, <2>16 DEF Orderly
<1>2. CASE Heartbeat(t) \/ HeartbeatFails(t)
  <2>1. /\ thread'[t].at = "run" /\ thread'[t].job = thread[t].job
        /\ \A u \in Threads \ {t} : thread'[u] = thread[u]
    BY <1>0, <1>2 DEF Heartbeat, HeartbeatFails, Running
  <2>2. UNCHANGED <<issued, status, poll, backlog>> /\ thread[t].at = "run"
    BY <1>2 DEF Heartbeat, HeartbeatFails, rows, Beating
  <2>3. \A j \in JobIds : age'[j] \in {age[j], 0}
    BY <1>0, <1>2 DEF Heartbeat, HeartbeatFails, rows
  <2>4. \A j \in JobIds : RunsIn(thread', j) = RunsIn(thread, j) /\ \A p \in Pollers : PlacesIn(backlog', p, j) = PlacesIn(backlog, p, j)
    <3>1. ASSUME NEW j \in JobIds PROVE RunsIn(thread', j) = RunsIn(thread, j)
      <4>1. RunsIn(thread', j) = (RunsIn(thread, j) \ {t}) \cup (IF thread[t].job = j THEN {t} ELSE {})
        BY <2>1, RunsChange
      <4>2. t \in RunsIn(thread, j) <=> thread[t].job = j
        BY <2>2 DEF RunsIn
      <4> QED BY <4>1, <4>2
    <3> QED BY <2>2, <3>1 DEF PlacesIn
  <2>5. \A j \in JobIds : (HeldIn(thread', backlog', j) <=> HeldIn(thread, backlog, j))
    BY <2>4 DEF HeldIn
  <2> QED BY <2>2, <2>3, <2>4, <2>5 DEF Orderly, RowsIssued, HeldRuns, OneHolder, SubmittedFresh, PollIsSound,
                                     QueueStep, HoldersLost
<1>3. CASE Finish(t) \/ Requeue(t)
  <2>1. PICK outcome \in {"done", "failed", "pending"} : Conclude(t, outcome)
    BY <1>3 DEF Finish, Requeue
  <2>2. PICK k \in JobIds : k = thread[t].job
    BY <1>0, <2>1 DEF Conclude
  <2>3. /\ thread[t].at = "run" /\ thread'[t].at = "release"
        /\ \A u \in Threads \ {t} : thread'[u] = thread[u]
        /\ status' = [status EXCEPT ![k] = outcome] /\ age' = [age EXCEPT ![k] = 0]
        /\ UNCHANGED <<issued, poll, backlog>>
    BY <1>0, <2>1, <2>2 DEF Conclude, Returning
  <2>4. t \in RunsIn(thread, k) /\ HeldIn(thread, backlog, k) /\ status[k] = "running"
    BY <2>2, <2>3 DEF RunsIn, HeldIn, Orderly, HeldRuns
  <2>5. RunsIn(thread, k) = {t} /\ \A p \in Pollers : PlacesIn(backlog, p, k) = {}
    BY <1>0, <2>4, HeldOnce DEF Orderly
  <2>6. \A j \in JobIds : RunsIn(thread', j) = RunsIn(thread, j) \ {t}
    BY <2>3, RunsChange
  <2>7. \A j \in JobIds, p \in Pollers : PlacesIn(backlog', p, j) = PlacesIn(backlog, p, j)
    BY <2>3 DEF PlacesIn
  <2>8. ~HeldIn(thread', backlog', k) /\ \A j \in JobIds : HeldIn(thread', backlog', j) => HeldIn(thread, backlog, j)
    BY <2>5, <2>6, <2>7 DEF HeldIn
  <2>9. RowsIssued' /\ HeldRuns'
    BY <1>0, <2>3, <2>4, <2>8 DEF Orderly, RowsIssued, HeldRuns
  <2>10. OneHolder'
    BY <2>6, <2>7 DEF Orderly, OneHolder
  <2>11. SubmittedFresh'
    BY <1>0, <2>3, <2>7 DEF Orderly, SubmittedFresh
  <2>12. PollIsSound'
    BY <1>0, <2>3, <2>4, <2>8 DEF Orderly, PollIsSound
  <2>13. \A j \in JobIds \ {k} : HeldIn(thread', backlog', j) <=> HeldIn(thread, backlog, j)
    <3>1. \A j \in JobIds \ {k} : t \notin RunsIn(thread, j)
      BY <2>2 DEF RunsIn
    <3> QED BY <2>6, <2>7, <3>1 DEF HeldIn
  <2>14. Left(k, outcome)
    BY <1>0, <2>3, <2>4, <2>8, <2>13 DEF Left, RowMoves, HoldMoves
  <2> QED BY <2>9, <2>10, <2>11, <2>12, <2>14 DEF Orderly, QueueStep
<1>4. CASE RunDies(t) \/ ReleaseRead(t) \/ ReleaseStore(t)
  <2>1. thread'[t].at # "run" /\ \A u \in Threads \ {t} : thread'[u] = thread[u]
    BY <1>0, <1>4 DEF RunDies, ReleaseRead, ReleaseStore, Returning, Storing, IdleThread
  <2>2. UNCHANGED <<issued, status, age, poll, backlog>>
    BY <1>4 DEF RunDies, ReleaseRead, ReleaseStore, rows
  <2>3. \A j \in JobIds : RunsIn(thread', j) = RunsIn(thread, j) \ {t}
    BY <2>1, RunsChange
  <2>4. \A j \in JobIds, p \in Pollers : PlacesIn(backlog', p, j) = PlacesIn(backlog, p, j)
    BY <2>2 DEF PlacesIn
  <2>5. \A j \in JobIds : HeldIn(thread', backlog', j) => HeldIn(thread, backlog, j)
    BY <2>3, <2>4 DEF HeldIn
  <2>6. RowsIssued' /\ HeldRuns' /\ SubmittedFresh' /\ PollIsSound'
    BY <2>2, <2>4, <2>5 DEF Orderly, RowsIssued, HeldRuns, SubmittedFresh, PollIsSound
  <2>7. OneHolder'
    BY <2>3, <2>4 DEF Orderly, OneHolder
  <2>8. QueueStep
    BY <2>2, <2>5 DEF QueueStep, HoldersLost
  <2> QED BY <2>6, <2>7, <2>8 DEF Orderly
<1> QED BY <1>1, <1>2, <1>3, <1>4

-------------------------------------------------------------------------------
(***************************************************************************)
(* The counter.                                                            *)
(***************************************************************************)

\* The busy threads of a process are some of its lanes.
LEMMA LanesAreCounted == MaxInflight \in Nat
BY FS_CardinalityType DEF MaxInflight

LEMMA BusyIsFinite ==
  ASSUME NEW th, NEW p \in Pollers
  PROVE  IsFiniteSet(BusyIn(th, p)) /\ Cardinality(BusyIn(th, p)) \in Nat
<1>1. IsFiniteSet({p} \X Lanes)
  BY FS_Singleton, FS_Product
<1>2. BusyIn(th, p) \subseteq {p} \X Lanes
  BY DEF BusyIn, Threads, Proc
<1> QED BY <1>1, <1>2, FS_Subset, FS_CardinalityType

LEMMA AllBusy ==
  ASSUME NEW th, NEW p \in Pollers, \A t \in Threads : Proc(t) = p => th[t].at # "idle"
  PROVE  Cardinality(BusyIn(th, p)) = MaxInflight
<1>1. /\ IsFiniteSet({p}) /\ Cardinality({p}) = 1
      /\ Cardinality(Lanes) \in Nat
  BY FS_Singleton, FS_CardinalityType
<1>2. Cardinality({p} \X Lanes) = 1 * Cardinality(Lanes)
  BY <1>1, FS_Product
<1>3. BusyIn(th, p) = {p} \X Lanes
  BY DEF BusyIn, Threads, Proc
<1> QED BY <1>1, <1>2, <1>3 DEF MaxInflight

\* What one thread's change makes of the number of busy threads.
LEMMA BusyChange ==
  ASSUME NEW t \in Threads, \A u \in Threads \ {t} : thread'[u] = thread[u], NEW p \in Pollers
  PROVE  LET before == Cardinality(BusyIn(thread, p))
             after == Cardinality(BusyIn(thread', p)) IN
         /\ p # Proc(t) => after = before
         /\ p = Proc(t) /\ (thread[t].at = "idle" <=> thread'[t].at = "idle") => after = before
         /\ p = Proc(t) /\ thread[t].at = "idle" /\ thread'[t].at # "idle" => after = before + 1
         /\ p = Proc(t) /\ thread[t].at # "idle" /\ thread'[t].at = "idle" =>
              after = before - 1 /\ before # 0
<1>1. IsFiniteSet(BusyIn(thread, p)) /\ Cardinality(BusyIn(thread, p)) \in Nat
  BY BusyIsFinite
<1>2. CASE p # Proc(t) \/ (thread[t].at = "idle" <=> thread'[t].at = "idle")
  <2>1. BusyIn(thread', p) = BusyIn(thread, p)
    BY <1>2 DEF BusyIn
  <2> QED BY <1>2, <2>1
<1>3. CASE p = Proc(t) /\ thread[t].at = "idle" /\ thread'[t].at # "idle"
  <2>1. BusyIn(thread', p) = BusyIn(thread, p) \cup {t} /\ t \notin BusyIn(thread, p)
    BY <1>3 DEF BusyIn
  <2>2. Cardinality(BusyIn(thread', p)) = Cardinality(BusyIn(thread, p)) + 1
    <3>1. PICK busy : busy = BusyIn(thread, p) /\ IsFiniteSet(busy) /\ t \notin busy
      BY <1>1, <2>1
    <3>2. Cardinality(busy \cup {t}) = Cardinality(busy) + 1
      BY <3>1, FS_AddElement
    <3> QED BY <2>1, <3>1, <3>2
  <2> QED BY <1>3, <2>2
<1>4. CASE p = Proc(t) /\ thread[t].at # "idle" /\ thread'[t].at = "idle"
  <2>1. BusyIn(thread', p) = BusyIn(thread, p) \ {t} /\ t \in BusyIn(thread, p)
    BY <1>4 DEF BusyIn
  <2>2. Cardinality(BusyIn(thread, p)) # 0
    BY <1>1, <2>1, FS_EmptySet
  <2>3. Cardinality(BusyIn(thread', p)) = Cardinality(BusyIn(thread, p)) - 1
    <3>1. PICK busy : busy = BusyIn(thread, p) /\ IsFiniteSet(busy) /\ t \in busy
      BY <1>1, <2>1
    <3>2. Cardinality(busy \ {t}) = Cardinality(busy) - 1
      BY <3>1, FS_RemoveElement
    <3> QED BY <2>1, <3>1, <3>2
  <2> QED BY <1>4, <2>2, <2>3
<1> QED BY <1>2, <1>3, <1>4

LEMMA InitCounted == Init => Counted
<1> SUFFICES ASSUME Init PROVE Counted
  OBVIOUS
<1>1. \A p \in Pollers : inflight[p] = 0 /\ backlog[p] = <<>> /\ poll[p].at = "idle"
  BY DEF Init, NoPoll
<1>2. \A t \in Threads : thread[t].at = "idle"
  BY DEF Init, IdleThread
<1>3. \A p \in Pollers : Cardinality(BusyIn(thread, p)) = 0
  BY <1>2, FS_EmptySet DEF BusyIn
<1>4. CounterIsTrue
  BY <1>1, <1>3, LanesAreCounted DEF CounterIsTrue
<1> QED BY <1>4 DEF Counted

LEMMA PollCounted ==
  ASSUME TypeInv, Counted, NEW p \in Pollers,
         PollStart(p) \/ PollReclaim(p) \/ PollClaim(p) \/ Crash(p)
  PROVE  Counted'
<1>0. /\ poll \in [Pollers -> PollState] /\ backlog \in [Pollers -> Seq(JobIds)]
      /\ inflight \in [Pollers -> Nat] /\ DOMAIN thread = Threads
  BY DEF TypeInv, TypeOK
<1>1. CASE PollStart(p) \/ PollReclaim(p)
  <2>1. /\ UNCHANGED <<inflight, backlog, thread>>
        /\ \A q \in Pollers \ {p} : poll'[q] = poll[q]
        /\ PollStart(p) => inflight[p] < MaxInflight
        /\ PollReclaim(p) => poll[p].at = "reclaim"
    BY <1>0, <1>1 DEF PollStart, PollReclaim
  <2>2. inflight[p] < MaxInflight
    BY <1>1, <2>1 DEF Counted, CounterIsTrue
  <2> QED BY <2>1, <2>2 DEF Counted, CounterIsTrue
<1>2. CASE PollClaim(p)
  <2>1. /\ inflight'[p] = inflight[p] + 1 /\ backlog'[p] = Append(backlog[p], poll[p].pick)
        /\ poll[p].at = "claim" /\ poll[p].pick \in JobIds /\ poll'[p].at = "idle"
        /\ \A q \in Pollers \ {p} : UNCHANGED <<poll[q], inflight[q], backlog[q]>>
        /\ UNCHANGED thread
    BY <1>0, <1>2 DEF PollClaim, NoPoll, TypeInv, Referenced
  <2>2. Len(backlog'[p]) = Len(backlog[p]) + 1 /\ Len(backlog[p]) \in Nat
    BY <1>0, <2>1
  <2>3. inflight[p] < MaxInflight
    BY <2>1 DEF Counted, CounterIsTrue
  <2>4. /\ inflight'[p] = Len(backlog'[p]) + Cardinality(BusyIn(thread, p))
        /\ inflight'[p] <= MaxInflight
    <3>1. /\ inflight[p] = Len(backlog[p]) + Cardinality(BusyIn(thread, p))
          /\ inflight[p] \in Nat /\ Cardinality(BusyIn(thread, p)) \in Nat
      BY <1>0, BusyIsFinite DEF Counted, CounterIsTrue
    <3> QED BY <2>1, <2>2, <2>3, <3>1, LanesAreCounted
  <2> QED BY <2>1, <2>4 DEF Counted, CounterIsTrue
<1>3. CASE Crash(p)
  <2>1. /\ inflight'[p] = 0 /\ backlog'[p] = <<>> /\ poll'[p].at = "idle"
        /\ \A q \in Pollers \ {p} : UNCHANGED <<poll[q], inflight[q], backlog[q]>>
        /\ \A t \in Threads : thread'[t] = IF Proc(t) = p THEN IdleThread ELSE thread[t]
    BY <1>0, <1>3 DEF Crash, NoPoll
  <2>2. BusyIn(thread', p) = {} /\ \A q \in Pollers \ {p} : BusyIn(thread', q) = BusyIn(thread, q)
    BY <2>1 DEF BusyIn, IdleThread
  <2>3. CounterIsTrue'
    <3> SUFFICES ASSUME NEW q \in Pollers
                 PROVE  /\ inflight'[q] = Len(backlog'[q]) + Cardinality(BusyIn(thread', q))
                        /\ inflight'[q] <= MaxInflight
                        /\ poll'[q].at # "idle" => inflight'[q] < MaxInflight
      BY DEF CounterIsTrue
    <3>1. CASE q = p
      <4>1. Cardinality(BusyIn(thread', p)) = 0
        BY <2>2, FS_EmptySet
      <4> QED BY <2>1, <3>1, <4>1, LanesAreCounted
    <3>2. CASE q # p
      BY <2>1, <2>2, <3>2 DEF Counted, CounterIsTrue
    <3> QED BY <3>1, <3>2
  <2> QED BY <2>3 DEF Counted
<1> QED BY <1>1, <1>2, <1>3

LEMMA ThreadCounted ==
  ASSUME DecrementsAreCurrent, TypeInv, Counted, NEW t \in Threads,
         \/ ThreadStart(t) \/ Heartbeat(t) \/ HeartbeatFails(t)
         \/ Finish(t) \/ Requeue(t) \/ RunDies(t) \/ ReleaseRead(t) \/ ReleaseStore(t)
  PROVE  Counted'
<1>0. /\ backlog \in [Pollers -> Seq(JobIds)] /\ inflight \in [Pollers -> Nat]
      /\ DOMAIN thread = Threads /\ Proc(t) \in Pollers
  BY DEF TypeInv, TypeOK, Threads, Proc
<1> DEFINE q == Proc(t)
<1>1. CASE ThreadStart(t)
  <2>1. /\ backlog[q] # <<>> /\ backlog'[q] = Tail(backlog[q])
        /\ \A p \in Pollers \ {q} : backlog'[p] = backlog[p]
        /\ UNCHANGED <<poll, inflight>>
        /\ thread[t].at = "idle" /\ thread'[t].at \notin {"idle", "store"}
        /\ \A u \in Threads \ {t} : thread'[u] = thread[u]
    BY <1>0, <1>1 DEF ThreadStart, Returning, Running
  <2>2. Len(backlog'[q]) = Len(backlog[q]) - 1 /\ Len(backlog[q]) \in Nat
    BY <1>0, <2>1
  <2>3. CounterIsTrue'
    <3> SUFFICES ASSUME NEW p \in Pollers
                 PROVE  inflight[p] = Len(backlog'[p]) + Cardinality(BusyIn(thread', p))
      BY <2>1 DEF Counted, CounterIsTrue
    <3>1. CASE p = q
      <4>1. /\ inflight[q] = Len(backlog[q]) + Cardinality(BusyIn(thread, q))
            /\ Cardinality(BusyIn(thread, q)) \in Nat
        BY <1>0, BusyIsFinite DEF Counted, CounterIsTrue
      <4>2. Cardinality(BusyIn(thread', q)) = Cardinality(BusyIn(thread, q)) + 1
        BY <1>0, <2>1, BusyChange
      <4>3. inflight[q] = Len(backlog'[q]) + Cardinality(BusyIn(thread', q))
        BY <2>2, <4>1, <4>2
      <4> QED BY ONLY <3>1, <4>3
    <3>2. CASE p # q
      BY <2>1, <3>2, BusyChange DEF Counted, CounterIsTrue
    <3> QED BY <3>1, <3>2
  <2> QED BY <2>3 DEF Counted
<1>2. CASE Heartbeat(t) \/ HeartbeatFails(t) \/ Finish(t) \/ Requeue(t) \/ RunDies(t)
  <2>1. /\ UNCHANGED <<poll, inflight, backlog>>
        /\ thread[t].at = "run" /\ thread'[t].at \in {"run", "release"}
        /\ \A u \in Threads \ {t} : thread'[u] = thread[u]
    BY <1>0, <1>2 DEF Heartbeat, HeartbeatFails, Finish, Requeue, Conclude, RunDies, Beating, Running, Returning
  <2>2. CounterIsTrue'
    BY <2>1, BusyChange DEF Counted, CounterIsTrue
  <2> QED BY <2>2 DEF Counted
<1>3. CASE ReleaseRead(t)
  <2>1. /\ UNCHANGED <<poll, inflight, backlog>>
        /\ thread[t].at = "release" /\ thread'[t].at = "store"
        /\ \A u \in Threads \ {t} : thread'[u] = thread[u]
    BY <1>0, <1>3 DEF ReleaseRead, Storing
  <2>2. CounterIsTrue'
    BY <2>1, BusyChange DEF Counted, CounterIsTrue
  <2> QED BY <2>2 DEF Counted
<1>4. CASE ReleaseStore(t)
  <2>1. /\ UNCHANGED <<poll, backlog>> /\ \A p \in Pollers \ {q} : inflight'[p] = inflight[p]
        /\ inflight'[q] = IF thread[t].seen = 0 THEN 0 ELSE thread[t].seen - 1
        /\ thread[t].at = "store" /\ thread'[t].at = "idle"
        /\ \A u \in Threads \ {t} : thread'[u] = thread[u]
    BY <1>0, <1>4 DEF ReleaseStore, IdleThread
  <2>2. thread[t].seen = inflight[q]
    BY <2>1 DEF DecrementsAreCurrent
  <2>3. /\ Cardinality(BusyIn(thread', q)) = Cardinality(BusyIn(thread, q)) - 1
        /\ Cardinality(BusyIn(thread, q)) # 0 /\ Cardinality(BusyIn(thread, q)) \in Nat
    BY <1>0, <2>1, BusyChange, BusyIsFinite
  <2>4. inflight'[q] = inflight[q] - 1 /\ inflight[q] = Len(backlog[q]) + Cardinality(BusyIn(thread, q))
    <3>1. inflight[q] = Len(backlog[q]) + Cardinality(BusyIn(thread, q)) /\ Len(backlog[q]) \in Nat
      BY <1>0 DEF Counted, CounterIsTrue
    <3> QED BY <1>0, <2>1, <2>2, <2>3, <3>1
  <2>5. CounterIsTrue'
    <3> SUFFICES ASSUME NEW p \in Pollers
                 PROVE  /\ inflight'[p] = Len(backlog[p]) + Cardinality(BusyIn(thread', p))
                        /\ inflight'[p] <= MaxInflight
                        /\ poll[p].at # "idle" => inflight'[p] < MaxInflight
      BY <2>1 DEF CounterIsTrue
    <3>1. CASE p = q
      <4>1. Len(backlog[q]) \in Nat /\ inflight[q] \in Nat /\ MaxInflight \in Nat /\ inflight[q] <= MaxInflight
        BY <1>0, LanesAreCounted DEF Counted, CounterIsTrue
      <4>2. /\ inflight'[q] = Len(backlog[q]) + Cardinality(BusyIn(thread', q))
            /\ inflight'[q] < MaxInflight /\ inflight'[q] <= MaxInflight
        BY <2>3, <2>4, <4>1
      <4> QED BY ONLY <3>1, <4>2
    <3>2. CASE p # q
      BY <2>1, <3>2, BusyChange DEF Counted, CounterIsTrue
    <3> QED BY <3>1, <3>2
  <2> QED BY <2>5 DEF Counted
<1> QED BY <1>1, <1>2, <1>3, <1>4

LEMMA TickCounted ==
  ASSUME Counted, TypeInv, Tick
  PROVE  Counted'
<1>1. UNCHANGED <<poll, inflight, backlog>>
  BY DEF Tick
<1>2. \A t \in Threads : thread'[t].at = thread[t].at /\ thread'[t].at # "store"
  BY DEF Tick, Quiet, Running
<1>3. \A p \in Pollers : BusyIn(thread', p) = BusyIn(thread, p)
  BY <1>2 DEF BusyIn
<1>4. CounterIsTrue'
  BY <1>1, <1>3 DEF Counted, CounterIsTrue
<1> QED BY <1>4 DEF Counted

\* No time passes over a submitted job: a backlog is shorter than the pool has
\* idle threads, and an idle thread takes it at once.
LEMMA TickOrderly ==
  ASSUME TypeInv, Orderly, Counted, Tick
  PROVE  Orderly' /\ QueueStep
<1>0. /\ status \in [JobIds -> Statuses] /\ age \in [JobIds -> 0..(StaleAfter + 1)]
      /\ backlog \in [Pollers -> Seq(JobIds)] /\ DOMAIN thread = Threads
  BY DEF TypeInv, TypeOK
<1>1. UNCHANGED <<issued, status, poll, backlog>> /\ \A p \in Pollers : poll[p].at = "idle"
  BY DEF Tick, Quiet
<1>2. \A t \in Threads : thread'[t].at = thread[t].at /\ thread'[t].job = thread[t].job
  BY <1>0 DEF Tick, Running
<1>3. \A j \in JobIds : /\ RunsIn(thread', j) = RunsIn(thread, j)
                        /\ HeldIn(thread', backlog', j) <=> HeldIn(thread, backlog, j)
                        /\ \A p \in Pollers : PlacesIn(backlog', p, j) = PlacesIn(backlog, p, j)
  BY <1>1, <1>2 DEF RunsIn, HeldIn, PlacesIn
<1>4. \A p \in Pollers : backlog[p] = <<>>
  <2> SUFFICES ASSUME NEW p \in Pollers, backlog[p] # <<>> PROVE FALSE
    OBVIOUS
  <2>1. \A t \in Threads : Proc(t) = p => thread[t].at # "idle"
    BY DEF Tick, Quiet, Startable
  <2>2. Cardinality(BusyIn(thread, p)) = MaxInflight /\ MaxInflight \in Nat
    BY <2>1, AllBusy, LanesAreCounted
  <2>3. Len(backlog[p]) \in Nat \ {0}
    BY <1>0
  <2>4. Len(backlog[p]) + Cardinality(BusyIn(thread, p)) <= MaxInflight
    BY DEF Counted, CounterIsTrue
  <2> QED BY <2>2, <2>3, <2>4
<1>5. SubmittedFresh'
  BY <1>3, <1>4 DEF SubmittedFresh, PlacesIn
<1>6. QueueStep
  BY <1>1, <1>3 DEF QueueStep, HoldersLost
<1> QED BY <1>1, <1>3, <1>5, <1>6 DEF Orderly, RowsIssued, HeldRuns, OneHolder, PollIsSound
-------------------------------------------------------------------------------
(***************************************************************************)
(* The invariant, and the theorems that follow from it.                    *)
(***************************************************************************)
QueueInv == TypeInv /\ Fresh /\ Orderly /\ Counted

LEMMA InitQueueInv == Init => QueueInv
BY InitTypeInv, InitFresh, InitOrderly, InitCounted DEF QueueInv

\* Every step keeps the invariant, and is a step of the queue or of no row.
LEMMA NextQueueInv ==
  ASSUME OnePoller, DecrementsAreCurrent, QueueInv, [Next]_vars
  PROVE  QueueInv' /\ QueueStep
<1>0. TypeInv /\ Fresh /\ Orderly /\ Counted
  BY DEF QueueInv
<1>1. TypeInv' /\ Fresh'
  BY <1>0, NextTypeInv, NextFresh
<1>2. CASE \E c \in Clients, k \in Codes : EnqueueCheck(c, k)
  <2>1. UNCHANGED <<poll, inflight, backlog, thread>>
    BY <1>2 DEF EnqueueCheck, process
  <2>2. Counted'
    BY <1>0, <2>1 DEF Counted, CounterIsTrue
  <2> QED BY <1>0, <1>1, <1>2, <2>2, EnqueueOrderly DEF QueueInv
<1>3. CASE \E c \in Clients : EnqueueInsert(c)
  <2>1. PICK c \in Clients : EnqueueInsert(c)
    BY <1>3
  <2>2. request[c] \in Codes
    BY <1>0, <2>1 DEF EnqueueInsert, TypeInv, TypeOK
  <2>3. UNCHANGED <<poll, inflight, backlog, thread>>
    BY <2>1 DEF EnqueueInsert, process
  <2>4. Counted'
    BY <1>0, <2>3 DEF Counted, CounterIsTrue
  <2> QED BY <1>0, <1>1, <2>1, <2>2, <2>4, EnqueueOrderly DEF QueueInv
<1>4. CASE \E p \in Pollers : PollStart(p) \/ PollReclaim(p) \/ PollClaim(p) \/ Crash(p)
  BY <1>0, <1>1, <1>4, PollOrderly, PollCounted DEF QueueInv
<1>5. CASE \E t \in Threads : \/ ThreadStart(t) \/ Heartbeat(t) \/ HeartbeatFails(t)
                              \/ Finish(t) \/ Requeue(t) \/ RunDies(t)
                              \/ ReleaseRead(t) \/ ReleaseStore(t)
  BY <1>0, <1>1, <1>5, ThreadOrderly, ThreadCounted DEF QueueInv
<1>6. CASE Tick
  BY <1>0, <1>1, <1>6, TickOrderly, TickCounted DEF QueueInv
<1>7. CASE UNCHANGED vars
  <2>1. UNCHANGED <<issued, status, age, poll, inflight, backlog, thread>>
    BY <1>7 DEF vars, rows, process
  <2>2. Orderly'
    BY <1>0, <2>1 DEF Orderly, RowsIssued, HeldRuns, OneHolder, SubmittedFresh, PollIsSound
  <2>3. Counted'
    BY <1>0, <2>1 DEF Counted, CounterIsTrue
  <2>4. QueueStep
    BY <2>1 DEF QueueStep, HoldersLost
  <2> QED BY <1>1, <2>2, <2>3, <2>4 DEF QueueInv
<1> QED BY <1>2, <1>3, <1>4, <1>5, <1>6, <1>7 DEF Next

\* No step takes a concluded row further.
LEMMA ConcludedStays ==
  ASSUME QueueStep, NEW j \in JobIds, status[j] \in Terminal
  PROVE  status'[j] = status[j]
<1>1. CASE \E i \in JobIds : Inserted(i)
  BY <1>1 DEF Inserted, RowMoves, Terminal
<1>2. CASE \E S \in SUBSET JobIds : Reclaimed(S)
  BY <1>2 DEF Reclaimed, Terminal
<1>3. CASE \E i \in JobIds : Claimed(i)
  BY <1>3 DEF Claimed, RowMoves, Terminal
<1>4. CASE \E i \in JobIds, outcome \in {"done", "failed", "pending"} : Left(i, outcome)
  BY <1>4 DEF Left, RowMoves, Terminal
<1>5. CASE HoldersLost
  BY <1>5 DEF HoldersLost
<1> QED BY <1>1, <1>2, <1>3, <1>4, <1>5 DEF QueueStep

LEMMA CountedFits == TypeInv /\ Counted => ClaimsFitLanes
BY DEF TypeInv, TypeOK, Counted, CounterIsTrue, ClaimsFitLanes, BusyIn, Busy

(***************************************************************************)
(* Requests of one code that cross each insert a row.  The rows of a code  *)
(* that are active and the requests about to insert one are together no    *)
(* more than there are request threads: a request begins only while no row *)
(* of its code is active.                                                  *)
(***************************************************************************)
Asking(k) == {c \in Clients : request[c] = k}

Deduped == \A k \in Codes : Cardinality(ActiveRows(k)) + Cardinality(Asking(k)) <= Cardinality(Clients)

\* The sets counted are finite.
LEMMA CountsAreNumbers ==
  ASSUME IsFiniteSet(Clients), NEW k
  PROVE  /\ IsFiniteSet(ActiveRows(k)) /\ Cardinality(ActiveRows(k)) \in Nat
         /\ IsFiniteSet(Asking(k)) /\ Cardinality(Asking(k)) \in Nat
         /\ Cardinality(Asking(k)) <= Cardinality(Clients) /\ Cardinality(Clients) \in Nat
<1>1. IsFiniteSet(JobIds)
  BY QueueAssumption, FS_Interval DEF JobIds
<1>2. ActiveRows(k) \subseteq JobIds /\ Asking(k) \subseteq Clients
  BY DEF ActiveRows, Asking
<1> QED BY <1>1, <1>2, FS_Subset, FS_CardinalityType

\* Fewer rows, and the same requests.
LEMMA FewerAreDeduped ==
  ASSUME IsFiniteSet(Clients), Deduped,
         \A k \in Codes : ActiveRows(k)' \subseteq ActiveRows(k) /\ Asking(k)' = Asking(k)
  PROVE  Deduped'
<1> SUFFICES ASSUME NEW k \in Codes
             PROVE  Cardinality(ActiveRows(k)') + Cardinality(Asking(k)') <= Cardinality(Clients)
  BY DEF Deduped
<1>1. PICK rows1, rows2 : rows1 = ActiveRows(k) /\ rows2 = ActiveRows(k)'
  OBVIOUS
<1>2. IsFiniteSet(rows1) /\ rows2 \subseteq rows1
  BY <1>1, CountsAreNumbers
<1>3. Cardinality(rows2) <= Cardinality(rows1) /\ Cardinality(rows2) \in Nat
  BY <1>2, FS_Subset, FS_CardinalityType
<1> QED BY <1>1, <1>3, CountsAreNumbers DEF Deduped

LEMMA InitDeduped == ASSUME IsFiniteSet(Clients) PROVE Init => Deduped
<1> SUFFICES ASSUME Init, NEW k \in Codes
             PROVE  Cardinality(ActiveRows(k)) + Cardinality(Asking(k)) <= Cardinality(Clients)
  BY DEF Deduped
<1>1. ActiveRows(k) = {}
  BY DEF Init, ActiveRows, Active
<1>2. Cardinality(ActiveRows(k)) = 0
  BY <1>1, FS_EmptySet
<1> QED BY <1>2, CountsAreNumbers

\* Only an insert makes a row active that was not.
LEMMA OthersKeepDeduped ==
  ASSUME IsFiniteSet(Clients), Deduped, UNCHANGED <<code, request>>, QueueStep, \A j \in JobIds : ~Inserted(j)
  PROVE  Deduped'
<1>1. \A j \in JobIds : Active(j)' => Active(j)
  <2>1. CASE \E S \in SUBSET JobIds : Reclaimed(S)
    BY <2>1 DEF Reclaimed, Active
  <2>2. CASE \E i \in JobIds : Claimed(i)
    BY <2>2 DEF Claimed, RowMoves, Active
  <2>3. CASE \E i \in JobIds, outcome \in {"done", "failed", "pending"} : Left(i, outcome)
    BY <2>3 DEF Left, RowMoves, Active
  <2>4. CASE HoldersLost
    BY <2>4 DEF HoldersLost, Active
  <2> QED BY <2>1, <2>2, <2>3, <2>4 DEF QueueStep
<1>2. \A k \in Codes : ActiveRows(k)' \subseteq ActiveRows(k) /\ Asking(k)' = Asking(k)
  BY <1>1 DEF ActiveRows, Asking
<1> QED BY <1>2, FewerAreDeduped

\* A request begins while no row of its code is active ...
LEMMA CheckKeepsDeduped ==
  ASSUME IsFiniteSet(Clients), TypeInv, Deduped, NEW c \in Clients, NEW k \in Codes, EnqueueCheck(c, k)
  PROVE  Deduped'
<1>1. /\ UNCHANGED <<status, code>> /\ \A j \in JobIds : code[j] = k => ~Active(j)
      /\ request[c] = NoCode /\ request'[c] = k /\ \A d \in Clients \ {c} : request'[d] = request[d]
  BY DEF EnqueueCheck, rows, TypeInv, TypeOK
<1> SUFFICES ASSUME NEW h \in Codes
             PROVE  Cardinality(ActiveRows(h)') + Cardinality(Asking(h)') <= Cardinality(Clients)
  BY DEF Deduped
<1>2. PICK now, asked : now = ActiveRows(h)' /\ asked = Asking(h)'
  OBVIOUS
<1>3. now = ActiveRows(h) /\ asked \subseteq Clients
  BY <1>1, <1>2 DEF ActiveRows, Active, Asking
<1>4. CASE h = k
  <2>1. now = {}
    BY <1>1, <1>3, <1>4 DEF ActiveRows
  <2>2. Cardinality(now) = 0
    BY <2>1, FS_EmptySet
  <2>3. Cardinality(asked) <= Cardinality(Clients) /\ Cardinality(asked) \in Nat
    BY <1>3, FS_Subset, FS_CardinalityType
  <2> QED BY <1>2, <2>2, <2>3
<1>5. CASE h # k
  <2>1. asked = Asking(h)
    BY <1>1, <1>2, <1>5, QueueAssumption DEF Asking
  <2> QED BY <1>2, <1>3, <2>1 DEF Deduped
<1> QED BY <1>4, <1>5

\* ... and turns into the row it inserts.
LEMMA InsertKeepsDeduped ==
  ASSUME IsFiniteSet(Clients), TypeInv, RowsIssued, Deduped, NEW c \in Clients, EnqueueInsert(c)
  PROVE  Deduped'
<1> DEFINE n == issued + 1
<1>1. /\ n \in JobIds /\ status'[n] = "pending" /\ code'[n] = request[c] /\ request[c] \in Codes
      /\ request'[c] = NoCode /\ \A d \in Clients \ {c} : request'[d] = request[d]
      /\ \A j \in JobIds \ {n} : status'[j] = status[j] /\ code'[j] = code[j]
  BY DEF EnqueueInsert, TypeInv, TypeOK, JobIds
<1>2. status[n] = "absent"
  BY <1>1 DEF RowsIssued, TypeInv, TypeOK, JobIds
<1> SUFFICES ASSUME NEW h \in Codes
             PROVE  Cardinality(ActiveRows(h)') + Cardinality(Asking(h)') <= Cardinality(Clients)
  BY DEF Deduped
<1>3. PICK now, asked, before, asking : now = ActiveRows(h)' /\ asked = Asking(h)'
                                         /\ before = ActiveRows(h) /\ asking = Asking(h)
  OBVIOUS
<1>4. /\ IsFiniteSet(before) /\ Cardinality(before) \in Nat /\ IsFiniteSet(asking) /\ Cardinality(asking) \in Nat
      /\ Cardinality(before) + Cardinality(asking) <= Cardinality(Clients) /\ Cardinality(Clients) \in Nat
  BY <1>3, CountsAreNumbers DEF Deduped
<1> HIDE DEF n
<1>5. CASE h = request[c]
  <2>1. now = before \cup {n} /\ n \notin before
    BY <1>1, <1>2, <1>3, <1>5 DEF ActiveRows, Active
  <2>2. asked = asking \ {c} /\ c \in asking
    BY <1>1, <1>3, <1>5, QueueAssumption DEF Asking
  <2>3. Cardinality(now) = Cardinality(before) + 1
    BY <1>4, <2>1, FS_AddElement
  <2>4. Cardinality(asked) = Cardinality(asking) - 1
    BY <1>4, <2>2, FS_RemoveElement
  <2> QED BY <1>3, <1>4, <2>3, <2>4
<1>6. CASE h # request[c]
  <2>1. now = before
    BY <1>1, <1>2, <1>3, <1>6 DEF ActiveRows, Active
  <2>2. asked = asking
    BY <1>1, <1>3, <1>6, QueueAssumption DEF Asking
  <2> QED BY <1>3, <1>4, <2>1, <2>2
<1> QED BY <1>5, <1>6

LEMMA NextDeduped ==
  ASSUME IsFiniteSet(Clients), OnePoller, DecrementsAreCurrent, QueueInv, Deduped, [Next]_vars
  PROVE  Deduped'
<1>0. QueueStep /\ TypeInv /\ RowsIssued
  BY NextQueueInv DEF QueueInv, Orderly
<1>1. CASE \E c \in Clients, k \in Codes : EnqueueCheck(c, k)
  BY <1>0, <1>1, CheckKeepsDeduped
<1>2. CASE \E c \in Clients : EnqueueInsert(c)
  BY <1>0, <1>2, InsertKeepsDeduped
<1>3. CASE UNCHANGED <<code, request>> /\ \A j \in JobIds : ~Inserted(j)
  BY <1>0, <1>3, OthersKeepDeduped
<1>4. ASSUME NEW p \in Pollers, PollStart(p) \/ PollReclaim(p) \/ PollClaim(p) \/ Crash(p)
      PROVE  UNCHANGED <<code, request, issued>>
  BY <1>4 DEF PollStart, PollReclaim, PollClaim, Crash, rows
<1>5. ASSUME NEW t \in Threads,
             \/ ThreadStart(t) \/ Heartbeat(t) \/ HeartbeatFails(t)
             \/ Finish(t) \/ Requeue(t) \/ RunDies(t) \/ ReleaseRead(t) \/ ReleaseStore(t)
      PROVE  UNCHANGED <<code, request, issued>>
  BY <1>5 DEF ThreadStart, Heartbeat, HeartbeatFails, Finish, Requeue, Conclude, RunDies,
              ReleaseRead, ReleaseStore, rows
<1>6. CASE UNCHANGED <<code, request, issued>>
  <2>1. RowsIssued'
    BY NextQueueInv DEF QueueInv, Orderly
  <2>2. \A j \in JobIds : ~Inserted(j)
    BY <1>0, <1>6, <2>1 DEF RowsIssued, Inserted, RowMoves
  <2> QED BY <1>3, <1>6, <2>2
<1>7. CASE Tick \/ UNCHANGED vars
  BY <1>6, <1>7 DEF Tick, vars, rows
<1> QED BY <1>1, <1>2, <1>4, <1>5, <1>6, <1>7 DEF Next

LEMMA DedupedFits == ASSUME IsFiniteSet(Clients), Deduped PROVE ActiveFitClients
BY CountsAreNumbers DEF Deduped, ActiveFitClients

\* One poller, any number of request and pool threads: as long as no decrement stores
\* a reading that another thread has made stale, no second execution, no claim ahead
\* of the pool, no more active rows of a code than requests that cross, and a concluded
\* row is final, for every pool size and number of rows and deaths.
THEOREM OnePollerIsOrderly ==
  ASSUME OnePoller, IsFiniteSet(Clients)
  PROVE  Spec /\ []DecrementsAreCurrent => QueueIsOrderly
<1> DEFINE Inv == QueueInv /\ Deduped
<1>1. Init => Inv
  BY InitQueueInv, InitDeduped
<1>2. Inv /\ DecrementsAreCurrent /\ [Next]_vars => Inv'
  BY NextQueueInv, NextDeduped
<1>3. Inv => OneExecution /\ ClaimsFitLanes /\ ActiveFitClients
  BY OneHolderIsOneExecution, CountedFits, DedupedFits DEF QueueInv, Orderly
<1>4. Inv /\ DecrementsAreCurrent /\ [Next]_vars =>
        [\A j \in JobIds : status[j] \in Terminal => status'[j] = status[j]]_vars
  BY NextQueueInv, ConcludedStays
<1> QED BY <1>1, <1>2, <1>3, <1>4, PTL DEF Spec, QueueIsOrderly, ConclusionIsFinal

(***************************************************************************)
(* Where no thread switch falls inside a decrement (CounterRace = FALSE)   *)
(* the reading is current: a process has one decrement under way at a time *)
(* and no claim beside it.                                                 *)
(***************************************************************************)
StoreIsAlone ==
  \A t \in Threads : thread[t].at = "store" =>
    /\ thread[t].seen = inflight[Proc(t)]
    /\ \A u \in Threads : thread[u].at = "store" /\ Proc(u) = Proc(t) => u = t

LEMMA PollAlone ==
  ASSUME ~CounterRace, TypeInv, StoreIsAlone, NEW p \in Pollers,
         PollStart(p) \/ PollReclaim(p) \/ PollClaim(p) \/ Crash(p)
  PROVE  StoreIsAlone'
<1>0. inflight \in [Pollers -> Nat] /\ DOMAIN thread = Threads
  BY DEF TypeInv, TypeOK
<1>1. CASE PollStart(p) \/ PollReclaim(p)
  BY <1>1 DEF PollStart, PollReclaim, StoreIsAlone
<1>2. CASE PollClaim(p)
  <2>1. UNCHANGED thread /\ ~Releasing(p) /\ \A q \in Pollers \ {p} : inflight'[q] = inflight[q]
    BY <1>0, <1>2 DEF PollClaim
  <2> QED BY <2>1 DEF StoreIsAlone, Releasing, Threads, Proc
<1>3. CASE Crash(p)
  <2>1. /\ \A q \in Pollers \ {p} : inflight'[q] = inflight[q]
        /\ \A t \in Threads : thread'[t] = IF Proc(t) = p THEN IdleThread ELSE thread[t]
    BY <1>0, <1>3 DEF Crash
  <2> QED BY <2>1 DEF StoreIsAlone, IdleThread, Threads, Proc
<1> QED BY <1>1, <1>2, <1>3

LEMMA ThreadAlone ==
  ASSUME ~CounterRace, TypeInv, StoreIsAlone, NEW t \in Threads,
         \/ ThreadStart(t) \/ Heartbeat(t) \/ HeartbeatFails(t)
         \/ Finish(t) \/ Requeue(t) \/ RunDies(t) \/ ReleaseRead(t) \/ ReleaseStore(t)
  PROVE  StoreIsAlone'
<1>0. inflight \in [Pollers -> Nat] /\ DOMAIN thread = Threads /\ Proc(t) \in Pollers
  BY DEF TypeInv, TypeOK, Threads, Proc
<1> DEFINE q == Proc(t)
<1>1. CASE \/ ThreadStart(t) \/ Heartbeat(t) \/ HeartbeatFails(t) \/ Finish(t) \/ Requeue(t) \/ RunDies(t)
  <2>1. /\ UNCHANGED inflight /\ thread[t].at # "store" /\ thread'[t].at # "store"
        /\ \A u \in Threads \ {t} : thread'[u] = thread[u]
    BY <1>0, <1>1 DEF ThreadStart, Heartbeat, HeartbeatFails, Finish, Requeue, Conclude, RunDies, Beating,
                      Running, Returning
  <2> QED BY <2>1 DEF StoreIsAlone
<1>2. CASE ReleaseRead(t)
  <2>1. /\ UNCHANGED inflight /\ ~Releasing(q) /\ thread'[t].seen = inflight[q]
        /\ \A u \in Threads \ {t} : thread'[u] = thread[u]
    BY <1>0, <1>2 DEF ReleaseRead, Storing
  <2> QED BY <2>1 DEF StoreIsAlone, Releasing
<1>3. CASE ReleaseStore(t)
  <2>1. /\ \A p \in Pollers \ {q} : inflight'[p] = inflight[p]
        /\ thread[t].at = "store" /\ thread'[t].at = "idle"
        /\ \A u \in Threads \ {t} : thread'[u] = thread[u]
    BY <1>0, <1>3 DEF ReleaseStore, IdleThread
  <2>2. \A u \in Threads : thread'[u].at = "store" => u # t /\ Proc(u) # q /\ thread'[u] = thread[u]
    BY <2>1 DEF StoreIsAlone
  <2>3. \A u \in Threads : Proc(u) # q => inflight'[Proc(u)] = inflight[Proc(u)]
    BY <2>1 DEF Threads, Proc
  <2> QED BY <2>2, <2>3 DEF StoreIsAlone
<1> QED BY <1>1, <1>2, <1>3

LEMMA NextAlone ==
  ASSUME ~CounterRace, TypeInv, StoreIsAlone, [Next]_vars
  PROVE  StoreIsAlone'
<1>1. CASE \E p \in Pollers : PollStart(p) \/ PollReclaim(p) \/ PollClaim(p) \/ Crash(p)
  BY <1>1, PollAlone
<1>2. CASE \E t \in Threads : \/ ThreadStart(t) \/ Heartbeat(t) \/ HeartbeatFails(t)
                              \/ Finish(t) \/ Requeue(t) \/ RunDies(t)
                              \/ ReleaseRead(t) \/ ReleaseStore(t)
  BY <1>2, ThreadAlone
<1>3. CASE Tick
  <2>1. \A t \in Threads : thread'[t].at # "store"
    BY <1>3 DEF Tick, Quiet, Running
  <2> QED BY <2>1 DEF StoreIsAlone
<1>4. CASE UNCHANGED <<inflight, thread>>
  BY <1>4 DEF StoreIsAlone
<1>5. ASSUME NEW c \in Clients PROVE /\ \A k \in Codes : EnqueueCheck(c, k) => UNCHANGED <<inflight, thread>>
                                     /\ EnqueueInsert(c) => UNCHANGED <<inflight, thread>>
  BY DEF EnqueueCheck, EnqueueInsert, process
<1>6. UNCHANGED vars => UNCHANGED <<inflight, thread>>
  BY DEF vars, process
<1> QED BY <1>1, <1>2, <1>3, <1>4, <1>5, <1>6 DEF Next

\* The hypothesis of the theorems is what an interpreter that does not switch threads
\* inside the decrement gives, with any number of pollers.
THEOREM UninterruptedIsCurrent == ASSUME ~CounterRace PROVE Spec => []DecrementsAreCurrent
<1>1. Init => TypeInv /\ StoreIsAlone
  BY InitTypeInv DEF Init, IdleThread, StoreIsAlone
<1>2. TypeInv /\ StoreIsAlone /\ [Next]_vars => (TypeInv /\ StoreIsAlone)'
  BY NextTypeInv, NextAlone
<1>3. StoreIsAlone => DecrementsAreCurrent
  BY DEF StoreIsAlone, DecrementsAreCurrent
<1> QED BY <1>1, <1>2, <1>3, PTL DEF Spec
-------------------------------------------------------------------------------
(***************************************************************************)
(* The queue implements the lease.  Under the mapping a row has a phase    *)
(* and is held or not; each kind of queue step is one action of the lease, *)
(* and a step of no row is the loss of no execution.                       *)
(***************************************************************************)
PhaseName(s) == CASE s = "pending" -> "queued" [] s = "running" -> "leased" [] OTHER -> s
phase == [j \in JobIds |-> PhaseName(status[j])]
held == [j \in JobIds |-> HeldIn(thread, backlog, j)]

LEMMA MappedInit == Init => Lease!Init
<1> SUFFICES ASSUME Init PROVE Lease!Init
  OBVIOUS
<1>1. \A j \in JobIds : status[j] = "absent" /\ Held(j) = FALSE
  BY DEF Init, Held, Executing, Submitted, IdleThread
<1> QED BY <1>1 DEF Lease!Init

LEMMA HeldIsHeldIn ==
  /\ [j \in JobIds |-> Held(j)] = held
  /\ [j \in JobIds |-> Held(j)]' = held'
BY DEF held, Held, HeldIn, Executing, Submitted, RunsIn, PlacesIn

LEMMA HeldInIsBoolean ==
  \A j \in JobIds : /\ HeldIn(thread, backlog, j) \in BOOLEAN
                    /\ HeldIn(thread', backlog', j) \in BOOLEAN
BY DEF HeldIn

LEMMA PhaseIsNamed ==
  LET mapped == [j \in JobIds |-> CASE status[j] = "pending" -> "queued"
                                    [] status[j] = "running" -> "leased"
                                    [] OTHER -> status[j]] IN
  mapped = phase /\ mapped' = phase'
BY DEF phase, PhaseName

LEMMA MappedStep ==
  ASSUME QueueStep
  PROVE  Lease!Next
<1>1. ASSUME NEW j \in JobIds, Inserted(j) PROVE Lease!Submit(j)
  <2>1. phase[j] = "absent" /\ phase' = [phase EXCEPT ![j] = "queued"]
    BY <1>1 DEF Inserted, RowMoves, phase, PhaseName
  <2>2. held' = held
    BY <1>1, HeldInIsBoolean DEF Inserted, HoldsStay, held
  <2> QED BY <2>1, <2>2, HeldIsHeldIn, PhaseIsNamed DEF Lease!Submit
<1>2. ASSUME NEW S \in SUBSET JobIds, Reclaimed(S) PROVE Lease!Expire(S)
  <2>1. \A j \in S : phase[j] = "leased" /\ ~held[j]
    BY <1>2 DEF Reclaimed, phase, PhaseName, held
  <2>2. phase' = [j \in JobIds |-> IF j \in S THEN "queued" ELSE phase[j]]
    BY <1>2 DEF Reclaimed, phase, PhaseName
  <2>3. held' = held
    BY <1>2, HeldInIsBoolean DEF Reclaimed, HoldsStay, held
  <2> QED BY <2>1, <2>2, <2>3, HeldIsHeldIn, PhaseIsNamed DEF Lease!Expire
<1>3. ASSUME NEW j \in JobIds, Claimed(j) PROVE Lease!Grant(j)
  <2>1. phase[j] = "queued" /\ phase' = [phase EXCEPT ![j] = "leased"]
    BY <1>3 DEF Claimed, RowMoves, phase, PhaseName
  <2>2. ~held[j] /\ held' = [held EXCEPT ![j] = TRUE]
    BY <1>3, HeldInIsBoolean DEF Claimed, HoldMoves, held
  <2> QED BY <2>1, <2>2, HeldIsHeldIn, PhaseIsNamed DEF Lease!Grant
<1>4. ASSUME NEW j \in JobIds, NEW outcome \in {"done", "failed", "pending"}, Left(j, outcome)
      PROVE  Lease!Conclude(j) \/ Lease!GiveBack(j)
  <2>1. /\ phase[j] = "leased"
        /\ phase' = [phase EXCEPT ![j] = IF outcome = "pending" THEN "queued" ELSE outcome]
    BY <1>4 DEF Left, RowMoves, phase, PhaseName
  <2>2. held[j] /\ held' = [held EXCEPT ![j] = FALSE]
    BY <1>4, HeldInIsBoolean DEF Left, HoldMoves, held
  <2>3. CASE outcome = "pending"
    BY <2>1, <2>2, <2>3, HeldIsHeldIn, PhaseIsNamed DEF Lease!GiveBack
  <2>4. CASE outcome \in {"done", "failed"}
    BY <2>1, <2>2, <2>4, HeldIsHeldIn, PhaseIsNamed DEF Lease!Conclude
  <2> QED BY <2>3, <2>4
<1>5. CASE HoldersLost
  <2> DEFINE S == {j \in JobIds : ~held'[j]}
  <2>1. phase' = phase
    BY <1>5 DEF HoldersLost, phase
  <2>2. held' = [j \in JobIds |-> held[j] /\ j \notin S]
    BY <1>5, HeldInIsBoolean DEF HoldersLost, held
  <2>3. S \in SUBSET JobIds
    OBVIOUS
  <2> HIDE DEF S
  <2>4. Lease!Lose(S)
    BY <2>1, <2>2, HeldIsHeldIn, PhaseIsNamed DEF Lease!Lose
  <2> QED BY <2>3, <2>4 DEF Lease!Next
<1> QED BY <1>1, <1>2, <1>3, <1>4, <1>5 DEF QueueStep, Lease!Next

\* One poller, and no decrement that another thread cuts through: the table, the
\* pollers, the pool and the heartbeats together are a lease.
THEOREM OnePollerIsLease ==
  ASSUME OnePoller
  PROVE  Spec /\ []DecrementsAreCurrent => ImplementsLease
<1>1. Init => QueueInv
  BY InitQueueInv
<1>2. QueueInv /\ DecrementsAreCurrent /\ [Next]_vars => QueueInv'
  BY NextQueueInv
<1>3. Init => Lease!Init
  BY MappedInit
<1>4. QueueInv /\ DecrementsAreCurrent /\ [Next]_vars => [Lease!Next]_(Lease!vars)
  BY NextQueueInv, MappedStep
<1> QED BY <1>1, <1>2, <1>3, <1>4, PTL DEF Spec, ImplementsLease, Lease!Spec
===============================================================================
