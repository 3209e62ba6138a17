--------------------------- MODULE BatchConsole ---------------------------
(***************************************************************************)
(* Manual batches: consoles (tui.py) that start batch_runner processes,    *)
(* poll them, kill them, and clean up after one another through pid files. *)
(*                                                                         *)
(* A runner locks operation_<key>.lock; a console looks at operation.lock, *)
(* which no program creates.  So a console never sees the lock taken, the  *)
(* part of _run_subprocess_batch behind a taken lock (RunningState, its    *)
(* monitor, heartbeat watch, cancel, detach) is never entered and is not   *)
(* modelled, and a runner that is still alive after the polls is killed.   *)
(***************************************************************************)
EXTENDS Naturals, FiniteSets

CONSTANTS Tuis,       \* consoles
          Keys,       \* batch keys
          None,
          MaxProcs,   \* bound: processes started
          MaxPolls    \* BATCH_LOCK_POLL_MAX_ATTEMPTS (30)

ASSUME BatchConsoleAssumption ==
  MaxProcs \in Nat /\ MaxPolls \in Nat \ {0} /\ None \notin Nat /\ None \notin Keys

Procs == 1 .. MaxProcs

VARIABLES proc,      \* process: its key, where it is, SIGTERM pending, exit code
          lock,      \* key: the process that holds operation_<key>.lock
          pidFile,   \* key: the process batch_<key>.pid names
          mode,      \* console: down, scan, ask, wait, ready, leaving
          poll,      \* console: the process its batch worker polls, and how often it did
          scan,      \* console: the clean-up of run files at its start
          shown,     \* process: the result listed for it
          left       \* process: its worker was cancelled, by a second start or a quit

runnerVars == <<proc, lock, pidFile>>
consoleVars == <<mode, poll, scan, shown, left>>
batchVars == <<proc, lock, pidFile, mode, poll, scan, shown, left>>

NoPoll == [p |-> None, n |-> 0]
NoScan == [todo |-> {}, at |-> None, orphans |-> {}, last |-> [key |-> None, p |-> None]]

BatchInit ==
  /\ proc = [p \in Procs |-> [key |-> None, at |-> "unborn", term |-> FALSE, code |-> None]]
  /\ lock = [k \in Keys |-> None]
  /\ pidFile = [k \in Keys |-> None]
  /\ mode = [t \in Tuis |-> "down"]
  /\ poll = [t \in Tuis |-> NoPoll]
  /\ scan = [t \in Tuis |-> NoScan]
  /\ shown = [p \in Procs |-> None]
  /\ left = [p \in Procs |-> FALSE]

Alive(p) == proc[p].at \in {"born", "locked", "working", "released"}

(***************************************************************************)
(* The runner process.                                                     *)
(***************************************************************************)

\* A process is gone with its exit code; the system frees its lock.
Dead(p, code) ==
  /\ proc' = [proc EXCEPT ![p] = [@ EXCEPT !.at = "dead", !.code = code]]
  /\ lock' = [k \in Keys |-> IF lock[k] = p THEN None ELSE lock[k]]

\* flock without waiting; whoever finds it taken exits with 2.
AcquireLock(p) ==
  /\ proc[p].at = "born"
  /\ IF lock[proc[p].key] = None
     THEN /\ lock' = [lock EXCEPT ![proc[p].key] = p]
          /\ proc' = [proc EXCEPT ![p].at = "locked"]
     ELSE Dead(p, 2)
  /\ UNCHANGED <<pidFile, consoleVars>>

\* start(): the pid file is written, the heartbeat thread begins, the batch runs.
WritePid(p) ==
  /\ proc[p].at = "locked"
  /\ proc' = [proc EXCEPT ![p].at = "working"]
  /\ pidFile' = [pidFile EXCEPT ![proc[p].key] = p]
  /\ UNCHANGED <<lock, consoleVars>>

\* The batch returns, raises, or is ended by SIGTERM; first the lock is given back.
ReleaseLock(p) ==
  /\ proc[p].at = "working"
  /\ \E code \in IF proc[p].term THEN {143} ELSE {0, 1} :
       proc' = [proc EXCEPT ![p].at = "released", ![p].code = code]
  /\ lock' = [lock EXCEPT ![proc[p].key] = None]
  /\ UNCHANGED <<pidFile, consoleVars>>

\* Then the files of the key are removed, whoever wrote them, and the process exits.
RemoveFiles(p) ==
  /\ proc[p].at = "released"
  /\ proc' = [proc EXCEPT ![p].at = "dead"]
  /\ pidFile' = [pidFile EXCEPT ![proc[p].key] = None]
  /\ UNCHANGED <<lock, consoleVars>>

\* SIGTERM before the handler is there ends the process at once.
DieOfTerm(p) ==
  /\ proc[p].at \in {"born", "locked"} /\ proc[p].term
  /\ Dead(p, 143)
  /\ UNCHANGED <<pidFile, consoleVars>>

(***************************************************************************)
(* The console's batch worker.                                             *)
(***************************************************************************)

\* The operator confirms a batch.  The worker group is exclusive: a worker that still polls is cancelled
\* where it sleeps, which no handler of it catches, and its process goes on unseen.
StartBatch(t, k) ==
  /\ mode[t] \in {"scan", "ready"}
  /\ \E p \in Procs :
       /\ proc[p].at = "unborn" /\ \A q \in Procs : q < p => proc[q].at # "unborn"
       /\ proc' = [proc EXCEPT ![p] = [@ EXCEPT !.key = k, !.at = "born"]]
       /\ poll' = [poll EXCEPT ![t] = [p |-> p, n |-> 0]]
       /\ left' = [q \in Procs |-> left[q] \/ poll[t].p = q]
  /\ UNCHANGED <<lock, pidFile, mode, scan, shown>>

\* Half a second later: has the process exited?
PollSeesExit(t) ==
  /\ mode[t] # "leaving" /\ poll[t].p # None
  /\ proc[poll[t].p].at = "dead"
  /\ shown' = [shown EXCEPT ![poll[t].p] = proc[poll[t].p].code]
  /\ poll' = [poll EXCEPT ![t] = NoPoll]
  /\ UNCHANGED <<runnerVars, mode, scan, left>>

\* It has not, and operation.lock is never taken.
PollAgain(t) ==
  /\ mode[t] # "leaving" /\ poll[t].p # None
  /\ Alive(poll[t].p) /\ poll[t].n + 1 < MaxPolls
  /\ poll' = [poll EXCEPT ![t].n = @ + 1]
  /\ UNCHANGED <<runnerVars, mode, scan, shown, left>>

\* Faulty variant: the console reports the missing lock and leaves the process alone.
PollGivesUp_Spares(t) ==
  /\ mode[t] # "leaving" /\ poll[t].p # None
  /\ Alive(poll[t].p) /\ poll[t].n + 1 = MaxPolls
  /\ shown' = [shown EXCEPT ![poll[t].p] = "lost"]
  /\ poll' = [poll EXCEPT ![t] = NoPoll]
  /\ UNCHANGED <<runnerVars, mode, scan, left>>

\* The last poll: "the lock was not acquired", and SIGKILL to the group of the process; its files stay.
PollGivesUp(t) ==
  /\ mode[t] # "leaving" /\ poll[t].p # None
  /\ Alive(poll[t].p) /\ poll[t].n + 1 = MaxPolls
  /\ Dead(poll[t].p, 9)
  /\ shown' = [shown EXCEPT ![poll[t].p] = "lost"]
  /\ poll' = [poll EXCEPT ![t] = NoPoll]
  /\ UNCHANGED <<pidFile, mode, scan, left>>

(***************************************************************************)
(* Leaving.                                                                *)
(***************************************************************************)

\* The operator confirms to quit; without a RunningState only the shutdown event is set.
Quit(t) ==
  /\ mode[t] = "ready"
  /\ mode' = [mode EXCEPT ![t] = "leaving"]
  /\ UNCHANGED <<runnerVars, poll, scan, shown, left>>

\* The worker gets to its next poll before the application is down, and kills.
PollSeesShutdown(t) ==
  /\ mode[t] = "leaving" /\ poll[t].p # None
  /\ IF Alive(poll[t].p) THEN Dead(poll[t].p, 9) ELSE UNCHANGED <<proc, lock>>
  /\ poll' = [poll EXCEPT ![t] = NoPoll]
  /\ UNCHANGED <<pidFile, mode, scan, shown, left>>

\* Or the application ends first and cancels the worker.
Exit(t) ==
  /\ mode[t] = "leaving"
  /\ mode' = [mode EXCEPT ![t] = "down"]
  /\ poll' = [poll EXCEPT ![t] = NoPoll]
  /\ left' = [q \in Procs |-> left[q] \/ poll[t].p = q]
  /\ UNCHANGED <<runnerVars, scan, shown>>

(***************************************************************************)
(* The clean-up of run files when a console starts.                        *)
(***************************************************************************)

Open(t) ==
  /\ mode[t] = "down"
  /\ mode' = [mode EXCEPT ![t] = "scan"]
  /\ scan' = [scan EXCEPT ![t] = [NoScan EXCEPT !.todo = {k \in Keys : pidFile[k] # None}]]
  /\ UNCHANGED <<runnerVars, poll, shown, left>>

\* A pid file is read; one that is gone by now names no process.
ReadPidFile(t, k) ==
  /\ mode[t] = "scan" /\ scan[t].at = None /\ k \in scan[t].todo
  /\ scan' = [scan EXCEPT ![t].todo = @ \ {k}, ![t].at = [key |-> k, p |-> pidFile[k]]]
  /\ UNCHANGED <<runnerVars, mode, poll, shown, left>>

\* kill(pid, 0) and ps: a living runner is an orphan, also one that another console polls; for a dead one,
\* or a file that was gone, the files of the key are removed, whosever they are by now.  The variables that
\* the loop leaves behind: the key is the last file's, the pid that of the last one that could be read.
JudgePid(t) ==
  /\ mode[t] = "scan" /\ scan[t].at # None
  /\ LET f == scan[t].at
         living == f.p # None /\ Alive(f.p) IN
       /\ pidFile' = IF living THEN pidFile ELSE [pidFile EXCEPT ![f.key] = None]
       /\ scan' = [scan EXCEPT ![t].at = None,
                               ![t].last = [key |-> f.key, p |-> IF f.p = None THEN @.p ELSE f.p],
                               ![t].orphans = IF living THEN @ \union {f} ELSE @]
  /\ UNCHANGED <<proc, lock, mode, poll, shown, left>>

\* All files are judged: the operator is asked about the orphans, if any.
EndScan(t) ==
  /\ mode[t] = "scan" /\ scan[t].at = None /\ scan[t].todo = {}
  /\ mode' = [mode EXCEPT ![t] = IF scan[t].orphans = {} THEN "ready" ELSE "ask"]
  /\ scan' = [scan EXCEPT ![t] = IF scan[t].orphans = {} THEN NoScan ELSE @]
  /\ UNCHANGED <<runnerVars, poll, shown, left>>

IgnoreOrphans(t) ==
  /\ mode[t] = "ask"
  /\ mode' = [mode EXCEPT ![t] = "ready"]
  /\ scan' = [scan EXCEPT ![t] = NoScan]
  /\ UNCHANGED <<runnerVars, poll, shown, left>>

\* SIGTERM to every orphan, two seconds of waiting ...
TermOrphans(t) ==
  /\ mode[t] = "ask"
  /\ mode' = [mode EXCEPT ![t] = "wait"]
  /\ proc' = [p \in Procs |-> IF Alive(p) /\ \E f \in scan[t].orphans : f.p = p
                              THEN [proc[p] EXCEPT !.term = TRUE] ELSE proc[p]]
  /\ UNCHANGED <<lock, pidFile, poll, scan, shown, left>>

\* ... then SIGKILL, but what is looked at and removed is the pid and the file the scan left in its
\* variables: the loop uses those of the loop before it.
KillOrphans(t) ==
  /\ mode[t] = "wait"
  /\ LET last == scan[t].last
         hit == IF Alive(last.p) THEN {f.p : f \in scan[t].orphans} ELSE {} IN
       /\ proc' = [p \in Procs |-> IF p \in hit /\ Alive(p)
                                   THEN [proc[p] EXCEPT !.at = "dead", !.code = 9] ELSE proc[p]]
       /\ lock' = [k \in Keys |-> IF lock[k] \in hit THEN None ELSE lock[k]]
       /\ pidFile' = [pidFile EXCEPT ![last.key] = None]
  /\ mode' = [mode EXCEPT ![t] = "ready"]
  /\ scan' = [scan EXCEPT ![t] = NoScan]
  /\ UNCHANGED <<poll, shown, left>>

RunnerStep(p) == AcquireLock(p) \/ WritePid(p) \/ ReleaseLock(p) \/ RemoveFiles(p) \/ DieOfTerm(p)

WorkerStep(t) == PollSeesExit(t) \/ PollAgain(t) \/ PollGivesUp(t) \/ PollSeesShutdown(t)

BatchNext ==
  \/ \E p \in Procs : RunnerStep(p)
  \/ \E t \in Tuis :
       \/ WorkerStep(t) \/ Quit(t) \/ Exit(t) \/ Open(t)
       \/ JudgePid(t) \/ EndScan(t) \/ IgnoreOrphans(t) \/ TermOrphans(t) \/ KillOrphans(t)
       \/ \E k \in Keys : StartBatch(t, k) \/ ReadPidFile(t, k)

(***************************************************************************)
(* Properties.                                                             *)
(***************************************************************************)

\* A batch that runs is polled by the console that started it, unless a second start or a quit cancelled
\* that poll; and it runs alone under its key.  In particular no batch outlives the polls of a console that
\* is left alone (tui.py 1365-1444).
NothingRunsUnseen ==
  \A p \in Procs :
    /\ Alive(p) => left[p] \/ \E t \in Tuis : poll[t].p = p
    /\ proc[p].at = "working" =>
         \A q \in Procs \ {p} : ~(proc[q].at = "working" /\ proc[q].key = proc[p].key)

\* What a person would expect of the pid files: a batch nobody polls can be found by the next console.
\* The code does not keep it: batch_runner.py 199-200 frees the lock before it removes the files.
RunnerIsFindable == \A p \in Procs : proc[p].at = "working" => pidFile[proc[p].key] = p
=============================================================================
