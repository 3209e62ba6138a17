--------------------------- MODULE OperationsProofs ---------------------------
(***************************************************************************)
(* Proofs about what is operated from the console, and about the services  *)
(* whose jobs it lists, for any number of consoles, processes, commits,    *)
(* reports, pages and tickers.                                             *)
(***************************************************************************)
EXTENDS BatchConsole, ReleaseControl, LaunchSchedule, Reports, Ownership, UsCompanies, SequenceTheorems, FiniteSetTheorems, TLAPS

(***************************************************************************)
(* Batches.  A runner past its lock holds the lock of its key, so two of   *)
(* them have two keys; and each runner is somebody's.                      *)
(***************************************************************************)
ExitCodes == {None, 0, 1, 2, 9, 143}

Runner == [key : Keys \cup {None}, at : {"unborn", "born", "locked", "working", "released", "dead"},
           term : BOOLEAN, code : ExitCodes]

PidFile == [key : Keys, p : Procs \cup {None}]

LeftOver == [key : Keys \cup {None}, p : Procs \cup {None}]

BatchTypeOK ==
  /\ proc \in [Procs -> Runner]
  /\ lock \in [Keys -> Procs \cup {None}]
  /\ pidFile \in [Keys -> Procs \cup {None}]
  /\ mode \in [Tuis -> {"down", "scan", "ask", "wait", "ready", "leaving"}]
  /\ poll \in [Tuis -> [p : Procs \cup {None}, n : 0..MaxPolls]]
  /\ scan \in [Tuis -> [todo : SUBSET Keys, at : PidFile \cup {None}, orphans : SUBSET PidFile, last : LeftOver]]
  /\ shown \in [Procs -> ExitCodes \cup {"lost"}]
  /\ left \in [Procs -> BOOLEAN]

Holds(p) == proc[p].at \in {"locked", "working"}

LockIsHeld ==
  /\ \A p \in Procs : proc[p].at # "unborn" => proc[p].key \in Keys
  /\ \A p \in Procs : Holds(p) => lock[proc[p].key] = p

Seen(p) == left[p] \/ \E t \in Tuis : poll[t].p = p

RunnersAreSeen == \A p \in Procs : Alive(p) => Seen(p)

BatchInv == BatchTypeOK /\ LockIsHeld /\ RunnersAreSeen

LEMMA ExitCodesAre == None \in ExitCodes /\ {0, 1, 2, 9, 143} \subseteq ExitCodes
BY DEF ExitCodes

LEMMA InitBatchInv == BatchInit => BatchInv
BY BatchConsoleAssumption, ExitCodesAre
   DEF BatchInit, BatchInv, BatchTypeOK, LockIsHeld, RunnersAreSeen, Runner, NoPoll, NoScan, LeftOver, Alive, Holds

LEMMA RunnerEnds ==
  ASSUME NEW old \in Runner, NEW code \in ExitCodes
  PROVE  /\ [old EXCEPT !.at = "released", !.code = code] \in Runner
         /\ [old EXCEPT !.at = "released", !.code = code].at = "released"
         /\ [old EXCEPT !.at = "released", !.code = code].key = old.key
         /\ [old EXCEPT !.at = "dead", !.code = code] \in Runner
         /\ [old EXCEPT !.at = "dead", !.code = code].at = "dead"
         /\ [old EXCEPT !.at = "dead", !.code = code].key = old.key
BY DEF Runner

LEMMA RunnerAsked ==
  ASSUME NEW old \in Runner
  PROVE  /\ [old EXCEPT !.term = TRUE] \in Runner
         /\ [old EXCEPT !.term = TRUE].at = old.at
         /\ [old EXCEPT !.term = TRUE].key = old.key
BY Zenon DEF Runner

\* No process but p is touched, and p, if it lives on, keeps its key.
LEMMA OneRunner ==
  ASSUME BatchInv, BatchTypeOK', NEW p \in Procs,
         \A q \in Procs \ {p} : proc'[q] = proc[q],
         proc'[p].at # "unborn" => proc'[p].key \in Keys,
         \A q \in Procs \ {p} : Holds(q) => lock'[proc[q].key] = q,
         Holds(p)' => lock'[proc'[p].key] = p,
         Alive(p)' => Seen(p)',
         UNCHANGED <<poll, left>> \/ \A q \in Procs \ {p} : Alive(q) /\ Seen(q) => Seen(q)'
  PROVE  BatchInv'
<1>1. LockIsHeld'
  BY DEF BatchInv, LockIsHeld, Holds
<1>2. RunnersAreSeen'
  <2> SUFFICES ASSUME NEW q \in Procs, Alive(q)' PROVE Seen(q)'
    BY DEF RunnersAreSeen
  <2>1. CASE q = p
    BY <2>1
  <2>2. CASE q # p
    <3>1. Alive(q) /\ Seen(q)
      BY <2>2 DEF BatchInv, RunnersAreSeen, Alive
    <3> QED BY <2>2, <3>1 DEF Seen
  <2> QED BY <2>1, <2>2
<1> QED BY <1>1, <1>2 DEF BatchInv

\* A process that dies gives back its lock and nobody else's.
LEMMA DeadEffect ==
  ASSUME BatchInv, NEW p \in Procs, NEW code \in ExitCodes, Dead(p, code)
  PROVE  /\ proc' \in [Procs -> Runner] /\ lock' \in [Keys -> Procs \cup {None}]
         /\ proc'[p].at = "dead" /\ proc'[p].key = proc[p].key
         /\ \A q \in Procs \ {p} : proc'[q] = proc[q]
         /\ \A q \in Procs \ {p} : Holds(q) => lock'[proc[q].key] = q
<1>1. proc \in [Procs -> Runner] /\ lock \in [Keys -> Procs \cup {None}]
  BY DEF BatchInv, BatchTypeOK
<1>2. [proc[p] EXCEPT !.at = "dead", !.code = code] \in Runner
  BY <1>1 DEF Runner
<1>3. /\ proc' \in [Procs -> Runner] /\ \A q \in Procs \ {p} : proc'[q] = proc[q]
      /\ proc'[p].at = "dead" /\ proc'[p].key = proc[p].key
  BY <1>1, <1>2 DEF Dead, Runner
<1>4. lock' \in [Keys -> Procs \cup {None}]
  BY <1>1 DEF Dead
<1>5. \A q \in Procs \ {p} : Holds(q) => lock'[proc[q].key] = q
  BY <1>1 DEF Dead, BatchInv, LockIsHeld, Holds
<1> QED BY <1>3, <1>4, <1>5

LEMMA RunnerBatchInv ==
  ASSUME BatchInv, NEW p \in Procs, RunnerStep(p)
  PROVE  BatchInv'
<1>0. /\ BatchTypeOK /\ proc \in [Procs -> Runner] /\ lock \in [Keys -> Procs \cup {None}]
      /\ pidFile \in [Keys -> Procs \cup {None}]
      /\ proc[p].at # "unborn" => proc[p].key \in Keys
      /\ None \notin Procs /\ 2 \in ExitCodes /\ 143 \in ExitCodes
  BY BatchConsoleAssumption, ExitCodesAre DEF BatchInv, BatchTypeOK, LockIsHeld, Procs
<1>1. Alive(p) => Seen(p)
  BY DEF BatchInv, RunnersAreSeen
<1>2. CASE AcquireLock(p)
  <2>1. proc[p].at = "born" /\ UNCHANGED <<pidFile, consoleVars>>
    BY <1>2 DEF AcquireLock
  <2>2. CASE lock[proc[p].key] = None
    <3>1. /\ lock' \in [Keys -> Procs \cup {None}] /\ lock'[proc[p].key] = p
          /\ \A k \in Keys \ {proc[p].key} : lock'[k] = lock[k]
      BY <1>0, <1>2, <2>1, <2>2 DEF AcquireLock
    <3>2. /\ proc' \in [Procs -> Runner] /\ proc'[p].key = proc[p].key
          /\ \A q \in Procs \ {p} : proc'[q] = proc[q]
      BY <1>0, <1>2, <2>1, <2>2 DEF AcquireLock, Runner
    <3>3. \A q \in Procs \ {p} : Holds(q) => lock'[proc[q].key] = q
      BY <1>0, <2>2, <3>1 DEF BatchInv, LockIsHeld, Holds
    <3>4. BatchTypeOK'
      BY <1>0, <2>1, <3>1, <3>2 DEF BatchTypeOK, consoleVars
    <3> QED BY <1>0, <1>1, <2>1, <3>1, <3>2, <3>3, <3>4, OneRunner DEF Alive, Seen, consoleVars
  <2>3. CASE lock[proc[p].key] # None
    <3>1. Dead(p, 2)
      BY <1>2, <2>3 DEF AcquireLock
    <3>2. BatchTypeOK'
      BY <1>0, <2>1, <3>1, DeadEffect DEF BatchTypeOK, consoleVars
    <3> QED BY <1>0, <2>1, <3>1, <3>2, DeadEffect, OneRunner DEF Alive, Holds, consoleVars
  <2> QED BY <2>2, <2>3
<1>3. CASE WritePid(p)
  <2>1. /\ proc[p].at = "locked" /\ proc' \in [Procs -> Runner] /\ proc'[p].key = proc[p].key
        /\ \A q \in Procs \ {p} : proc'[q] = proc[q]
        /\ pidFile' \in [Keys -> Procs \cup {None}] /\ UNCHANGED <<lock, consoleVars>>
    BY <1>0, <1>3 DEF WritePid, Runner
  <2>2. BatchTypeOK'
    BY <1>0, <2>1 DEF BatchTypeOK, consoleVars
  <2>3. \A q \in Procs : Holds(q) => lock'[proc[q].key] = q
    BY <2>1 DEF BatchInv, LockIsHeld
  <2>4. lock'[proc'[p].key] = p
    BY <2>1, <2>3 DEF Holds
  <2> QED BY <1>0, <1>1, <2>1, <2>2, <2>3, <2>4, OneRunner DEF Alive, Seen, consoleVars
<1>4. CASE ReleaseLock(p)
  <2>1. /\ proc[p].at = "working" /\ proc'[p].at = "released" /\ proc' \in [Procs -> Runner]
        /\ proc'[p].key = proc[p].key /\ \A q \in Procs \ {p} : proc'[q] = proc[q]
        /\ UNCHANGED <<pidFile, consoleVars>>
    <3>1. PICK code \in ExitCodes : proc' = [proc EXCEPT ![p].at = "released", ![p].code = code]
      <4>1. 143 \in ExitCodes /\ 0 \in ExitCodes /\ 1 \in ExitCodes
        BY ExitCodesAre
      <4>2. \E code \in {143} \cup {0, 1} : proc' = [proc EXCEPT ![p].at = "released", ![p].code = code]
        BY <1>4, Zenon DEF ReleaseLock
      <4> QED BY <4>1, <4>2
    <3>2. proc[p].at = "working" /\ UNCHANGED <<pidFile, consoleVars>>
      BY <1>4 DEF ReleaseLock
    <3>3. /\ [proc[p] EXCEPT !.at = "released", !.code = code] \in Runner
          /\ [proc[p] EXCEPT !.at = "released", !.code = code].at = "released"
          /\ [proc[p] EXCEPT !.at = "released", !.code = code].key = proc[p].key
      <4>1. \A q \in Procs : proc[q] \in Runner
        BY <1>0
      <4> QED BY <4>1, RunnerEnds, Zenon
    <3> QED BY <1>0, <3>1, <3>2, <3>3
  <2>2. lock' \in [Keys -> Procs \cup {None}] /\ \A k \in Keys \ {proc[p].key} : lock'[k] = lock[k]
    BY <1>0, <1>4 DEF ReleaseLock
  <2>3. BatchTypeOK'
    BY <1>0, <2>1, <2>2 DEF BatchTypeOK, consoleVars
  <2>4. \A q \in Procs \ {p} : Holds(q) => lock'[proc[q].key] = q
    BY <1>0, <2>1, <2>2 DEF BatchInv, LockIsHeld, Holds
  <2> QED BY <1>0, <1>1, <2>1, <2>3, <2>4, OneRunner DEF Alive, Holds, Seen, consoleVars
<1>5. CASE RemoveFiles(p)
  <2>1. /\ proc[p].at = "released" /\ proc'[p].at = "dead" /\ proc' \in [Procs -> Runner]
        /\ proc'[p].key = proc[p].key /\ \A q \in Procs \ {p} : proc'[q] = proc[q]
        /\ pidFile' \in [Keys -> Procs \cup {None}] /\ UNCHANGED <<lock, consoleVars>>
    BY <1>0, <1>5 DEF RemoveFiles, Runner
  <2>2. BatchTypeOK'
    BY <1>0, <2>1 DEF BatchTypeOK, consoleVars
  <2>3. \A q \in Procs \ {p} : Holds(q) => lock'[proc[q].key] = q
    BY <2>1 DEF BatchInv, LockIsHeld
  <2> QED BY <1>0, <2>1, <2>2, <2>3, OneRunner DEF Alive, Holds, consoleVars
<1>6. CASE DieOfTerm(p)
  <2>1. proc[p].at # "unborn" /\ Dead(p, 143) /\ UNCHANGED <<pidFile, consoleVars>>
    BY <1>6 DEF DieOfTerm
  <2>2. BatchTypeOK'
    BY <1>0, <2>1, DeadEffect DEF BatchTypeOK, consoleVars
  <2> QED BY <1>0, <2>1, <2>2, DeadEffect, OneRunner DEF Alive, Holds, consoleVars
<1> QED BY <1>2, <1>3, <1>4, <1>5, <1>6 DEF RunnerStep

\* The runners go on, and whoever was seen is seen.
LEMMA ConsoleBatchInv ==
  ASSUME BatchInv, BatchTypeOK', UNCHANGED <<proc, lock>>,
         \A q \in Procs : Alive(q) /\ Seen(q) => Seen(q)'
  PROVE  BatchInv'
BY DEF BatchInv, LockIsHeld, RunnersAreSeen, Holds, Alive

\* The console's worker polls its process, kills it or is cancelled.
LEMMA WorkerBatchInv ==
  ASSUME BatchInv, NEW t \in Tuis, WorkerStep(t) \/ Exit(t)
  PROVE  BatchInv'
<1>0. /\ BatchTypeOK /\ proc \in [Procs -> Runner]
      /\ poll \in [Tuis -> [p : Procs \cup {None}, n : 0..MaxPolls]]
      /\ shown \in [Procs -> ExitCodes \cup {"lost"}] /\ left \in [Procs -> BOOLEAN]
      /\ None \notin Procs /\ MaxPolls \in Nat /\ 9 \in ExitCodes /\ NoPoll \in [p : Procs \cup {None}, n : 0..MaxPolls]
  BY BatchConsoleAssumption, ExitCodesAre DEF BatchInv, BatchTypeOK, Procs, NoPoll
<1>1. CASE PollAgain(t)
  <2>1. /\ \A s \in Tuis : poll'[s].p = poll[s].p
        /\ poll' \in [Tuis -> [p : Procs \cup {None}, n : 0..MaxPolls]]
        /\ UNCHANGED <<proc, lock, pidFile, mode, scan, shown, left>>
    BY <1>0, <1>1 DEF PollAgain, runnerVars
  <2>2. BatchTypeOK'
    BY <1>0, <2>1 DEF BatchTypeOK
  <2> QED BY <2>1, <2>2, ConsoleBatchInv DEF Seen
<1>2. ASSUME poll[t].p # None, poll' = [poll EXCEPT ![t] = NoPoll]
      PROVE  /\ poll' \in [Tuis -> [p : Procs \cup {None}, n : 0..MaxPolls]]
             /\ \A s \in Tuis \ {t} : poll'[s].p = poll[s].p
  BY <1>0, <1>2
<1>3. CASE PollSeesExit(t)
  <2>1. /\ UNCHANGED <<proc, lock, pidFile, mode, scan, left>> /\ shown' \in [Procs -> ExitCodes \cup {"lost"}]
        /\ poll[t].p # None /\ poll' = [poll EXCEPT ![t] = NoPoll] /\ proc[poll[t].p].at = "dead"
    <3>1. proc[poll[t].p].code \in ExitCodes
      BY <1>0, <1>3 DEF PollSeesExit, Runner
    <3> QED BY <1>0, <1>3, <3>1 DEF PollSeesExit, runnerVars
  <2>2. BatchTypeOK'
    BY <1>0, <1>2, <2>1 DEF BatchTypeOK
  <2>3. \A q \in Procs : Alive(q) /\ Seen(q) => Seen(q)'
    BY <1>2, <2>1 DEF Seen, Alive
  <2> QED BY <2>1, <2>2, <2>3, ConsoleBatchInv
<1>4. ASSUME NEW p \in Procs, p = poll[t].p, poll' = [poll EXCEPT ![t] = NoPoll],
             proc[p].at # "unborn", Dead(p, 9), UNCHANGED <<pidFile, mode, scan, left>>,
             shown' \in [Procs -> ExitCodes \cup {"lost"}]
      PROVE  BatchInv'
  <2>1. BatchTypeOK'
    BY <1>0, <1>2, <1>4, DeadEffect DEF BatchTypeOK
  <2>2. \A q \in Procs \ {p} : Seen(q) => Seen(q)'
    BY <1>0, <1>2, <1>4 DEF Seen
  <2>3. proc[p].key \in Keys
    BY <1>4 DEF BatchInv, LockIsHeld
  <2> QED BY <1>0, <1>4, <2>1, <2>2, <2>3, DeadEffect, OneRunner DEF Alive, Holds
<1>5. CASE PollGivesUp(t)
  <2>1. PICK p \in Procs : p = poll[t].p
    BY <1>0, <1>5 DEF PollGivesUp
  <2>2. shown' \in [Procs -> ExitCodes \cup {"lost"}]
    BY <1>0, <1>5 DEF PollGivesUp
  <2> QED BY <1>4, <1>5, <2>1, <2>2 DEF PollGivesUp, Alive
<1>6. CASE PollSeesShutdown(t)
  <2>1. PICK p \in Procs : p = poll[t].p
    BY <1>0, <1>6 DEF PollSeesShutdown
  <2>2. UNCHANGED <<pidFile, mode, scan, shown, left>> /\ poll' = [poll EXCEPT ![t] = NoPoll]
    BY <1>6 DEF PollSeesShutdown
  <2>3. CASE Alive(p)
    BY <1>0, <1>4, <1>6, <2>1, <2>2, <2>3 DEF PollSeesShutdown, Alive
  <2>4. CASE ~Alive(p)
    <3>1. UNCHANGED <<proc, lock>>
      BY <1>6, <2>1, <2>4 DEF PollSeesShutdown
    <3>2. BatchTypeOK'
      BY <1>0, <1>2, <2>1, <2>2, <3>1 DEF BatchTypeOK
    <3>3. \A q \in Procs : Alive(q) /\ Seen(q) => Seen(q)'
      BY <1>0, <1>2, <2>1, <2>2, <2>4 DEF Seen
    <3> QED BY <3>1, <3>2, <3>3, ConsoleBatchInv
  <2> QED BY <2>3, <2>4
<1>7. CASE Exit(t)
  <2>1. /\ mode' \in [Tuis -> {"down", "scan", "ask", "wait", "ready", "leaving"}]
        /\ UNCHANGED <<proc, lock, pidFile, scan, shown>>
    BY <1>0, <1>7 DEF Exit, runnerVars, BatchTypeOK
  <2>2. poll' \in [Tuis -> [p : Procs \cup {None}, n : 0..MaxPolls]] /\ \A s \in Tuis \ {t} : poll'[s].p = poll[s].p
    BY <1>0, <1>7 DEF Exit
  <2>3. /\ left' \in [Procs -> BOOLEAN]
        /\ \A q \in Procs : left[q] \/ poll[t].p = q => left'[q]
    BY <1>0, <1>7 DEF Exit
  <2>4. BatchTypeOK'
    BY <1>0, <2>1, <2>2, <2>3 DEF BatchTypeOK
  <2>5. \A q \in Procs : Alive(q) /\ Seen(q) => Seen(q)'
    BY <2>2, <2>3 DEF Seen
  <2> QED BY <2>1, <2>4, <2>5, ConsoleBatchInv
<1> QED BY <1>1, <1>3, <1>5, <1>6, <1>7 DEF WorkerStep

\* A new runner, and the one that is not polled any more.
LEMMA StartBatchInv ==
  ASSUME BatchInv, NEW t \in Tuis, NEW k \in Keys, StartBatch(t, k)
  PROVE  BatchInv'
<1>0. /\ BatchTypeOK /\ proc \in [Procs -> Runner]
      /\ poll \in [Tuis -> [p : Procs \cup {None}, n : 0..MaxPolls]] /\ left \in [Procs -> BOOLEAN] /\ MaxPolls \in Nat
  BY BatchConsoleAssumption DEF BatchInv, BatchTypeOK
<1>1. PICK p \in Procs :
        /\ proc[p].at = "unborn"
        /\ proc' = [proc EXCEPT ![p] = [@ EXCEPT !.key = k, !.at = "born"]]
        /\ poll' = [poll EXCEPT ![t] = [p |-> p, n |-> 0]]
        /\ left' = [q \in Procs |-> left[q] \/ poll[t].p = q]
  BY DEF StartBatch
<1>2. UNCHANGED <<lock, pidFile, mode, scan, shown>>
  BY DEF StartBatch
<1>3. /\ proc' \in [Procs -> Runner] /\ proc'[p].key = k /\ proc'[p].at = "born"
      /\ \A q \in Procs \ {p} : proc'[q] = proc[q]
  <2>1. [proc[p] EXCEPT !.key = k, !.at = "born"] \in Runner
    BY <1>0 DEF Runner
  <2> QED BY <1>0, <1>1, <2>1 DEF Runner
<1>4. /\ poll' \in [Tuis -> [p : Procs \cup {None}, n : 0..MaxPolls]] /\ poll'[t].p = p
      /\ \A s \in Tuis \ {t} : poll'[s] = poll[s]
  BY <1>0, <1>1
<1>5. /\ left' \in [Procs -> BOOLEAN]
      /\ \A q \in Procs : left[q] \/ poll[t].p = q => left'[q]
  BY <1>0, <1>1
<1>6. BatchTypeOK'
  BY <1>0, <1>2, <1>3, <1>4, <1>5 DEF BatchTypeOK
<1>7. \A q \in Procs : Seen(q) => Seen(q)'
  BY <1>4, <1>5 DEF Seen
<1>8. \A q \in Procs : Holds(q) => lock'[proc[q].key] = q
  BY <1>2 DEF BatchInv, LockIsHeld
<1> QED BY <1>3, <1>4, <1>6, <1>7, <1>8, OneRunner DEF Seen, Holds

\* The clean-up of run files.
LEMMA ScanBatchInv ==
  ASSUME BatchInv, NEW t \in Tuis,
         Quit(t) \/ Open(t) \/ JudgePid(t) \/ EndScan(t) \/ IgnoreOrphans(t) \/ TermOrphans(t) \/ KillOrphans(t)
         \/ \E k \in Keys : ReadPidFile(t, k)
  PROVE  BatchInv'
<1> DEFINE Scans == [todo : SUBSET Keys, at : PidFile \cup {None}, orphans : SUBSET PidFile, last : LeftOver]
           Modes == {"down", "scan", "ask", "wait", "ready", "leaving"}
<1>0. /\ BatchTypeOK /\ proc \in [Procs -> Runner] /\ lock \in [Keys -> Procs \cup {None}]
      /\ pidFile \in [Keys -> Procs \cup {None}] /\ mode \in [Tuis -> Modes] /\ scan \in [Tuis -> Scans]
      /\ 9 \in ExitCodes
  BY ExitCodesAre DEF BatchInv, BatchTypeOK
<1>1. scan[t] \in Scans /\ NoScan \in Scans
  BY <1>0 DEF NoScan, LeftOver
<1>2. ASSUME UNCHANGED <<proc, lock, poll, shown, left>>, mode' \in [Tuis -> Modes],
             pidFile' \in [Keys -> Procs \cup {None}], scan' \in [Tuis -> Scans]
      PROVE  BatchInv'
  <2>1. BatchTypeOK'
    BY <1>0, <1>2 DEF BatchTypeOK
  <2> HIDE DEF Scans, Modes
  <2> QED BY <1>2, <2>1, ConsoleBatchInv DEF Seen
<1>3. CASE Quit(t) \/ IgnoreOrphans(t) \/ EndScan(t)
  <2>1. mode' \in [Tuis -> Modes]
    BY <1>0, <1>3 DEF Quit, IgnoreOrphans, EndScan
  <2>2. scan' = scan \/ scan' = [scan EXCEPT ![t] = NoScan]
    BY <1>0, <1>3 DEF Quit, IgnoreOrphans, EndScan
  <2>3. scan' \in [Tuis -> Scans]
    <3> HIDE DEF Scans
    <3> QED BY <1>0, <1>1, <2>2
  <2> HIDE DEF Scans, Modes
  <2> QED BY <1>0, <1>2, <1>3, <2>1, <2>3 DEF Quit, IgnoreOrphans, EndScan, runnerVars
<1>4. ASSUME NEW new \in Scans, scan' = [scan EXCEPT ![t] = new] PROVE scan' \in [Tuis -> Scans]
  <2> HIDE DEF Scans
  <2> QED BY <1>0, <1>4
<1>5. CASE Open(t)
  <2> DEFINE new == [NoScan EXCEPT !.todo = {k \in Keys : pidFile[k] # None}]
  <2>1. new \in Scans
    BY <1>1
  <2>2. mode' \in [Tuis -> Modes] /\ scan' = [scan EXCEPT ![t] = new] /\ UNCHANGED <<proc, lock, pidFile, poll, shown, left>>
    BY <1>0, <1>5 DEF Open, runnerVars
  <2> HIDE DEF Scans, Modes, new
  <2> QED BY <1>0, <1>2, <1>4, <2>1, <2>2
<1>6. ASSUME NEW k \in Keys, ReadPidFile(t, k) PROVE BatchInv'
  <2> DEFINE at == [key |-> k, p |-> pidFile[k]]
             new == [scan[t] EXCEPT !.todo = scan[t].todo \ {k}, !.at = at]
  <2>1. at \in PidFile \cup {None}
    BY <1>0 DEF PidFile
  <2>2. new \in Scans
    <3> HIDE DEF at
    <3> QED BY <1>1, <2>1
  <2>3. scan' = [scan EXCEPT ![t] = new] /\ UNCHANGED <<proc, lock, pidFile, mode, poll, shown, left>>
    BY <1>6 DEF ReadPidFile, runnerVars
  <2> HIDE DEF Scans, Modes, new
  <2> QED BY <1>0, <1>2, <1>4, <2>2, <2>3
<1>7. CASE JudgePid(t)
  <2> DEFINE f == scan[t].at
             living == f.p # None /\ Alive(f.p)
             last == [key |-> f.key, p |-> IF f.p = None THEN scan[t].last.p ELSE f.p]
             new == [scan[t] EXCEPT !.at = None, !.last = last,
                                    !.orphans = IF living THEN scan[t].orphans \cup {f} ELSE scan[t].orphans]
  <2>1. f \in PidFile
    BY <1>1, <1>7 DEF JudgePid
  <2>2. new \in Scans
    <3>1. last \in LeftOver
      BY <1>1, <2>1 DEF PidFile, LeftOver
    <3> HIDE DEF f, last, living
    <3> QED BY <1>1, <2>1, <3>1
  <2>3. scan' = [scan EXCEPT ![t] = new] /\ UNCHANGED <<proc, lock, mode, poll, shown, left>>
    BY <1>7 DEF JudgePid
  <2>4. pidFile' \in [Keys -> Procs \cup {None}]
    BY <1>0, <1>7 DEF JudgePid
  <2> HIDE DEF Scans, Modes, new
  <2> QED BY <1>0, <1>2, <1>4, <2>2, <2>3, <2>4
<1>8. CASE TermOrphans(t)
  <2> DEFINE Asked(p) == Alive(p) /\ \E f \in scan[t].orphans : f.p = p
  <2>1. /\ mode' \in [Tuis -> Modes] /\ UNCHANGED <<lock, pidFile, poll, scan, shown, left>>
        /\ proc' = [p \in Procs |-> IF Asked(p) THEN [proc[p] EXCEPT !.term = TRUE] ELSE proc[p]]
    BY <1>0, <1>8 DEF TermOrphans
  <2>2. \A p \in Procs : /\ [proc[p] EXCEPT !.term = TRUE] \in Runner
                         /\ [proc[p] EXCEPT !.term = TRUE].at = proc[p].at
                         /\ [proc[p] EXCEPT !.term = TRUE].key = proc[p].key
    <3>1. \A p \in Procs : proc[p] \in Runner
      BY <1>0
    <3> QED BY ONLY <3>1, RunnerAsked
  <2> HIDE DEF Asked
  <2>3. /\ proc' \in [Procs -> Runner]
        /\ \A p \in Procs : proc'[p].at = proc[p].at /\ proc'[p].key = proc[p].key
    BY <1>0, <2>1, <2>2
  <2>4. BatchTypeOK'
    BY <1>0, <2>1, <2>3 DEF BatchTypeOK
  <2> QED BY <2>1, <2>3, <2>4 DEF BatchInv, LockIsHeld, RunnersAreSeen, Holds, Alive, Seen
<1>9. CASE KillOrphans(t)
  <2> DEFINE last == scan[t].last
             hit == IF Alive(last.p) THEN {f.p : f \in scan[t].orphans} ELSE {}
  <2>1. /\ mode' \in [Tuis -> Modes] /\ UNCHANGED <<poll, shown, left>> /\ scan' = [scan EXCEPT ![t] = NoScan]
        /\ pidFile' \in [Keys -> Procs \cup {None}]
    BY <1>0, <1>9 DEF KillOrphans
  <2>2. /\ proc' = [p \in Procs |-> IF p \in hit /\ Alive(p) THEN [proc[p] EXCEPT !.at = "dead", !.code = 9] ELSE proc[p]]
        /\ lock' = [k \in Keys |-> IF lock[k] \in hit THEN None ELSE lock[k]]
    BY <1>9 DEF KillOrphans
  <2>3. \A p \in Procs : /\ [proc[p] EXCEPT !.at = "dead", !.code = 9] \in Runner
                         /\ [proc[p] EXCEPT !.at = "dead", !.code = 9].at = "dead"
                         /\ [proc[p] EXCEPT !.at = "dead", !.code = 9].key = proc[p].key
    <3>1. PICK killed \in ExitCodes : killed = 9
      BY <1>0
    <3>2. \A p \in Procs : /\ [proc[p] EXCEPT !.at = "dead", !.code = killed] \in Runner
                           /\ [proc[p] EXCEPT !.at = "dead", !.code = killed].at = "dead"
                           /\ [proc[p] EXCEPT !.at = "dead", !.code = killed].key = proc[p].key
      <4>1. \A q \in Procs : proc[q] \in Runner
        BY <1>0
      <4> QED BY <4>1, RunnerEnds, Zenon
    <3> QED BY <3>1, <3>2
  <2> HIDE DEF hit
  <2>4. /\ proc' \in [Procs -> Runner] /\ lock' \in [Keys -> Procs \cup {None}]
        /\ \A p \in Procs : proc'[p].key = proc[p].key
        /\ \A p \in Procs : IF p \in hit /\ Alive(p) THEN proc'[p].at = "dead" ELSE proc'[p].at = proc[p].at
    BY <1>0, <2>2, <2>3
  <2>5. BatchTypeOK'
    <3>1. scan' \in [Tuis -> Scans]
      BY <1>1, <1>4, <2>1
    <3> QED BY <1>0, <2>1, <2>4, <3>1 DEF BatchTypeOK
  <2>6. LockIsHeld'
    <3>1. \A p \in Procs : proc'[p].at # "unborn" => proc'[p].key \in Keys
      BY <2>4 DEF BatchInv, LockIsHeld, Alive
    <3>2. ASSUME NEW p \in Procs, Holds(p)' PROVE lock'[proc'[p].key] = p
      <4>1. p \notin hit /\ Holds(p) /\ proc'[p].key = proc[p].key
        BY <2>4, <3>2 DEF Holds, Alive
      <4> QED BY <2>2, <4>1 DEF BatchInv, LockIsHeld, Holds
    <3> QED BY <3>1, <3>2 DEF LockIsHeld
  <2>7. RunnersAreSeen'
    BY <2>1, <2>4 DEF BatchInv, RunnersAreSeen, Alive, Seen
  <2> QED BY <2>5, <2>6, <2>7 DEF BatchInv
<1> QED BY <1>3, <1>5, <1>6, <1>7, <1>8, <1>9

LEMMA NextBatchInv == BatchInv /\ [BatchNext]_batchVars => BatchInv'
<1> SUFFICES ASSUME BatchInv, [BatchNext]_batchVars PROVE BatchInv'
  OBVIOUS
<1>1. CASE UNCHANGED batchVars
  BY <1>1 DEF batchVars, BatchInv, BatchTypeOK, LockIsHeld, RunnersAreSeen, Holds, Alive, Seen
<1> QED BY <1>1, RunnerBatchInv, WorkerBatchInv, StartBatchInv, ScanBatchInv DEF BatchNext

\* Processes, locks, pid files and consoles are what they are declared to be.
THEOREM BatchTypeCorrect == BatchInit /\ [][BatchNext]_batchVars => []BatchTypeOK
<1>1. BatchInv => BatchTypeOK
  BY DEF BatchInv
<1> QED BY <1>1, InitBatchInv, NextBatchInv, PTL

\* A batch that runs is polled by the console that started it, unless a second
\* start or a quit cancelled that poll, and it runs alone under its key, for every
\* number of consoles, batches, processes and polls and whatever a clean-up kills.
THEOREM BatchesAreSeen == BatchInit /\ [][BatchNext]_batchVars => []NothingRunsUnseen
<1>1. BatchInv => NothingRunsUnseen
  BY DEF BatchInv, NothingRunsUnseen, RunnersAreSeen, LockIsHeld, Seen, Holds
<1> QED BY <1>1, InitBatchInv, NextBatchInv, PTL

-------------------------------------------------------------------------------
(***************************************************************************)
(* Releases.  What the clone knows of main is a commit that main, whoever  *)
(* pushes, will go on to contain.                                          *)
(***************************************************************************)
Numbers == 1..Len(commits)

ReleaseTypeOK ==
  /\ commits \in Seq([first : Nat \cup {NoCommit}, has : SUBSET Nat])
  /\ main \in Numbers /\ release \in Numbers /\ trackMain \in Numbers /\ trackRelease \in Numbers
  /\ op \in [Threads -> [do : {"none", "deploy", "rollback"}, at : {"idle", "fetch", "check", "push", "meta"},
                         old : Nat \cup {NoCommit}, new : Nat \cup {NoCommit}]]
  /\ meta \in Nat \cup {NoCommit}

HistoryGrows ==
  /\ \A c \in Numbers : c \in commits[c].has
  /\ \A c \in Numbers : commits[c].first # NoCommit => commits[c].first \in Numbers
  /\ IsAncestor(trackMain, main)

ReleaseInv == ReleaseTypeOK /\ HistoryGrows

LEMMA InitReleaseInv == ReleaseInit => ReleaseInv
<1> SUFFICES ASSUME ReleaseInit PROVE ReleaseInv
  OBVIOUS
<1> DEFINE root == [first |-> NoCommit, has |-> {1}]
<1>1. root \in [first : Nat \cup {NoCommit}, has : SUBSET Nat] /\ root.first = NoCommit /\ 1 \in root.has
  OBVIOUS
<1>2. commits = <<root>>
  BY DEF ReleaseInit
<1> HIDE DEF root
<1>3. Len(commits) = 1 /\ commits[1] = root /\ commits \in Seq([first : Nat \cup {NoCommit}, has : SUBSET Nat])
  BY <1>1, <1>2
<1> QED BY <1>1, <1>3 DEF ReleaseInit, ReleaseInv, ReleaseTypeOK, HistoryGrows, Numbers, IsAncestor, Idle

\* Every number of the history has its row.
LEMMA HistoryRows ==
  ASSUME NEW Rows, commits \in Seq(Rows)
  PROVE  \A p \in Numbers : commits[p] \in Rows
BY DEF Numbers

\* A commit is added, and the others stay as they are.
LEMMA NewCommitEffect ==
  ASSUME ReleaseInv, NEW first \in Numbers, NEW others \in SUBSET Numbers, NewCommit(first, others)
  PROVE  /\ commits' \in Seq([first : Nat \cup {NoCommit}, has : SUBSET Nat])
         /\ Len(commits') = Len(commits) + 1 /\ Len(commits) \in Nat
         /\ \A c \in Numbers : commits'[c] = commits[c]
         /\ commits'[Len(commits) + 1].first = first
         /\ Len(commits) + 1 \in commits'[Len(commits) + 1].has
         /\ commits[first].has \subseteq commits'[Len(commits) + 1].has
         /\ commits' # commits
<1> DEFINE n == Len(commits) + 1
           all == {n} \union UNION {commits[p].has : p \in {first} \union others}
           new == [first |-> first, has |-> all]
<1>1. commits \in Seq([first : Nat \cup {NoCommit}, has : SUBSET Nat]) /\ n \in Nat
  BY DEF ReleaseInv, ReleaseTypeOK
<1>2. \A p \in {first} \union others : commits[p].has \subseteq Nat
  <2> HIDE DEF all, new, n
  <2>1. \A p \in Numbers : commits[p] \in [first : Nat \cup {NoCommit}, has : SUBSET Nat]
    BY <1>1, HistoryRows
  <2> QED BY <2>1
<1>3. all \subseteq Nat /\ n \in all /\ commits[first].has \subseteq all /\ first \in Nat
  BY <1>1, <1>2 DEF Numbers
<1>4. commits' = Append(commits, new)
  BY DEF NewCommit
<1> HIDE DEF n, all
<1>5. new \in [first : Nat \cup {NoCommit}, has : SUBSET Nat]
  BY <1>3
<1>6. new.first = first /\ new.has = all
  OBVIOUS
<1> HIDE DEF new
<1>7. /\ commits' \in Seq([first : Nat \cup {NoCommit}, has : SUBSET Nat])
      /\ Len(commits') = n /\ commits'[n] = new /\ \A c \in Numbers : commits'[c] = commits[c]
  BY <1>1, <1>4, <1>5 DEF Numbers, n
<1> QED BY <1>1, <1>3, <1>6, <1>7 DEF n

LEMMA RemoteReleaseInv ==
  ASSUME ReleaseInv, PushMain \/ PushHotfix \/ MergeBack
  PROVE  ReleaseInv'
<1>0. ReleaseTypeOK /\ main \in Numbers /\ release \in Numbers /\ trackMain \in Numbers /\ trackRelease \in Numbers
  BY DEF ReleaseInv, ReleaseTypeOK
<1> DEFINE n == Len(commits) + 1
<1>1. /\ commits' \in Seq([first : Nat \cup {NoCommit}, has : SUBSET Nat])
      /\ Len(commits') = n /\ Len(commits) \in Nat
      /\ \A c \in Numbers : commits'[c] = commits[c]
      /\ commits'[n].first \in Numbers /\ n \in commits'[n].has
      /\ (main' = main \/ (main' = n /\ commits[main].has \subseteq commits'[n].has))
      /\ (release' = release \/ release' = n)
      /\ UNCHANGED <<trackVars, op, meta>>
  <2>1. CASE PushMain
    BY <1>0, <2>1, NewCommitEffect DEF PushMain
  <2>2. CASE PushHotfix
    BY <1>0, <2>2, NewCommitEffect DEF PushHotfix
  <2>3. CASE MergeBack
    <3>1. {release} \in SUBSET Numbers
      BY <1>0
    <3> QED BY <1>0, <2>3, <3>1, NewCommitEffect DEF MergeBack
  <2> QED BY <2>1, <2>2, <2>3
<1>2. Numbers' = Numbers \cup {n} /\ n \notin Numbers
  BY <1>1 DEF Numbers
<1>3. ReleaseTypeOK'
  BY <1>0, <1>1, <1>2 DEF ReleaseTypeOK, trackVars
<1>4. \A c \in Numbers' : c \in commits'[c].has
  BY <1>1, <1>2 DEF ReleaseInv, HistoryGrows
<1>5. \A c \in Numbers' : commits'[c].first # NoCommit => commits'[c].first \in Numbers'
  BY <1>1, <1>2 DEF ReleaseInv, HistoryGrows
<1>6. trackMain \in commits'[main'].has
  BY <1>0, <1>1 DEF ReleaseInv, HistoryGrows, IsAncestor
<1> QED BY <1>1, <1>3, <1>4, <1>5, <1>6 DEF ReleaseInv, HistoryGrows, IsAncestor, trackVars

\* The commands make no commit.
LEMMA ClonedReleaseInv ==
  ASSUME ReleaseInv, UNCHANGED <<commits, main>>,
         op' \in [Threads -> [do : {"none", "deploy", "rollback"}, at : {"idle", "fetch", "check", "push", "meta"},
                              old : Nat \cup {NoCommit}, new : Nat \cup {NoCommit}]],
         release' \in Numbers, trackRelease' \in Numbers, trackMain' \in {trackMain, main}, meta' \in Nat \cup {NoCommit}
  PROVE  ReleaseInv'
<1>1. Numbers' = Numbers /\ trackMain' \in Numbers /\ main \in Numbers
  BY DEF ReleaseInv, ReleaseTypeOK, Numbers
<1>2. IsAncestor(trackMain, main)'
  BY <1>1 DEF ReleaseInv, HistoryGrows, IsAncestor
<1>3. ReleaseTypeOK'
  BY <1>1 DEF ReleaseInv, ReleaseTypeOK
<1> QED BY <1>1, <1>2, <1>3 DEF ReleaseInv, HistoryGrows

CommandsOf(t) ==
  Command(t) \/ Fetch(t) \/ CheckDeploy(t) \/ PushDeploy(t) \/ CheckRollback(t) \/ PushRollback(t) \/ WriteMeta(t)

LEMMA CommandReleaseInv ==
  ASSUME ReleaseInv, NEW t \in Threads, CommandsOf(t)
  PROVE  ReleaseInv'
<1> DEFINE Ops == [do : {"none", "deploy", "rollback"}, at : {"idle", "fetch", "check", "push", "meta"},
                   old : Nat \cup {NoCommit}, new : Nat \cup {NoCommit}]
<1>0. /\ main \in Numbers /\ release \in Numbers /\ trackMain \in Numbers /\ trackRelease \in Numbers
      /\ op \in [Threads -> Ops] /\ meta \in Nat \cup {NoCommit} /\ Numbers \subseteq Nat
      /\ \A c \in Numbers : commits[c].first # NoCommit => commits[c].first \in Numbers
  BY DEF ReleaseInv, ReleaseTypeOK, HistoryGrows, Numbers
<1>1. op[t] \in Ops /\ Idle \in Ops
  BY <1>0 DEF Idle
<1>2. /\ \A at \in {"fetch", "check", "push", "meta"} : [op[t] EXCEPT !.at = at] \in Ops
      /\ \A do \in {"deploy", "rollback"} : [Idle EXCEPT !.do = do, !.at = "fetch"] \in Ops
      /\ \A a, b \in Numbers : [op[t] EXCEPT !.at = "push", !.old = a, !.new = b] \in Ops
  BY <1>0, <1>1
<1>3. ASSUME NEW to \in Ops, op' = [op EXCEPT ![t] = to] PROVE op' \in [Threads -> Ops]
  <2> HIDE DEF Ops
  <2> QED BY <1>0, <1>3
<1>4. ASSUME NEW at \in {"fetch", "check", "push", "meta"}, op' = [op EXCEPT ![t].at = at] PROVE op' \in [Threads -> Ops]
  <2>1. op' = [op EXCEPT ![t] = [op[t] EXCEPT !.at = at]]
    BY <1>0, <1>4
  <2> HIDE DEF Ops
  <2> QED BY <1>0, <1>2, <2>1
<1> HIDE DEF Ops
<1>5. op' \in [Threads -> Ops]
  <2>1. CASE Command(t)
    <3>1. PICK do \in {"deploy", "rollback"} : op' = [op EXCEPT ![t] = [Idle EXCEPT !.do = do, !.at = "fetch"]]
      BY <2>1 DEF Command
    <3> QED BY <1>2, <1>3, <3>1
  <2>2. CASE Fetch(t) \/ CheckDeploy(t) \/ PushDeploy(t) \/ PushRollback(t) \/ WriteMeta(t)
    BY <1>1, <1>3, <1>4, <2>2 DEF Fetch, CheckDeploy, PushDeploy, PushRollback, WriteMeta, Goto, Finish
  <2>3. CASE CheckRollback(t)
    <3>1. CASE commits[trackRelease].first = NoCommit
      BY <1>1, <1>3, <2>3, <3>1 DEF CheckRollback, Finish
    <3>2. CASE commits[trackRelease].first # NoCommit
      <4>1. commits[trackRelease].first \in Numbers /\ trackRelease \in Numbers
        BY <1>0, <3>2
      <4>2. op' = [op EXCEPT ![t] = [op[t] EXCEPT !.at = "push", !.old = trackRelease, !.new = commits[trackRelease].first]]
        BY <2>3, <3>2 DEF CheckRollback
      <4> QED BY <1>2, <1>3, <4>1, <4>2
    <3> QED BY <3>1, <3>2
  <2> QED BY <2>1, <2>2, <2>3 DEF CommandsOf
<1>6. UNCHANGED <<commits, main>> /\ trackMain' \in {trackMain, main}
  BY DEF CommandsOf, Command, Fetch, CheckDeploy, PushDeploy, CheckRollback, PushRollback, WriteMeta, remoteVars, trackVars
<1>7. release' \in Numbers /\ trackRelease' \in Numbers /\ meta' \in Nat \cup {NoCommit}
  BY <1>0 DEF CommandsOf, Command, Fetch, CheckDeploy, PushDeploy, CheckRollback, PushRollback, WriteMeta, remoteVars, trackVars
<1> QED BY <1>5, <1>6, <1>7, ClonedReleaseInv DEF Ops

LEMMA NextReleaseInv == ReleaseInv /\ [ReleaseNext]_releaseVars => ReleaseInv'
<1> SUFFICES ASSUME ReleaseInv, [ReleaseNext]_releaseVars PROVE ReleaseInv'
  OBVIOUS
<1>1. CASE UNCHANGED releaseVars
  BY <1>1 DEF releaseVars, ReleaseInv, ReleaseTypeOK, HistoryGrows, Numbers, IsAncestor
<1> QED BY <1>1, RemoteReleaseInv, CommandReleaseInv DEF ReleaseNext, CommandsOf

LEMMA ReleaseStep ==
  ASSUME ReleaseInv, [ReleaseNext]_releaseVars, release' # release, commits' = commits
  PROVE  \/ IsAncestor(release, release') /\ IsAncestor(release', main)
         \/ release' = commits[release].first
<1>1. main \in Numbers /\ release \in Numbers
  BY DEF ReleaseInv, ReleaseTypeOK
<1>2. ~(PushMain \/ PushHotfix \/ MergeBack)
  BY <1>1, NewCommitEffect DEF PushMain, PushHotfix, MergeBack, Numbers
<1>3. PICK t \in Threads : PushDeploy(t) \/ PushRollback(t)
  BY <1>2 DEF ReleaseNext, releaseVars, Command, Fetch, CheckDeploy, CheckRollback, WriteMeta, remoteVars
<1>4. CASE PushDeploy(t)
  BY <1>4 DEF PushDeploy, ReleaseInv, HistoryGrows, IsAncestor
<1>5. CASE PushRollback(t)
  BY <1>5 DEF PushRollback
<1> QED BY <1>3, <1>4, <1>5

\* The remote, the clone and the commands are what they are declared to be.
THEOREM ReleaseTypeCorrect == ReleaseInit /\ [][ReleaseNext]_releaseVars => []ReleaseTypeOK
<1>1. ReleaseInv => ReleaseTypeOK
  BY DEF ReleaseInv
<1> QED BY <1>1, InitReleaseInv, NextReleaseInv, PTL

\* The console moves release forward to a commit of main that has all of release
\* in it, or back by one, for every number of deploying threads and commits and
\* whoever pushes or fetches between the steps of a command.
THEOREM ReleasesAreSafe == ReleaseInit /\ [][ReleaseNext]_releaseVars => ReleaseMovesSafely
<1>1. ReleaseInv /\ [ReleaseNext]_releaseVars =>
        [release' # release /\ commits' = commits =>
           \/ IsAncestor(release, release') /\ IsAncestor(release', main)
           \/ release' = commits[release].first]_releaseVars
  BY ReleaseStep
<1> QED BY <1>1, InitReleaseInv, NextReleaseInv, PTL DEF ReleaseMovesSafely

-------------------------------------------------------------------------------
(***************************************************************************)
(* Reserved jobs.  Between the steps of an edit in which a job may not be  *)
(* loaded as its file says, the job has a file in the folder of those that *)
(* are on; a job whose file is about to be moved aside is unloaded, or it  *)
(* is known that it could not be.                                          *)
(***************************************************************************)
EditSteps == {"idle", "disable", "park", "enable", "load", "write", "unload again", "load again", "read"}

JobTable == UNION {[S -> [time : Times \cup {NoTime}, enabled : BOOLEAN, loaded : BOOLEAN]] : S \in SUBSET Jobs}

EditRow == [at : EditSteps, job : Jobs \cup {NoEdit.job}, time : Times \cup {NoTime}]

ScheduleTypeOK ==
  /\ active \in [Jobs -> Times \cup {NoTime}]
  /\ parked \in [Jobs -> Times \cup {NoTime}]
  /\ loaded \in [Jobs -> Times \cup {NoTime}]
  /\ table \in [Editors -> JobTable]
  /\ edit \in [Editors -> EditRow]
  /\ told \in [Jobs -> {"done", "failed"}]
  /\ clung \in SUBSET Jobs

\* A console that works on a job has one, and a time if it sets one.
EditsAreOf ==
  \A t \in Editors : /\ edit[t].at \notin {"idle", "read"} => edit[t].job \in Jobs
                     /\ edit[t].at = "write" => edit[t].time \in Times

Between == {"park", "load", "unload again", "load again"}

AsWritten(j) ==
  \/ loaded[j] = active[j]
  \/ active[j] # NoTime /\ told[j] = "failed"
  \/ active[j] = NoTime /\ j \in clung

EditsInOrder ==
  /\ \A j \in Jobs : AsWritten(j) \/ \E t \in Editors : edit[t].at \in Between /\ edit[t].job = j
  /\ \A t \in Editors : edit[t].at \in Between => active[edit[t].job] # NoTime
  /\ \A t \in Editors : edit[t].at = "park" => loaded[edit[t].job] = NoTime \/ edit[t].job \in clung

ScheduleInv == ScheduleTypeOK /\ EditsAreOf /\ EditsInOrder

OneEditor == \A s, t \in Editors : s = t

LEMMA JobListTyped ==
  active \in [Jobs -> Times \cup {NoTime}] /\ parked \in [Jobs -> Times \cup {NoTime}] => JobList \in JobTable
<1> SUFFICES ASSUME active \in [Jobs -> Times \cup {NoTime}], parked \in [Jobs -> Times \cup {NoTime}]
             PROVE  JobList \in JobTable
  OBVIOUS
<1> DEFINE S == {i \in Jobs : active[i] # NoTime \/ parked[i] # NoTime}
           row(j) == [time |-> IF active[j] # NoTime THEN active[j] ELSE parked[j],
                      enabled |-> active[j] # NoTime,
                      loaded |-> active[j] # NoTime /\ loaded[j] # NoTime]
<1>1. \A j \in S : row(j) \in [time : Times \cup {NoTime}, enabled : BOOLEAN, loaded : BOOLEAN]
  OBVIOUS
<1>2. JobList = [j \in S |-> row(j)]
  BY DEF JobList
<1> HIDE DEF row
<1>3. JobList \in [S -> [time : Times \cup {NoTime}, enabled : BOOLEAN, loaded : BOOLEAN]] /\ S \in SUBSET Jobs
  BY <1>1, <1>2
<1> HIDE DEF S
<1> QED BY <1>3 DEF JobTable

LEMMA NoJobsTyped == NoJobs \in JobTable
<1>1. NoJobs \in [{} -> [time : Times \cup {NoTime}, enabled : BOOLEAN, loaded : BOOLEAN]] /\ {} \in SUBSET Jobs
  BY DEF NoJobs
<1> QED BY <1>1 DEF JobTable

LEMMA NoEditTyped == NoEdit \in EditRow /\ NoEdit.at = "idle"
BY DEF NoEdit, EditRow, EditSteps

LEMMA InitScheduleInv == ScheduleInit => ScheduleInv
<1> SUFFICES ASSUME ScheduleInit PROVE ScheduleInv
  OBVIOUS
<1>1. ScheduleTypeOK
  BY NoJobsTyped, NoEditTyped, ScheduleAssumption DEF ScheduleInit, ScheduleTypeOK
<1>2. EditsAreOf /\ EditsInOrder
  BY NoEditTyped DEF ScheduleInit, EditsAreOf, EditsInOrder, AsWritten, Between
<1> QED BY <1>1, <1>2 DEF ScheduleInv

\* A step of the only console: its edit moves on, and what it does is about the job of the edit.
LEMMA OneEditMoves ==
  ASSUME OneEditor, ScheduleInv, NEW t \in Editors, NEW row \in EditRow, edit' = [edit EXCEPT ![t] = row],
         table' \in [Editors -> JobTable],
         active' \in [Jobs -> Times \cup {NoTime}], parked' \in [Jobs -> Times \cup {NoTime}],
         loaded' \in [Jobs -> Times \cup {NoTime}], told' \in [Jobs -> {"done", "failed"}], clung' \in SUBSET Jobs,
         row.at \notin {"idle", "read"} => row.job \in Jobs,
         row.at = "write" => row.time \in Times,
         \A j \in Jobs : AsWritten(j)' \/ (row.at \in Between /\ row.job = j),
         row.at \in Between => active'[row.job] # NoTime,
         row.at = "park" => loaded'[row.job] = NoTime \/ row.job \in clung'
  PROVE  ScheduleInv'
<1>1. edit \in [Editors -> EditRow]
  BY DEF ScheduleInv, ScheduleTypeOK
<1>2. edit' \in [Editors -> EditRow] /\ edit'[t] = row /\ \A s \in Editors : edit'[s] = row
  BY <1>1 DEF OneEditor
<1>3. ScheduleTypeOK'
  BY <1>2 DEF ScheduleTypeOK
<1>4. EditsAreOf'
  BY <1>2 DEF EditsAreOf
<1>5. EditsInOrder'
  BY <1>2 DEF EditsInOrder
<1> QED BY <1>3, <1>4, <1>5 DEF ScheduleInv

\* What launchctl does to a service.
LEMMA UnloadEffect ==
  ASSUME ScheduleInv, NEW j \in Jobs, Unload(j)
  PROVE  /\ loaded' \in [Jobs -> Times \cup {NoTime}] /\ clung' \in SUBSET Jobs
         /\ loaded'[j] = NoTime \/ j \in clung'
         /\ \A i \in Jobs \ {j} : loaded'[i] = loaded[i] /\ (i \in clung' <=> i \in clung)
<1>1. loaded \in [Jobs -> Times \cup {NoTime}] /\ clung \in SUBSET Jobs
  BY DEF ScheduleInv, ScheduleTypeOK
<1>2. CASE loaded' = [loaded EXCEPT ![j] = NoTime] /\ clung' = clung \ {j}
  BY <1>1, <1>2
<1>3. CASE clung' = clung \cup {j} /\ UNCHANGED loaded
  BY <1>1, <1>3
<1> QED BY <1>2, <1>3 DEF Unload

LEMMA BootstrapEffect ==
  ASSUME ScheduleInv, NEW j \in Jobs, Bootstrap(j), active[j] # NoTime, UNCHANGED <<active, clung>>
  PROVE  /\ loaded' \in [Jobs -> Times \cup {NoTime}] /\ told' \in [Jobs -> {"done", "failed"}]
         /\ AsWritten(j)'
         /\ \A i \in Jobs \ {j} : loaded'[i] = loaded[i] /\ told'[i] = told[i]
<1>1. /\ loaded \in [Jobs -> Times \cup {NoTime}] /\ told \in [Jobs -> {"done", "failed"}]
      /\ active \in [Jobs -> Times \cup {NoTime}]
  BY DEF ScheduleInv, ScheduleTypeOK
<1>2. CASE loaded' = [loaded EXCEPT ![j] = active[j]] /\ Tell(j, "done")
  BY <1>1, <1>2 DEF Tell, AsWritten
<1>3. CASE UNCHANGED loaded /\ Tell(j, "failed")
  BY <1>1, <1>3 DEF Tell, AsWritten
<1> QED BY <1>2, <1>3 DEF Bootstrap

LEMMA StepScheduleInv ==
  ASSUME OneEditor, ScheduleInv, NEW t \in Editors, EditStep(t)
  PROVE  ScheduleInv'
<1>0. /\ active \in [Jobs -> Times \cup {NoTime}] /\ parked \in [Jobs -> Times \cup {NoTime}]
      /\ loaded \in [Jobs -> Times \cup {NoTime}] /\ told \in [Jobs -> {"done", "failed"}]
      /\ clung \in SUBSET Jobs /\ table \in [Editors -> JobTable] /\ edit \in [Editors -> EditRow]
      /\ edit[t] \in EditRow
  BY DEF ScheduleInv, ScheduleTypeOK
<1>1. \A i \in Jobs : AsWritten(i) \/ (edit[t].at \in Between /\ edit[t].job = i)
  BY DEF OneEditor, ScheduleInv, EditsInOrder
<1>2. ASSUME NEW at \in EditSteps, Go(t, at)
      PROVE  \E row \in EditRow : /\ edit' = [edit EXCEPT ![t] = row] /\ row.at = at
                                  /\ row.job = edit[t].job /\ row.time = edit[t].time
  <2> DEFINE row == [edit[t] EXCEPT !.at = at]
  <2>1. row \in EditRow /\ row.at = at /\ row.job = edit[t].job /\ row.time = edit[t].time
    BY <1>0 DEF EditRow
  <2>2. edit' = [edit EXCEPT ![t] = row]
    BY <1>2 DEF Go
  <2> QED BY <2>1, <2>2
<1>3. /\ AfterToggle(t) \in {"read", "write"} /\ AfterToggle(t) \in EditSteps
      /\ AfterToggle(t) = "write" => edit[t].time \in Times
  BY <1>0 DEF AfterToggle, EditRow, EditSteps
<1>4. (JobList \in JobTable)
  BY <1>0, JobListTyped
<1>5. CASE ReadTable(t)
  <2>1. \A i \in Jobs : AsWritten(i)
    BY <1>1, <1>5 DEF ReadTable, Doing, Between
  <2>2. /\ edit' = [edit EXCEPT ![t] = NoEdit] /\ table' = [table EXCEPT ![t] = JobList]
        /\ UNCHANGED <<active, parked, loaded, told, clung>>
    BY <1>5 DEF ReadTable, agentVars
  <2>3. \A i \in Jobs : AsWritten(i)'
    BY <2>1, <2>2 DEF AsWritten
  <2> QED BY <1>0, <1>4, <2>2, <2>3, NoEditTyped, OneEditMoves DEF Between
<1>6. CASE ConsoleEnds(t)
  <2>1. /\ edit' = [edit EXCEPT ![t] = NoEdit] /\ table' = [table EXCEPT ![t] = NoJobs]
        /\ UNCHANGED <<active, parked, loaded, clung>> /\ edit[t].at # "idle"
    BY <1>6 DEF ConsoleEnds, agentVars, Editing
  <2>2. told' \in [Jobs -> {"done", "failed"}] /\ \A i \in Jobs : AsWritten(i)'
    <3>1. CASE edit[t].at = "read"
      <4>1. UNCHANGED told
        BY <1>6, <3>1 DEF ConsoleEnds, Doing
      <4> QED BY <1>0, <1>1, <2>1, <3>1, <4>1 DEF AsWritten, Between
    <3>2. CASE edit[t].at # "read"
      <4>1. PICK j \in Jobs : j = edit[t].job
        BY <2>1, <3>2 DEF ScheduleInv, EditsAreOf
      <4>2. told' = [told EXCEPT ![j] = "failed"]
        BY <1>6, <3>2, <4>1 DEF ConsoleEnds, Doing, Tell
      <4>3. edit[t].at \in Between => active[j] # NoTime
        BY <4>1 DEF ScheduleInv, EditsInOrder
      <4>4. ASSUME NEW i \in Jobs PROVE AsWritten(i)'
        <5>1. AsWritten(i) \/ (active[i] # NoTime /\ i = j)
          BY <1>1, <4>1, <4>3
        <5>2. told'[i] = "failed" \/ told'[i] = told[i]
          BY <1>0, <4>2
        <5>3. i = j => told'[i] = "failed"
          BY <1>0, <4>2
        <5> QED BY <2>1, <5>1, <5>2, <5>3 DEF AsWritten
      <4> QED BY <1>0, <4>2, <4>4
    <3> QED BY <3>1, <3>2
  <2> QED BY <1>0, <2>1, <2>2, NoEditTyped, NoJobsTyped, OneEditMoves DEF Between
<1>7. CASE edit[t].at \notin {"idle", "read"} /\ ~ConsoleEnds(t)
  <2>1. PICK j \in Jobs : j = edit[t].job
    BY <1>7 DEF ScheduleInv, EditsAreOf
  <2>2. CASE Disable(t)
    <3>1. edit[t].at = "disable" /\ UNCHANGED <<active, parked, table, told>> /\ AsWritten(j)
      BY <1>1, <2>2 DEF Disable, Doing, Between
    <3>2. CASE active[j] = NoTime
      <4>1. Go(t, AfterToggle(t)) /\ UNCHANGED <<loaded, clung>>
        BY <2>1, <2>2, <3>2 DEF Disable
      <4>2. PICK row \in EditRow : /\ edit' = [edit EXCEPT ![t] = row] /\ row.at = AfterToggle(t)
                                   /\ row.job = edit[t].job /\ row.time = edit[t].time
        BY <1>2, <1>3, <4>1
      <4>3. \A i \in Jobs : AsWritten(i)'
        BY <1>1, <3>1, <4>1 DEF AsWritten, Between
      <4> QED BY <1>0, <1>3, <2>1, <3>1, <4>1, <4>2, <4>3, OneEditMoves DEF Between
    <3>3. CASE active[j] # NoTime
      <4>1. Go(t, "park") /\ Unload(j)
        BY <2>1, <2>2, <3>3 DEF Disable
      <4>2. PICK row \in EditRow : /\ edit' = [edit EXCEPT ![t] = row] /\ row.at = "park"
                                   /\ row.job = edit[t].job /\ row.time = edit[t].time
        BY <1>2, <4>1 DEF EditSteps
      <4>3. /\ loaded' \in [Jobs -> Times \cup {NoTime}] /\ clung' \in SUBSET Jobs
            /\ loaded'[j] = NoTime \/ j \in clung'
            /\ \A i \in Jobs \ {j} : loaded'[i] = loaded[i] /\ (i \in clung' <=> i \in clung)
        BY <4>1, UnloadEffect
      <4>4. \A i \in Jobs : AsWritten(i)' \/ i = j
        BY <1>1, <3>1, <4>3 DEF AsWritten, Between
      <4> QED BY <1>0, <2>1, <3>1, <3>3, <4>2, <4>3, <4>4, OneEditMoves DEF Between
    <3> QED BY <3>2, <3>3
  <2>3. CASE Park(t)
    <3>1. /\ edit[t].at = "park" /\ active[j] # NoTime /\ Tell(j, "done")
          /\ active' = [active EXCEPT ![j] = NoTime] /\ parked' = [parked EXCEPT ![j] = active[j]]
          /\ Go(t, AfterToggle(t)) /\ UNCHANGED <<loaded, table, clung>>
      BY <2>1, <2>3 DEF Park, Doing
    <3>2. PICK row \in EditRow : /\ edit' = [edit EXCEPT ![t] = row] /\ row.at = AfterToggle(t)
                                 /\ row.job = edit[t].job /\ row.time = edit[t].time
      BY <1>2, <1>3, <3>1
    <3>3. loaded[j] = NoTime \/ j \in clung
      BY <2>1, <3>1 DEF ScheduleInv, EditsInOrder
    <3>4. /\ active' \in [Jobs -> Times \cup {NoTime}] /\ parked' \in [Jobs -> Times \cup {NoTime}]
          /\ told' \in [Jobs -> {"done", "failed"}] /\ active'[j] = NoTime
          /\ \A i \in Jobs \ {j} : active'[i] = active[i] /\ told'[i] = told[i]
      BY <1>0, <3>1 DEF Tell
    <3>5. \A i \in Jobs : AsWritten(i)'
      BY <1>1, <2>1, <3>1, <3>3, <3>4 DEF AsWritten
    <3> QED BY <1>0, <1>3, <2>1, <3>1, <3>2, <3>4, <3>5, OneEditMoves DEF Between
  <2>4. CASE Enable(t)
    <3>1. edit[t].at = "enable" /\ UNCHANGED <<loaded, table, told, clung>> /\ \A i \in Jobs : AsWritten(i)
      BY <1>1, <2>4 DEF Enable, Doing, Between
    <3>2. CASE active[j] # NoTime \/ parked[j] = NoTime
      <4>1. Go(t, AfterToggle(t)) /\ UNCHANGED <<active, parked>>
        BY <2>1, <2>4, <3>2 DEF Enable
      <4>2. PICK row \in EditRow : /\ edit' = [edit EXCEPT ![t] = row] /\ row.at = AfterToggle(t)
                                   /\ row.job = edit[t].job /\ row.time = edit[t].time
        BY <1>2, <1>3, <4>1
      <4>3. \A i \in Jobs : AsWritten(i)'
        BY <3>1, <4>1 DEF AsWritten
      <4> QED BY <1>0, <1>3, <2>1, <3>1, <4>1, <4>2, <4>3, OneEditMoves DEF Between
    <3>3. CASE ~(active[j] # NoTime \/ parked[j] = NoTime)
      <4>1. /\ active' = [active EXCEPT ![j] = parked[j]] /\ parked' = [parked EXCEPT ![j] = NoTime]
            /\ Go(t, "load")
        BY <2>1, <2>4, <3>3 DEF Enable
      <4>2. PICK row \in EditRow : /\ edit' = [edit EXCEPT ![t] = row] /\ row.at = "load"
                                   /\ row.job = edit[t].job /\ row.time = edit[t].time
        BY <1>2, <4>1 DEF EditSteps
      <4>3. /\ active' \in [Jobs -> Times \cup {NoTime}] /\ parked' \in [Jobs -> Times \cup {NoTime}]
            /\ active'[j] # NoTime /\ \A i \in Jobs \ {j} : active'[i] = active[i]
        BY <1>0, <3>3, <4>1
      <4>4. \A i \in Jobs : AsWritten(i)' \/ i = j
        BY <3>1, <4>3 DEF AsWritten
      <4> QED BY <1>0, <2>1, <3>1, <4>2, <4>3, <4>4, OneEditMoves DEF Between
    <3> QED BY <3>2, <3>3
  <2>5. ASSUME edit[t].at \in {"load", "load again"}, Bootstrap(j), UNCHANGED <<active, parked, table, clung>>,
               NEW at \in {"read", "write"}, Go(t, at), at = "write" => edit[t].time \in Times
        PROVE  ScheduleInv'
    <3>1. active[j] # NoTime
      BY <2>1, <2>5 DEF ScheduleInv, EditsInOrder, Between
    <3>2. /\ loaded' \in [Jobs -> Times \cup {NoTime}] /\ told' \in [Jobs -> {"done", "failed"}]
          /\ AsWritten(j)'
          /\ \A i \in Jobs \ {j} : loaded'[i] = loaded[i] /\ told'[i] = told[i]
      BY <2>5, <3>1, BootstrapEffect
    <3>0. at \in EditSteps
      BY <2>5 DEF EditSteps
    <3>3. PICK row \in EditRow : /\ edit' = [edit EXCEPT ![t] = row] /\ row.at = at
                                 /\ row.job = edit[t].job /\ row.time = edit[t].time
      BY <1>2, <2>5, <3>0, Zenon
    <3>4. \A i \in Jobs : AsWritten(i)'
      BY <1>1, <2>1, <2>5, <3>2 DEF AsWritten
    <3> QED BY <1>0, <2>1, <2>5, <3>2, <3>3, <3>4, OneEditMoves DEF Between
  <2>6. CASE Load(t)
    BY <1>3, <2>1, <2>5, <2>6 DEF Load, Doing
  <2>7. CASE LoadAgain(t)
    BY <2>1, <2>5, <2>7 DEF LoadAgain, Doing
  <2>8. CASE Write(t)
    <3>1. edit[t].at = "write" /\ UNCHANGED <<loaded, table, told, clung>> /\ \A i \in Jobs : AsWritten(i)
      BY <1>1, <2>8 DEF Write, Doing, Between
    <3>2. edit[t].time \in Times
      BY <3>1 DEF ScheduleInv, EditsAreOf
    <3>3. CASE active[j] # NoTime
      <4>1. active' = [active EXCEPT ![j] = edit[t].time] /\ Go(t, "unload again") /\ UNCHANGED parked
        BY <2>1, <2>8, <3>3 DEF Write
      <4>2. PICK row \in EditRow : /\ edit' = [edit EXCEPT ![t] = row] /\ row.at = "unload again"
                                   /\ row.job = edit[t].job /\ row.time = edit[t].time
        BY <1>2, <4>1 DEF EditSteps
      <4>3. /\ active' \in [Jobs -> Times \cup {NoTime}] /\ active'[j] # NoTime
            /\ \A i \in Jobs \ {j} : active'[i] = active[i]
        BY <1>0, <3>2, <4>1, ScheduleAssumption
      <4>4. \A i \in Jobs : AsWritten(i)' \/ i = j
        BY <3>1, <4>3 DEF AsWritten
      <4> QED BY <1>0, <2>1, <3>1, <4>1, <4>2, <4>3, <4>4, OneEditMoves DEF Between
    <3>4. CASE active[j] = NoTime
      <4>1. /\ parked' = IF parked[j] # NoTime THEN [parked EXCEPT ![j] = edit[t].time] ELSE parked
            /\ Go(t, "read") /\ UNCHANGED active
        BY <2>1, <2>8, <3>4 DEF Write
      <4>2. PICK row \in EditRow : /\ edit' = [edit EXCEPT ![t] = row] /\ row.at = "read"
                                   /\ row.job = edit[t].job /\ row.time = edit[t].time
        BY <1>2, <4>1 DEF EditSteps
      <4>3. parked' \in [Jobs -> Times \cup {NoTime}]
        BY <1>0, <3>2, <4>1
      <4>4. \A i \in Jobs : AsWritten(i)'
        BY <3>1, <4>1 DEF AsWritten
      <4> QED BY <1>0, <2>1, <3>1, <4>1, <4>2, <4>3, <4>4, OneEditMoves DEF Between
    <3> QED BY <3>3, <3>4
  <2>9. CASE UnloadAgain(t)
    <3>1. /\ edit[t].at = "unload again" /\ UNCHANGED <<active, parked, table, told>>
          /\ Unload(j) /\ Go(t, "load again")
      BY <2>1, <2>9 DEF UnloadAgain, Doing
    <3>2. active[j] # NoTime
      BY <2>1, <3>1 DEF ScheduleInv, EditsInOrder, Between
    <3>3. PICK row \in EditRow : /\ edit' = [edit EXCEPT ![t] = row] /\ row.at = "load again"
                                 /\ row.job = edit[t].job /\ row.time = edit[t].time
      BY <1>2, <3>1 DEF EditSteps
    <3>4. /\ loaded' \in [Jobs -> Times \cup {NoTime}] /\ clung' \in SUBSET Jobs
          /\ \A i \in Jobs \ {j} : loaded'[i] = loaded[i] /\ (i \in clung' <=> i \in clung)
      BY <3>1, UnloadEffect
    <3>5. \A i \in Jobs : AsWritten(i)' \/ i = j
      BY <1>1, <2>1, <3>1, <3>4 DEF AsWritten
    <3> QED BY <1>0, <2>1, <3>1, <3>2, <3>3, <3>4, <3>5, OneEditMoves DEF Between
  <2>10. ~ReadTable(t)
    BY <1>7 DEF ReadTable, Doing
  <2> QED BY <1>7, <2>2, <2>3, <2>4, <2>6, <2>7, <2>8, <2>9, <2>10 DEF EditStep
<1>8. edit[t].at \notin {"idle", "read"} \/ ReadTable(t) \/ ConsoleEnds(t)
  BY DEF EditStep, Disable, Park, Enable, Load, Write, UnloadAgain, LoadAgain, Doing
<1> QED BY <1>5, <1>6, <1>7, <1>8

\* The operator begins.
LEMMA BeginScheduleInv ==
  ASSUME OneEditor, ScheduleInv, NEW t \in Editors, NewJob(t) \/ \E j \in Jobs : Toggle(t, j) \/ Save(t, j)
  PROVE  ScheduleInv'
<1>0. /\ ScheduleTypeOK /\ edit \in [Editors -> EditRow] /\ edit[t] \in EditRow
  BY DEF ScheduleInv, ScheduleTypeOK
<1>1. edit[t].at = "idle" /\ UNCHANGED <<active, parked, loaded, table, told, clung>>
  BY DEF NewJob, Toggle, Save, StartEdit, Editing, agentVars
<1>2. \A i \in Jobs : AsWritten(i)'
  <2>1. \A i \in Jobs : AsWritten(i)
    BY <1>1 DEF OneEditor, ScheduleInv, EditsInOrder, Between
  <2> QED BY <1>1, <2>1 DEF AsWritten
<1>3. ASSUME NEW row \in EditRow, edit' = [edit EXCEPT ![t] = row], row.at \notin Between \cup {"idle"},
             row.at # "read" => row.job \in Jobs, row.at = "write" => row.time \in Times
      PROVE  ScheduleInv'
  BY <1>0, <1>1, <1>2, <1>3, OneEditMoves DEF Between, ScheduleTypeOK
<1>4. CASE NewJob(t)
  <2> DEFINE row == [edit[t] EXCEPT !.at = "read"]
  <2>1. row \in EditRow /\ row.at = "read"
    BY <1>0 DEF EditRow, EditSteps
  <2>2. edit' = [edit EXCEPT ![t] = row]
    BY <1>4 DEF NewJob
  <2> HIDE DEF row
  <2> QED BY <1>3, <2>1, <2>2 DEF Between
<1>5. ASSUME NEW j \in Jobs, NEW turn \in BOOLEAN, NEW time \in Times \cup {NoTime}, StartEdit(t, j, turn, time),
             time = NoTime => turn
      PROVE  ScheduleInv'
  <2> DEFINE at == IF ~turn THEN "write" ELSE IF table[t][j].enabled THEN "disable" ELSE "enable"
             row == [at |-> at, job |-> j, time |-> time]
  <2>1. at \in {"write", "disable", "enable"} /\ (at = "write" => time \in Times)
    BY <1>5
  <2>2. edit' = [edit EXCEPT ![t] = row]
    BY <1>5 DEF StartEdit
  <2> HIDE DEF at
  <2>3. row \in EditRow /\ row.at = at /\ row.job = j /\ row.time = time
    BY <1>5, <2>1 DEF EditRow, EditSteps
  <2> HIDE DEF row
  <2> QED BY <1>3, <2>1, <2>2, <2>3 DEF Between
<1>6. ASSUME NEW j \in Jobs, Toggle(t, j) \/ Save(t, j) PROVE ScheduleInv'
  <2>1. CASE Toggle(t, j)
    BY <1>5, <2>1 DEF Toggle
  <2>2. CASE Save(t, j)
    BY <1>5, <2>2, ScheduleAssumption DEF Save
  <2> QED BY <1>6, <2>1, <2>2
<1> QED BY <1>4, <1>6

\* Between edits the machine starts anew, or the jobs are installed anew.
LEMMA OtherScheduleInv ==
  ASSUME OneEditor, ScheduleInv, Reboot \/ Install
  PROVE  ScheduleInv'
<1>0. /\ ScheduleTypeOK /\ active \in [Jobs -> Times \cup {NoTime}] /\ parked \in [Jobs -> Times \cup {NoTime}]
      /\ loaded \in [Jobs -> Times \cup {NoTime}] /\ told \in [Jobs -> {"done", "failed"}]
      /\ clung \in SUBSET Jobs /\ table \in [Editors -> JobTable] /\ edit \in [Editors -> EditRow]
  BY DEF ScheduleInv, ScheduleTypeOK
<1>1. CASE Reboot
  <2>1. ScheduleTypeOK'
    BY <1>0, <1>1, NoJobsTyped, NoEditTyped DEF Reboot, ScheduleTypeOK
  <2>2. EditsInOrder' /\ EditsAreOf'
    BY <1>0, <1>1, NoEditTyped DEF Reboot, EditsInOrder, EditsAreOf, AsWritten, Between
  <2> QED BY <2>1, <2>2 DEF ScheduleInv
<1>2. CASE Install
  <2>1. PICK did \in SUBSET Jobs, broken \in SUBSET Jobs, stuck \in SUBSET Jobs :
          /\ stuck \in SUBSET broken /\ did \cap broken = {}
          /\ active' = [j \in Jobs |-> IF j \in did \cup broken THEN Default ELSE active[j]]
          /\ loaded' = [j \in Jobs |-> IF j \in did THEN Default
                                       ELSE IF j \in broken \ stuck THEN NoTime ELSE loaded[j]]
          /\ clung' = (clung \ (did \cup broken)) \cup stuck
          /\ told' = [j \in Jobs |-> IF j \in did THEN "done" ELSE IF j \in broken THEN "failed" ELSE told[j]]
    <3>1. PICK did \in SUBSET Jobs : \E broken \in SUBSET Jobs :
            /\ IF broken = {} THEN did = Jobs ELSE \E j \in Jobs \ did : broken = {j}
            /\ active' = [j \in Jobs |-> IF j \in did \cup broken THEN Default ELSE active[j]]
            /\ \E stuck \in SUBSET {j \in broken : loaded[j] # NoTime} :
                 /\ loaded' = [j \in Jobs |-> IF j \in did THEN Default
                                              ELSE IF j \in broken \ stuck THEN NoTime ELSE loaded[j]]
                 /\ clung' = (clung \ (did \cup broken)) \cup stuck
            /\ told' = [j \in Jobs |-> IF j \in did THEN "done" ELSE IF j \in broken THEN "failed" ELSE told[j]]
      BY <1>2, Zenon DEF Install
    <3>2. PICK broken \in SUBSET Jobs :
            /\ IF broken = {} THEN did = Jobs ELSE \E j \in Jobs \ did : broken = {j}
            /\ active' = [j \in Jobs |-> IF j \in did \cup broken THEN Default ELSE active[j]]
            /\ \E stuck \in SUBSET {j \in broken : loaded[j] # NoTime} :
                 /\ loaded' = [j \in Jobs |-> IF j \in did THEN Default
                                              ELSE IF j \in broken \ stuck THEN NoTime ELSE loaded[j]]
                 /\ clung' = (clung \ (did \cup broken)) \cup stuck
            /\ told' = [j \in Jobs |-> IF j \in did THEN "done" ELSE IF j \in broken THEN "failed" ELSE told[j]]
      BY <3>1, Zenon
    <3>3. PICK stuck \in SUBSET {j \in broken : loaded[j] # NoTime} :
                 /\ loaded' = [j \in Jobs |-> IF j \in did THEN Default
                                              ELSE IF j \in broken \ stuck THEN NoTime ELSE loaded[j]]
                 /\ clung' = (clung \ (did \cup broken)) \cup stuck
      BY <3>2, Zenon
    <3>4. did \cap broken = {} /\ stuck \in SUBSET broken /\ stuck \in SUBSET Jobs
      BY <3>2
    <3> QED BY <3>2, <3>3, <3>4, Zenon
  <2>2. UNCHANGED <<parked, table, edit>> /\ \A t \in Editors : edit[t].at = "idle"
    BY <1>2 DEF Install, Editing
  <2>3. /\ active' \in [Jobs -> Times \cup {NoTime}] /\ loaded' \in [Jobs -> Times \cup {NoTime}]
        /\ told' \in [Jobs -> {"done", "failed"}] /\ clung' \in SUBSET Jobs
    BY <1>0, <2>1, ScheduleAssumption
  <2>4. ScheduleTypeOK'
    BY <1>0, <2>2, <2>3 DEF ScheduleTypeOK
  <2>5. ASSUME NEW i \in Jobs PROVE AsWritten(i)'
    <3>1. AsWritten(i)
      BY <2>2 DEF ScheduleInv, EditsInOrder, Between
    <3>2. CASE i \in did
      BY <2>1, <3>2 DEF AsWritten
    <3>3. CASE i \in broken
      BY <2>1, <3>3, ScheduleAssumption DEF AsWritten
    <3>4. CASE i \notin did \cup broken
      BY <2>1, <3>1, <3>4 DEF AsWritten
    <3> QED BY <3>2, <3>3, <3>4
  <2>6. EditsInOrder' /\ EditsAreOf'
    BY <2>2, <2>5 DEF EditsInOrder, EditsAreOf, Between
  <2> QED BY <2>4, <2>6 DEF ScheduleInv
<1> QED BY <1>1, <1>2

LEMMA NextScheduleInv ==
  ASSUME OneEditor, ScheduleInv, [ScheduleNext]_scheduleVars
  PROVE  ScheduleInv'
<1>1. CASE UNCHANGED scheduleVars
  BY <1>1 DEF scheduleVars, agentVars, ScheduleInv, ScheduleTypeOK, EditsAreOf, EditsInOrder, AsWritten
<1> QED BY <1>1, StepScheduleInv, BeginScheduleInv, OtherScheduleInv DEF ScheduleNext

\* With one console the files, the loaded jobs, the table and the edit are what they
\* are declared to be; outside an edit of it a job that is on is loaded at the time
\* its file says or its last operation was reported as failed, and a job that is off
\* is not loaded or a bootout of it failed: for every number of jobs and times,
\* whichever calls of launchctl fail or take too long, and whenever the machine
\* starts or the jobs are installed anew.
THEOREM OneEditorIsObeyed ==
  ASSUME OneEditor
  PROVE  ScheduleInit /\ [][ScheduleNext]_scheduleVars => [](ScheduleTypeOK /\ LoadedRunsAsWritten)
<1>1. ScheduleInv /\ [ScheduleNext]_scheduleVars => ScheduleInv'
  BY NextScheduleInv
<1>2. ScheduleInv => ScheduleTypeOK /\ LoadedRunsAsWritten
  BY DEF ScheduleInv, EditsInOrder, LoadedRunsAsWritten, AsWritten, Between, Editing
<1> QED BY <1>1, <1>2, InitScheduleInv, PTL

-----------------------------------------------------------------------------
(* The owners of a company.                                                *)
KindSet == {Kinds[i] : i \in DOMAIN Kinds}
Counts == Nat \union {Nothing}
KeptRows == [entries : Counts, at : Nat]
Asking == {"look", "ask", "keep"}
PageRows == [at : Asking \union {"closed", "shown", "failed"}, step : Nat, row : KeptRows \union {NoAnswer},
             got : Counts, answer : Seq(Counts), stale : BOOLEAN, began : Nat]

OwnershipTypeOK ==
  /\ now \in Nat /\ opens \in Nat /\ quota \in BOOLEAN /\ mapped \in BOOLEAN
  /\ filed \in [KindSet -> Seq(Nat)]
  /\ kept \in [KindSet -> KeptRows \union {NoAnswer}]
  /\ page \in [Pages -> PageRows]

\* A count of a kind has in it what was filed long enough before a time.
Counted(f, k, count, t) == count # Nothing => \A n \in DOMAIN f[k] : f[k][n] + 1 < t => n <= count
RowInv(row, k, f, t) == row # NoAnswer => row.at <= t /\ Counted(f, k, row.entries, row.at)
FirstCovers(r, f) ==
  r.answer[1] # Nothing => \A n \in DOMAIN f["changes"] : f["changes"][n] + KeepFor + 1 <= r.began => n <= r.answer[1]
\* A page, the filings and the time: what it asks for is of its step, and what it has of the changes covers them.
PageInv(r, f, t) ==
  /\ r.at \in Asking => r.began <= t /\ t <= r.began + 1 /\ r.step \in 1..Len(Kinds) /\ Len(r.answer) + 1 = r.step
  /\ r.at = "keep" => Counted(f, Kinds[r.step], r.got, r.began + 1)
  /\ r.at = "shown" => r.began <= t /\ Len(r.answer) \in Nat \ {0}
  /\ (r.at = "shown" \/ (r.at \in Asking /\ r.step > 1)) /\ ~r.stale => FirstCovers(r, f)

OwnershipInv ==
  /\ OwnershipTypeOK
  /\ \A k \in KindSet : \A n \in DOMAIN filed[k] : filed[k][n] <= now
  /\ \A k \in KindSet : RowInv(kept[k], k, filed, now)
  /\ \A p \in Pages : PageInv(page[p], filed, now)

\* A kind of a step is one of the kinds.
LEMMA StepHasKind ==
  /\ "changes" \in KindSet
  /\ \A i \in 1..Len(Kinds) : Kinds[i] \in KindSet
BY OwnershipAssumption DEF KindSet

LEMMA InitOwnershipInv == OwnershipInit => OwnershipInv
<1> SUFFICES ASSUME OwnershipInit PROVE OwnershipInv
  OBVIOUS
<1>1. Closed \in PageRows /\ Closed.at = "closed"
  BY DEF Closed, PageRows, Asking, KeptRows, Counts
<1>2. /\ filed \in [KindSet -> Seq(Nat)] /\ \A k \in KindSet : filed[k] = << >>
      /\ kept \in [KindSet -> KeptRows \union {NoAnswer}] /\ \A k \in KindSet : kept[k] = NoAnswer
  BY DEF OwnershipInit, KindSet
<1>3. page \in [Pages -> PageRows] /\ \A p \in Pages : page[p] = Closed
  BY <1>1 DEF OwnershipInit
<1>4. \A p \in Pages : PageInv(page[p], filed, now)
  BY <1>1, <1>3 DEF PageInv, Asking
<1>5. \A k \in KindSet : RowInv(kept[k], k, filed, now)
  BY <1>2 DEF RowInv
<1>6. \A k \in KindSet : \A n \in DOMAIN filed[k] : filed[k][n] <= now
  BY <1>2
<1>7. OwnershipTypeOK
  BY <1>2, <1>3 DEF OwnershipInit, OwnershipTypeOK
<1> QED BY <1>4, <1>5, <1>6, <1>7 DEF OwnershipInv

\* Filings that come now are none of those that had to be counted.
LEMMA LaterFilings ==
  ASSUME NEW f \in [KindSet -> Seq(Nat)], NEW g \in [KindSet -> Seq(Nat)], NEW t \in Nat,
         \A k \in KindSet : \A n \in DOMAIN g[k] : (n \in DOMAIN f[k] /\ g[k][n] = f[k][n]) \/ g[k][n] = t
  PROVE  /\ \A k \in KindSet : \A row \in KeptRows \union {NoAnswer} : RowInv(row, k, f, t) => RowInv(row, k, g, t)
         /\ \A r \in PageRows : PageInv(r, f, t) => PageInv(r, g, t)
<1>1. \A k \in KindSet : \A n \in DOMAIN g[k] : g[k][n] \in Nat
  OBVIOUS
<1>2. \A k \in KindSet : \A count \in Counts : \A s \in Nat : s <= t + 1 /\ Counted(f, k, count, s) => Counted(g, k, count, s)
  <2> SUFFICES ASSUME NEW k \in KindSet, NEW count \in Nat, NEW s \in Nat, s <= t + 1, count # Nothing,
                      \A n \in DOMAIN f[k] : f[k][n] + 1 < s => n <= count
               PROVE  \A n \in DOMAIN g[k] : g[k][n] + 1 < s => n <= count
    BY DEF Counted, Counts
  <2> SUFFICES ASSUME NEW n \in DOMAIN g[k], g[k][n] + 1 < s PROVE n <= count
    OBVIOUS
  <2>1. (n \in DOMAIN f[k] /\ g[k][n] = f[k][n]) \/ g[k][n] = t
    OBVIOUS
  <2>2. g[k][n] # t
    BY <1>1
  <2> QED BY <2>1, <2>2
<1>3. ASSUME NEW k \in KindSet, NEW row \in KeptRows \union {NoAnswer}, RowInv(row, k, f, t) PROVE RowInv(row, k, g, t)
  BY <1>2, <1>3 DEF RowInv, KeptRows
<1>4. ASSUME NEW r \in PageRows, PageInv(r, f, t) PROVE PageInv(r, g, t)
  <2>1. r.began \in Nat /\ r.got \in Counts
    BY DEF PageRows
  <2>2. r.at = "keep" => Counted(g, Kinds[r.step], r.got, r.began + 1)
    <3> SUFFICES ASSUME r.at = "keep" PROVE Counted(g, Kinds[r.step], r.got, r.began + 1)
      OBVIOUS
    <3>1. r.step \in 1..Len(Kinds) /\ r.began <= t /\ Counted(f, Kinds[r.step], r.got, r.began + 1)
      BY <1>4 DEF PageInv, Asking
    <3>2. Kinds[r.step] \in KindSet
      BY <3>1, StepHasKind
    <3> QED BY <1>2, <2>1, <3>1, <3>2
  <2>3. r.began <= t /\ FirstCovers(r, f) => FirstCovers(r, g)
    <3> SUFFICES ASSUME r.began <= t, FirstCovers(r, f), r.answer[1] # Nothing,
                        NEW n \in DOMAIN g["changes"], g["changes"][n] + KeepFor + 1 <= r.began
                 PROVE  n <= r.answer[1]
      BY DEF FirstCovers
    <3>1. (n \in DOMAIN f["changes"] /\ g["changes"][n] = f["changes"][n]) \/ g["changes"][n] = t
      BY StepHasKind
    <3>2. g["changes"][n] # t
      <4>1. g["changes"][n] \in Nat /\ KeepFor \in Nat
        BY <1>1, StepHasKind, OwnershipAssumption
      <4> QED BY <2>1, <4>1
    <3> QED BY <3>1, <3>2 DEF FirstCovers
  <2> QED BY <1>4, <2>2, <2>3 DEF PageInv
<1> QED BY <1>3, <1>4

\* What Answered makes of a page.
AnsweredRow(r, entries, stale) ==
  [r EXCEPT !.answer = Append(@, entries), !.stale = @ \/ (stale /\ Kinds[r.step] = "changes"),
            !.row = NoAnswer, !.step = @ + 1, !.at = IF r.step = Len(Kinds) THEN "shown" ELSE "look"]

\* A page that has been answered: its first answer covers the changes unless it is said to be stale.
LEMMA AnsweredPage ==
  ASSUME NEW r \in PageRows, NEW f, NEW t \in Nat, PageInv(r, f, t), r.at \in Asking,
         NEW entries \in Counts, NEW stale \in BOOLEAN, NEW r2, r2 = AnsweredRow(r, entries, stale),
         r.step = 1 /\ ~stale /\ entries # Nothing =>
           \A n \in DOMAIN f["changes"] : f["changes"][n] + KeepFor + 1 <= r.began => n <= entries
  PROVE  r2 \in PageRows /\ PageInv(r2, f, t)
<1>1. /\ r.answer \in Seq(Counts) /\ r.step \in Nat /\ r.began \in Nat /\ r.stale \in BOOLEAN
      /\ Len(r.answer) + 1 = r.step /\ r.step \in 1..Len(Kinds) /\ r.began <= t /\ t <= r.began + 1
      /\ Len(Kinds) \in Nat
  BY OwnershipAssumption DEF PageRows, PageInv
<1>2. /\ r2.answer = Append(r.answer, entries) /\ r2.step = r.step + 1 /\ r2.row = NoAnswer /\ r2.began = r.began
      /\ r2.stale = (r.stale \/ (stale /\ Kinds[r.step] = "changes"))
      /\ r2.at = IF r.step = Len(Kinds) THEN "shown" ELSE "look"
      /\ r2.got = r.got
  BY DEF PageRows, AnsweredRow
<1>3. r2 \in PageRows
  <2>1. /\ Append(r.answer, entries) \in Seq(Counts) /\ r.step + 1 \in Nat /\ r2.stale \in BOOLEAN
        /\ r2.at \in {"look", "shown"}
    BY <1>1, <1>2
  <2>2. r2 = [at |-> r2.at, step |-> r2.step, row |-> NoAnswer, got |-> r.got, answer |-> r2.answer, stale |-> r2.stale, began |-> r.began]
    BY <1>2 DEF PageRows, AnsweredRow
  <2> HIDE DEF KeptRows, Counts
  <2> QED BY <1>1, <1>2, <2>1, <2>2 DEF PageRows, Asking
<1>4. /\ Len(r2.answer) = r.step
      /\ r2.answer[r.step] = entries
      /\ r.step > 1 => r2.answer[1] = r.answer[1]
  BY <1>1, <1>2
<1>5. ASSUME ~r2.stale PROVE FirstCovers(r2, f)
  <2>1. CASE r.step = 1
    BY <1>2, <1>4, <1>5, <2>1, OwnershipAssumption DEF FirstCovers
  <2>2. CASE r.step > 1
    <3>1. FirstCovers(r, f)
      BY <1>2, <1>5, <2>2 DEF PageInv
    <3> QED BY <1>2, <1>4, <2>2, <3>1 DEF FirstCovers
  <2> QED BY <1>1, <2>1, <2>2
<1> QED BY <1>1, <1>2, <1>3, <1>4, <1>5 DEF PageInv, Asking

\* A step that concerns a page and nothing else.
LEMMA OnePageStep ==
  ASSUME OwnershipInv, NEW p \in Pages, NEW r \in PageRows, PageInv(r, filed, now),
         page' \in [Pages -> PageRows], page'[p] = r, \A q \in Pages \ {p} : page'[q] = page[q],
         UNCHANGED <<now, filed, quota, mapped, kept>>, opens' \in Nat
  PROVE  OwnershipInv'
<1>1. \A q \in Pages : PageInv(page'[q], filed', now')
  BY DEF OwnershipInv
<1>2. OwnershipTypeOK'
  BY DEF OwnershipInv, OwnershipTypeOK
<1> HIDE DEF RowInv, PageInv
<1> QED BY <1>1, <1>2 DEF OwnershipInv

LEMMA TickOwnershipInv == OwnershipInv /\ Tick => OwnershipInv'
<1> SUFFICES ASSUME OwnershipInv, Tick PROVE OwnershipInv'
  OBVIOUS
<1>1. now \in Nat /\ now' = now + 1 /\ now' \in Nat /\ UNCHANGED <<filed, kept, page>>
  BY DEF OwnershipInv, OwnershipTypeOK, Tick
<1>2. OwnershipTypeOK'
  BY <1>1 DEF OwnershipInv, OwnershipTypeOK, Tick
<1>3. ASSUME NEW k \in KindSet PROVE RowInv(kept'[k], k, filed', now') /\ \A n \in DOMAIN filed'[k] : filed'[k][n] <= now'
  <2>1. kept[k] = NoAnswer \/ kept[k].at \in Nat
    BY DEF OwnershipInv, OwnershipTypeOK, KeptRows
  <2>2. \A n \in DOMAIN filed[k] : filed[k][n] \in Nat
    BY DEF OwnershipInv, OwnershipTypeOK
  <2>3. RowInv(kept[k], k, filed, now) /\ \A n \in DOMAIN filed[k] : filed[k][n] <= now
    BY DEF OwnershipInv
  <2> QED BY <1>1, <2>1, <2>2, <2>3 DEF RowInv
<1>4. ASSUME NEW p \in Pages PROVE PageInv(page'[p], filed', now')
  <2>1. page[p].began \in Nat /\ PageInv(page[p], filed, now)
    BY DEF OwnershipInv, OwnershipTypeOK, PageRows
  <2>2. page[p].at \in {"closed", "shown", "failed"} \/ page[p].began = now
    BY DEF Tick
  <2> QED BY <1>1, <2>1, <2>2 DEF PageInv, Asking
<1> QED BY <1>2, <1>3, <1>4 DEF OwnershipInv

LEMMA FileOwnershipInv == ASSUME OwnershipInv, NEW k \in DOMAIN filed, File(k) PROVE OwnershipInv'
<1>1. /\ k \in KindSet /\ now \in Nat /\ filed \in [KindSet -> Seq(Nat)] /\ page \in [Pages -> PageRows]
      /\ kept \in [KindSet -> KeptRows \union {NoAnswer}]
  BY DEF OwnershipInv, OwnershipTypeOK
<1>2. UNCHANGED <<now, quota, mapped, kept, opens, page>> /\ filed' = [filed EXCEPT ![k] = Append(filed[k], now)]
  BY DEF File
<1>3. filed' \in [KindSet -> Seq(Nat)] /\ filed'[k] = Append(filed[k], now) /\ \A j \in KindSet \ {k} : filed'[j] = filed[j]
  BY <1>1, <1>2
<1>4. \A j \in KindSet : \A n \in DOMAIN filed'[j] : (n \in DOMAIN filed[j] /\ filed'[j][n] = filed[j][n]) \/ filed'[j][n] = now
  <2> SUFFICES ASSUME NEW j \in KindSet, NEW n \in DOMAIN filed'[j]
               PROVE  (n \in DOMAIN filed[j] /\ filed'[j][n] = filed[j][n]) \/ filed'[j][n] = now
    OBVIOUS
  <2>1. CASE j = k
    <3>1. PICK old \in Seq(Nat) : old = filed[k]
      BY <1>1
    <3>2. \A i \in DOMAIN Append(old, now) : (i \in DOMAIN old /\ Append(old, now)[i] = old[i]) \/ Append(old, now)[i] = now
      BY <1>1
    <3> QED BY <1>3, <2>1, <3>1, <3>2
  <2> QED BY <1>3, <2>1
<1>5. \A j \in KindSet : \A n \in DOMAIN filed'[j] : filed'[j][n] <= now
  <2>1. (\A j \in KindSet : \A n \in DOMAIN filed[j] : filed[j][n] <= now) /\ now <= now
    BY <1>1 DEF OwnershipInv
  <2> QED BY <1>4, <2>1
<1>6. PICK g \in [KindSet -> Seq(Nat)] : g = filed'
  BY <1>3
<1>7. /\ \A j \in KindSet : \A row \in KeptRows \union {NoAnswer} : RowInv(row, j, filed, now) => RowInv(row, j, g, now)
      /\ \A r \in PageRows : PageInv(r, filed, now) => PageInv(r, g, now)
  BY <1>1, <1>4, <1>6, LaterFilings
<1>8. (\A j \in KindSet : RowInv(kept[j], j, g, now)) /\ \A p \in Pages : PageInv(page[p], g, now)
  BY <1>1, <1>7 DEF OwnershipInv
<1>9. OwnershipTypeOK'
  BY <1>2, <1>3 DEF OwnershipInv, OwnershipTypeOK
<1> HIDE DEF RowInv, PageInv
<1> QED BY <1>2, <1>5, <1>6, <1>8, <1>9 DEF OwnershipInv

LEMMA OpenOwnershipInv == ASSUME OwnershipInv, NEW p \in Pages, OpenPage(p) PROVE OwnershipInv'
<1>1. now \in Nat /\ opens \in Nat /\ page \in [Pages -> PageRows]
  BY DEF OwnershipInv, OwnershipTypeOK
<1> DEFINE r == [Closed EXCEPT !.at = "look", !.began = now]
<1>2. r \in PageRows /\ r.at = "look" /\ r.step = 1 /\ r.began = now /\ r.answer = << >>
  <2>1. Closed \in PageRows /\ Closed.step = 1 /\ Closed.answer = << >>
    BY DEF Closed, PageRows, Asking, KeptRows, Counts
  <2>2. PICK c \in PageRows : c = Closed
    BY <2>1
  <2>3. r = [c EXCEPT !.at = "look", !.began = now]
    BY <2>2
  <2> HIDE DEF r, Counts, KeptRows
  <2> QED BY <1>1, <2>1, <2>2, <2>3 DEF PageRows, Asking
<1>3. PageInv(r, filed, now)
  BY <1>1, <1>2, OwnershipAssumption DEF PageInv, Asking
<1>4. page' = [page EXCEPT ![p] = r] /\ UNCHANGED <<now, filed, quota, mapped, kept>> /\ opens' \in Nat
  BY <1>1 DEF OpenPage
<1> HIDE DEF r
<1>5. page' \in [Pages -> PageRows] /\ page'[p] = r /\ \A q \in Pages \ {p} : page'[q] = page[q]
  BY <1>1, <1>2, <1>4
<1> QED BY <1>2, <1>3, <1>4, <1>5, OnePageStep

\* A page has got an answer, from the cache or from DART.
LEMMA AnsweredStep ==
  ASSUME OwnershipInv, NEW p \in Pages, page[p].at \in Asking, NEW entries \in Counts, NEW stale \in BOOLEAN,
         page[p].step = 1 /\ ~stale /\ entries # Nothing =>
           \A n \in DOMAIN filed["changes"] : filed["changes"][n] + KeepFor + 1 <= page[p].began => n <= entries
  PROVE  Answered(p, entries, stale) \in PageRows /\ PageInv(Answered(p, entries, stale), filed, now)
<1>1. page[p] \in PageRows /\ PageInv(page[p], filed, now) /\ now \in Nat
  BY DEF OwnershipInv, OwnershipTypeOK
<1>2. PICK r \in PageRows : r = page[p]
  BY <1>1
<1>3. PICK r2 : r2 = Answered(p, entries, stale)
  OBVIOUS
<1>4. r2 = AnsweredRow(r, entries, stale)
  BY <1>2, <1>3 DEF Answered, AnsweredRow, KindOf
<1>5. r2 \in PageRows /\ PageInv(r2, filed, now)
  <2>1. PageInv(r, filed, now) /\ r.at \in Asking
    BY <1>1, <1>2
  <2>2. r.step = 1 /\ ~stale /\ entries # Nothing =>
           \A n \in DOMAIN filed["changes"] : filed["changes"][n] + KeepFor + 1 <= r.began => n <= entries
    BY <1>2
  <2> HIDE DEF PageInv, AnsweredRow, Asking
  <2> QED BY <1>1, <1>4, <2>1, <2>2, AnsweredPage, Zenon
<1> QED BY <1>3, <1>5

\* A page that asks DART.
LEMMA AskingPage ==
  ASSUME NEW r \in PageRows, NEW f, NEW t, PageInv(r, f, t), r.at = "look", NEW row \in KeptRows \union {NoAnswer}
  PROVE  [r EXCEPT !.at = "ask", !.row = row] \in PageRows /\ PageInv([r EXCEPT !.at = "ask", !.row = row], f, t)
<1> DEFINE r2 == [r EXCEPT !.at = "ask", !.row = row]
<1> HIDE DEF KeptRows, Counts
<1>1. /\ r2.at = "ask" /\ r2.began = r.began /\ r2.step = r.step /\ r2.answer = r.answer /\ r2.stale = r.stale
      /\ r2 \in PageRows
  BY DEF PageRows, Asking
<1> HIDE DEF r2
<1>2. PageInv(r2, f, t)
  BY <1>1 DEF PageInv, Asking, FirstCovers
<1> QED BY <1>1, <1>2 DEF r2

LEMMA LookOwnershipInv == ASSUME OwnershipInv, NEW p \in Pages, Look(p) PROVE OwnershipInv'
<1> DEFINE k == KindOf(p)
           row == kept[k]
<1>1. /\ now \in Nat /\ opens \in Nat /\ page \in [Pages -> PageRows] /\ page[p] \in PageRows
      /\ PageInv(page[p], filed, now) /\ page[p].at = "look"
  BY DEF OwnershipInv, OwnershipTypeOK, Look
<1>2. page[p].step \in 1..Len(Kinds) /\ page[p].began \in Nat /\ page[p].began <= now /\ now <= page[p].began + 1
  BY <1>1 DEF PageInv, Asking, PageRows
<1>3. k \in KindSet /\ row \in KeptRows \union {NoAnswer} /\ RowInv(row, k, filed, now)
  BY <1>2, StepHasKind DEF KindOf, OwnershipInv, OwnershipTypeOK
<1>4. page[p].step = 1 => k = "changes"
  BY OwnershipAssumption DEF KindOf
<1>5. UNCHANGED <<now, filed, quota, mapped, kept>> /\ opens' \in Nat
  BY <1>1 DEF Look
<1>6. \E r \in PageRows : PageInv(r, filed, now) /\ page' = [page EXCEPT ![p] = r]
  <2>1. CASE IsKept(row)
    <3>1. row.entries \in Counts /\ page' = [page EXCEPT ![p] = Answered(p, row.entries, FALSE)]
      BY <1>3, <2>1 DEF Look, IsKept, KeptRows
    <3>2. ASSUME page[p].step = 1, row.entries # Nothing
          PROVE  \A n \in DOMAIN filed["changes"] : filed["changes"][n] + KeepFor + 1 <= page[p].began => n <= row.entries
      <4>1. row.at \in Nat /\ row.at <= now /\ now - row.at < KeepFor /\ KeepFor \in Nat
        BY <1>3, <2>1, OwnershipAssumption DEF IsKept, KeptRows, RowInv
      <4>2. \A n \in DOMAIN filed[k] : filed[k][n] + 1 < row.at => n <= row.entries
        BY <1>3, <2>1, <3>2 DEF IsKept, RowInv, Counted
      <4>3. \A n \in DOMAIN filed[k] : filed[k][n] \in Nat
        BY <1>3 DEF OwnershipInv, OwnershipTypeOK
      <4>4. \A n \in DOMAIN filed[k] : filed[k][n] + KeepFor + 1 <= page[p].began => filed[k][n] + 1 < row.at
        BY <1>1, <1>2, <4>1, <4>3
      <4> QED BY <1>4, <3>2, <4>2, <4>4
    <3>3. page[p].at \in Asking
      BY <1>1 DEF Asking
    <3> HIDE DEF row, k
    <3>4. Answered(p, row.entries, FALSE) \in PageRows /\ PageInv(Answered(p, row.entries, FALSE), filed, now)
      BY <3>1, <3>2, <3>3, AnsweredStep
    <3> QED BY <3>1, <3>4
  <2>2. CASE ~IsKept(row) /\ ~mapped
    <3>1. Entries(row) \in Counts /\ page' = [page EXCEPT ![p] = Answered(p, Entries(row), TRUE)]
      BY <1>3, <2>2 DEF Look, Entries, KeptRows, Counts
    <3>2. page[p].at \in Asking
      BY <1>1 DEF Asking
    <3> HIDE DEF row, k
    <3>3. Answered(p, Entries(row), TRUE) \in PageRows /\ PageInv(Answered(p, Entries(row), TRUE), filed, now)
      BY <3>1, <3>2, AnsweredStep
    <3> QED BY <3>1, <3>3
  <2>3. CASE ~IsKept(row) /\ mapped
    <3> DEFINE r == [page[p] EXCEPT !.at = "ask", !.row = row]
    <3>1. page' = [page EXCEPT ![p] = r]
      BY <2>3 DEF Look
    <3> HIDE DEF row
    <3>2. r \in PageRows /\ PageInv(r, filed, now)
      BY <1>1, <1>3, AskingPage
    <3> QED BY <3>1, <3>2
  <2> QED BY <2>1, <2>2, <2>3
<1>7. PICK r \in PageRows : PageInv(r, filed, now) /\ page' = [page EXCEPT ![p] = r]
  BY <1>6
<1>8. page' \in [Pages -> PageRows] /\ page'[p] = r /\ \A q \in Pages \ {p} : page'[q] = page[q]
  BY <1>1, <1>7
<1> QED BY <1>5, <1>7, <1>8, OnePageStep

\* What is known of a page that asks or keeps, and of its kind.
LEMMA AskingFacts ==
  ASSUME OwnershipInv, NEW p \in Pages, page[p].at \in {"ask", "keep"}
  PROVE  /\ page \in [Pages -> PageRows] /\ page[p] \in PageRows /\ PageInv(page[p], filed, now)
         /\ page[p].at \in Asking /\ KindOf(p) \in KindSet /\ now \in Nat /\ opens \in Nat
         /\ page[p].step \in 1..Len(Kinds) /\ page[p].began \in Nat /\ page[p].began <= now /\ now <= page[p].began + 1
         /\ page[p].step = 1 => KindOf(p) = "changes"
         /\ Entries(page[p].row) \in Counts /\ page[p].got \in Counts
         /\ \A n \in DOMAIN filed[KindOf(p)] : filed[KindOf(p)][n] \in Nat
<1>1. /\ page \in [Pages -> PageRows] /\ page[p] \in PageRows /\ PageInv(page[p], filed, now)
      /\ page[p].at \in Asking /\ now \in Nat /\ opens \in Nat
  BY DEF OwnershipInv, OwnershipTypeOK, Asking
<1>2. page[p].step \in 1..Len(Kinds) /\ page[p].began \in Nat /\ page[p].began <= now /\ now <= page[p].began + 1
  BY <1>1 DEF PageInv, PageRows
<1>3. KindOf(p) \in KindSet /\ (page[p].step = 1 => KindOf(p) = "changes")
  BY <1>2, StepHasKind, OwnershipAssumption DEF KindOf
<1>4. Entries(page[p].row) \in Counts /\ page[p].got \in Counts
  BY <1>1 DEF PageRows, KeptRows, Counts, Entries
<1>5. \A n \in DOMAIN filed[KindOf(p)] : filed[KindOf(p)][n] \in Nat
  BY <1>3 DEF OwnershipInv, OwnershipTypeOK
<1> QED BY <1>1, <1>2, <1>3, <1>4, <1>5

\* A page that keeps an answer DART has just given, or that fails.
LEMMA GotPage ==
  ASSUME NEW r \in PageRows, NEW f, NEW t, PageInv(r, f, t), r.at \in Asking, NEW got \in Counts,
         Counted(f, Kinds[r.step], got, r.began + 1)
  PROVE  /\ [r EXCEPT !.at = "keep", !.got = got] \in PageRows /\ PageInv([r EXCEPT !.at = "keep", !.got = got], f, t)
         /\ [r EXCEPT !.at = "failed"] \in PageRows /\ PageInv([r EXCEPT !.at = "failed"], f, t)
<1> DEFINE r2 == [r EXCEPT !.at = "keep", !.got = got]
           r3 == [r EXCEPT !.at = "failed"]
<1> HIDE DEF KeptRows, Counts
<1>1. /\ r2.at = "keep" /\ r2.got = got /\ r2.began = r.began /\ r2.step = r.step /\ r2.answer = r.answer /\ r2.stale = r.stale
      /\ r2 \in PageRows
  BY DEF PageRows, Asking
<1>2. r3.at = "failed" /\ r3 \in PageRows
  BY DEF PageRows, Asking
<1> HIDE DEF r2, r3
<1>3. PageInv(r2, f, t)
  BY <1>1 DEF PageInv, Asking, FirstCovers
<1>4. PageInv(r3, f, t)
  BY <1>2 DEF PageInv, Asking
<1> QED BY <1>1, <1>2, <1>3, <1>4 DEF r2, r3

LEMMA AskOwnershipInv == ASSUME OwnershipInv, NEW p \in Pages, Ask(p) PROVE OwnershipInv'
<1>0. page[p].at \in {"ask", "keep"}
  BY DEF Ask
<1>1. /\ page \in [Pages -> PageRows] /\ page[p] \in PageRows /\ PageInv(page[p], filed, now)
      /\ page[p].at \in Asking /\ KindOf(p) \in KindSet /\ now \in Nat /\ opens \in Nat
      /\ page[p].began \in Nat /\ Entries(page[p].row) \in Counts
  BY <1>0, AskingFacts
<1>2. UNCHANGED <<now, filed, quota, mapped, kept>> /\ opens' \in Nat
  BY <1>1 DEF Ask
<1>3. PICK x \in PageRows : x = page[p] /\ PageInv(x, filed, now) /\ x.at \in Asking
  BY <1>1
<1>4. \E r \in PageRows : PageInv(r, filed, now) /\ page' = [page EXCEPT ![p] = r]
  <2>1. CASE page' = [page EXCEPT ![p] = OutOfQuota(p)]
    <3>1. Answered(p, Entries(page[p].row), TRUE) \in PageRows /\ PageInv(Answered(p, Entries(page[p].row), TRUE), filed, now)
      BY <1>1, AnsweredStep
    <3> QED BY <2>1, <3>1 DEF OutOfQuota
  <2>2. ASSUME NEW got \in Counts, page' = [page EXCEPT ![p].at = "keep", ![p].got = got],
               Counted(filed, KindOf(p), got, page[p].began + 1)
        PROVE  \E r \in PageRows : PageInv(r, filed, now) /\ page' = [page EXCEPT ![p] = r]
    <3> DEFINE r == [x EXCEPT !.at = "keep", !.got = got]
    <3>1. Counted(filed, Kinds[x.step], got, x.began + 1)
      BY <1>3, <2>2 DEF KindOf
    <3>2. r \in PageRows /\ PageInv(r, filed, now)
      BY <1>3, <3>1, GotPage
    <3>3. page' = [page EXCEPT ![p] = r]
      BY <1>1, <1>3, <2>2
    <3> QED BY <3>2, <3>3
  <2>3. CASE page' = [page EXCEPT ![p].at = "failed"]
    <3> DEFINE r == [x EXCEPT !.at = "failed"]
    <3>1. Nothing \in Counts /\ Counted(filed, Kinds[x.step], Nothing, x.began + 1)
      BY DEF Counts, Counted
    <3>2. r \in PageRows /\ PageInv(r, filed, now)
      BY <1>3, <3>1, GotPage
    <3>3. page' = [page EXCEPT ![p] = r]
      BY <1>1, <1>3, <2>3
    <3> QED BY <3>2, <3>3
  <2>4. Latest(KindOf(p)) \in Counts /\ Counted(filed, KindOf(p), Latest(KindOf(p)), page[p].began + 1)
    <3>1. filed[KindOf(p)] \in Seq(Nat)
      BY <1>1 DEF OwnershipInv, OwnershipTypeOK
    <3> QED BY <3>1 DEF Latest, Counts, Counted
  <2>5. Nothing \in Counts /\ Counted(filed, KindOf(p), Nothing, page[p].began + 1)
    BY DEF Counts, Counted
  <2>6. \/ page' = [page EXCEPT ![p] = OutOfQuota(p)]
        \/ page' = [page EXCEPT ![p].at = "keep", ![p].got = Latest(KindOf(p))]
        \/ page' = [page EXCEPT ![p].at = "keep", ![p].got = Nothing]
        \/ page' = [page EXCEPT ![p].at = "failed"]
    BY DEF Ask
  <2> QED BY <2>1, <2>2, <2>3, <2>4, <2>5, <2>6
<1>5. PICK r \in PageRows : PageInv(r, filed, now) /\ page' = [page EXCEPT ![p] = r]
  BY <1>4
<1>6. page' \in [Pages -> PageRows] /\ page'[p] = r /\ \A q \in Pages \ {p} : page'[q] = page[q]
  BY <1>1, <1>5
<1> QED BY <1>2, <1>5, <1>6, OnePageStep

LEMMA KeepOwnershipInv == ASSUME OwnershipInv, NEW p \in Pages, Keep(p) PROVE OwnershipInv'
<1> DEFINE k == KindOf(p)
<1>0. page[p].at \in {"ask", "keep"} /\ page[p].at = "keep"
  BY DEF Keep
<1>1. /\ page \in [Pages -> PageRows] /\ page[p] \in PageRows /\ PageInv(page[p], filed, now)
      /\ page[p].at \in Asking /\ k \in KindSet /\ now \in Nat /\ opens \in Nat
      /\ page[p].began \in Nat /\ page[p].began <= now /\ now <= page[p].began + 1
      /\ page[p].step = 1 => k = "changes"
      /\ page[p].got \in Counts /\ \A n \in DOMAIN filed[k] : filed[k][n] \in Nat
  BY <1>0, AskingFacts
<1>2. UNCHANGED <<now, filed, quota, mapped, opens>>
  BY DEF Keep
<1>3. PICK x \in PageRows : x = page[p] /\ PageInv(x, filed, now) /\ x.at \in Asking
  BY <1>1
<1>4. Counted(filed, k, page[p].got, page[p].began + 1)
  BY <1>0, <1>1 DEF PageInv, KindOf
<1>5. CASE page[p].row = NoAnswer /\ kept[k] # NoAnswer
  <2> DEFINE r == [x EXCEPT !.at = "failed"]
  <2>1. Nothing \in Counts /\ Counted(filed, Kinds[x.step], Nothing, x.began + 1)
    BY DEF Counts, Counted
  <2>2. r \in PageRows /\ PageInv(r, filed, now)
    BY <1>3, <2>1, GotPage
  <2>3. page' = [page EXCEPT ![p] = r] /\ UNCHANGED kept
    BY <1>1, <1>3, <1>5 DEF Keep
  <2> HIDE DEF r
  <2>4. page' \in [Pages -> PageRows] /\ page'[p] = r /\ \A q \in Pages \ {p} : page'[q] = page[q]
    BY <1>1, <2>2, <2>3
  <2> QED BY <1>1, <1>2, <2>2, <2>3, <2>4, OnePageStep
<1>6. CASE ~(page[p].row = NoAnswer /\ kept[k] # NoAnswer)
  <2>1. kept' = [kept EXCEPT ![k] = [entries |-> page[p].got, at |-> now]] /\ page' = [page EXCEPT ![p] = Answered(p, page[p].got, FALSE)]
    BY <1>6 DEF Keep
  <2>2. ASSUME page[p].step = 1, page[p].got # Nothing
        PROVE  \A n \in DOMAIN filed["changes"] : filed["changes"][n] + KeepFor + 1 <= page[p].began => n <= page[p].got
    <3>1. \A n \in DOMAIN filed[k] : filed[k][n] + KeepFor + 1 <= page[p].began => filed[k][n] + 1 < page[p].began + 1
      BY <1>1, OwnershipAssumption
    <3> QED BY <1>1, <1>4, <2>2, <3>1 DEF Counted
  <2>3. Answered(p, page[p].got, FALSE) \in PageRows /\ PageInv(Answered(p, page[p].got, FALSE), filed, now)
    BY <1>1, <2>2, AnsweredStep
  <2>4. PICK r \in PageRows : PageInv(r, filed, now) /\ page' = [page EXCEPT ![p] = r]
    BY <2>1, <2>3
  <2>5. page' \in [Pages -> PageRows] /\ page'[p] = r /\ \A q \in Pages \ {p} : page'[q] = page[q]
    BY <1>1, <2>4
  <2>6. PICK row \in KeptRows : row = [entries |-> page[p].got, at |-> now]
    BY <1>1 DEF KeptRows
  <2>7. RowInv(row, k, filed, now)
    <3>1. \A n \in DOMAIN filed[k] : filed[k][n] + 1 < now => filed[k][n] + 1 < page[p].began + 1
      BY <1>1
    <3> QED BY <1>1, <1>4, <2>6, <3>1 DEF RowInv, Counted
  <2> HIDE DEF k
  <2>8. kept \in [KindSet -> KeptRows \union {NoAnswer}] /\ kept' = [kept EXCEPT ![k] = row]
    BY <2>1, <2>6 DEF OwnershipInv, OwnershipTypeOK
  <2>9. kept' \in [KindSet -> KeptRows \union {NoAnswer}] /\ kept'[k] = row /\ \A j \in KindSet \ {k} : kept'[j] = kept[j]
    BY <1>1, <2>8
  <2>10. \A j \in KindSet : RowInv(kept'[j], j, filed, now)
    BY <2>7, <2>9 DEF OwnershipInv
  <2>11. \A q \in Pages : PageInv(page'[q], filed, now)
    BY <2>4, <2>5 DEF OwnershipInv
  <2>12. OwnershipTypeOK'
    BY <1>2, <2>5, <2>9 DEF OwnershipInv, OwnershipTypeOK
  <2> HIDE DEF RowInv, PageInv
  <2> QED BY <1>2, <2>10, <2>11, <2>12 DEF OwnershipInv
<1> QED BY <1>5, <1>6

LEMMA NextOwnershipInv == OwnershipInv /\ [OwnershipNext]_ownershipVars => OwnershipInv'
<1> SUFFICES ASSUME OwnershipInv, [OwnershipNext]_ownershipVars PROVE OwnershipInv'
  OBVIOUS
<1>1. CASE Tick
  BY <1>1, TickOwnershipInv
<1>2. ASSUME NEW k \in DOMAIN filed, File(k) PROVE OwnershipInv'
  BY <1>2, FileOwnershipInv
<1>3. ASSUME NEW p \in Pages, OpenPage(p) \/ Look(p) \/ Ask(p) \/ Keep(p) PROVE OwnershipInv'
  BY <1>3, OpenOwnershipInv, LookOwnershipInv, AskOwnershipInv, KeepOwnershipInv
<1>4. CASE UNCHANGED ownershipVars
  BY <1>4 DEF ownershipVars, OwnershipInv, OwnershipTypeOK
<1> QED BY <1>1, <1>2, <1>3, <1>4 DEF OwnershipNext

(* The state of the owners has its types, for any number of pages: what is *)
(* kept is a count of filings of its kind or nothing, with its time        *)
(* (Ownership.Look, Ask, Keep).                                            *)
THEOREM OwnershipTypeCorrect == OwnershipSpec => []OwnershipTypeOK
<1>1. OwnershipInv => OwnershipTypeOK
  BY DEF OwnershipInv
<1> QED BY <1>1, InitOwnershipInv, NextOwnershipInv, PTL DEF OwnershipSpec

(* A page that is not stale shows the changes as they were not long before *)
(* (ownership_service), however many pages renew the answers one beside    *)
(* the other and whenever DART or the quota fails: a row that is kept has  *)
(* what was filed a request before its time, and a page that asks has got  *)
(* its first answer from such a row or from DART.                          *)
THEOREM OwnersAreRecent == OwnershipSpec => []FreshIsRecent
<1>1. OwnershipInv => FreshIsRecent
  <2> SUFFICES ASSUME OwnershipInv, NEW p \in Pages, Shown(p), ~page[p].stale PROVE Covers(p, 1)
    BY DEF FreshIsRecent
  <2>1. FirstCovers(page[p], filed) /\ page[p] \in PageRows
    BY DEF OwnershipInv, OwnershipTypeOK, PageInv, Shown
  <2>2. DOMAIN filed["changes"] \subseteq Nat \ {0}
    <3>1. filed["changes"] \in Seq(Nat)
      BY StepHasKind DEF OwnershipInv, OwnershipTypeOK
    <3> QED BY <3>1
  <2>3. page[p].answer[1] \in Counts
    <3>1. Len(page[p].answer) \in Nat \ {0} /\ page[p].answer \in Seq(Counts)
      BY <2>1 DEF OwnershipInv, PageInv, Shown, PageRows
    <3> QED BY <3>1
  <2> QED BY <2>1, <2>2, <2>3, OwnershipAssumption DEF FirstCovers, Covers, FiledBefore, Counts
<1> QED BY <1>1, InitOwnershipInv, NextOwnershipInv, PTL DEF OwnershipSpec

-----------------------------------------------------------------------------
(* The companies of the US.                                                *)
FigureRows == [of : Nat, priced : BOOLEAN, on : Nat, writer : Readers \union {"worker", NoFigures}]
MaybeRows == FigureRows \union {NoFigures}
TickerLists == [map : {NoMap, Tickers \ Never}, on : Nat]

UsTypeOK ==
  /\ day \in Nat \ {0}
  /\ facts \in [Tickers -> Nat]
  /\ names \in [Processes \union {"file"} -> TickerLists]
  /\ figures \in [Tickers -> MaybeRows]
  /\ marked \subseteq Tickers
  /\ batch \in [at : {"idle", "next", "ask", "mark"}, todo : Seq(Tickers), before : MaybeRows, row : {NoFigures}]
  /\ reader \in [Readers -> [at : {"closed", "ask", "shown"}, ticker : Tickers \union {NoFigures}, row : MaybeRows, shown : MaybeRows]]

\* A row that some process has written.
IsWritten(row) == row # NoFigures /\ row.on > 0
MarkIsOf(row) == row # NoFigures /\ (row.on > 0 \/ row.priced)
\* The batch has a ticker; the row is the one it has seen, or it has been written.
ServedInv ==
  batch.at \in {"ask", "mark"} =>
    /\ batch.todo # << >> /\ Head(batch.todo) \in Tickers
    /\ figures[Head(batch.todo)] = batch.before \/ IsWritten(figures[Head(batch.todo)])
UsInv ==
  /\ UsTypeOK
  /\ \A t \in marked : MarkIsOf(figures[t])
  /\ ServedInv
  /\ \A r \in Readers : reader[r].at = "ask" => reader[r].ticker \in Tickers

\* The members of a finite set stand in a row.
LEMMA SetAsSequence ==
  ASSUME NEW S, IsFiniteSet(S)
  PROVE  SetToSeq(S) \in Seq(S)
<1>1. Cardinality(S) \in Nat /\ \E f \in [1..Cardinality(S) -> S] : IsInjective(f)
  BY FS_CardinalityType DEF ExistsBijection, Bijection, Injection
<1>2. SetToSeq(S) \in [1..Cardinality(S) -> S]
  BY <1>1 DEF SetToSeq
<1> QED BY <1>1, <1>2

\* A figure that is counted is a row, and a written one.
LEMMA FiguresAreWritten ==
  ASSUME UsTypeOK, NEW of \in Nat, NEW priced \in BOOLEAN, NEW writer \in Readers \union {"worker"}
  PROVE  Figures(of, priced, writer) \in FigureRows /\ IsWritten(Figures(of, priced, writer))
<1>1. Figures(of, priced, writer) \in FigureRows /\ Figures(of, priced, writer).on = day /\ day \in Nat \ {0}
  BY DEF Figures, FigureRows, UsTypeOK
<1>2. NoFigures \notin FigureRows
  BY UsAssumption DEF FigureRows
<1> QED BY <1>1, <1>2 DEF IsWritten

LEMMA ListsAreTyped ==
  ASSUME UsTypeOK, NEW process \in Processes, NEW answered \in BOOLEAN
  PROVE  Lists(process, answered) \in [Processes \union {"file"} -> TickerLists]
<1> DEFINE map == [map |-> Tickers \ Never, on |-> day]
<1>1. map \in TickerLists /\ names \in [Processes \union {"file"} -> TickerLists]
  BY DEF TickerLists, UsTypeOK
<1>2. \/ Lists(process, answered) = names
      \/ Lists(process, answered) = [names EXCEPT ![process] = names["file"]]
      \/ Lists(process, answered) = [names EXCEPT ![process] = map, !["file"] = map]
  BY DEF Lists
<1> HIDE DEF map
<1> QED BY <1>1, <1>2

\* A row is written, by a page or the batch.
LEMMA WriteFigures ==
  ASSUME UsInv, NEW t \in Tickers, NEW row \in FigureRows, IsWritten(row), figures' = [figures EXCEPT ![t] = row]
  PROVE  /\ figures' \in [Tickers -> MaybeRows]
         /\ \A u \in marked : MarkIsOf(figures'[u])
         /\ \A u \in Tickers : IsWritten(figures[u]) => IsWritten(figures'[u])
         /\ \A u \in Tickers : figures'[u] = figures[u] \/ IsWritten(figures'[u])
<1>1. figures \in [Tickers -> MaybeRows] /\ marked \subseteq Tickers
  BY DEF UsInv, UsTypeOK
<1>2. figures' \in [Tickers -> MaybeRows] /\ figures'[t] = row /\ \A u \in Tickers \ {t} : figures'[u] = figures[u]
  BY <1>1 DEF MaybeRows
<1> HIDE DEF UsInv
<1>3. MarkIsOf(row)
  BY DEF IsWritten, MarkIsOf
<1>4. \A u \in marked : MarkIsOf(figures'[u])
  BY <1>1, <1>2, <1>3 DEF UsInv
<1> QED BY <1>2, <1>4

LEMMA InitUsInv == UsInit => UsInv
<1> SUFFICES ASSUME UsInit PROVE UsInv
  OBVIOUS
<1>1. figures \in [Tickers -> MaybeRows]
  <2> DEFINE row == [of |-> 1, priced |-> FALSE, on |-> 0, writer |-> NoFigures]
  <2>1. row \in FigureRows
    BY DEF FigureRows
  <2>2. figures \in [Tickers -> {NoFigures, row}]
    BY DEF UsInit
  <2> HIDE DEF row
  <2> QED BY <2>1, <2>2 DEF MaybeRows
<1>2. names \in [Processes \union {"file"} -> TickerLists]
  BY DEF UsInit, TickerLists
<1> QED BY <1>1, <1>2 DEF UsInit, UsInv, UsTypeOK, ServedInv, NoBatch, NoPage, MaybeRows

\* Steps that leave the rows and the marks alone.
LEMMA RowsStay ==
  ASSUME UsInv, UNCHANGED <<figures, marked>>, UsTypeOK', ServedInv',
         \A r \in Readers : reader'[r].at = "ask" => reader'[r].ticker \in Tickers
  PROVE  UsInv'
<1> QED BY DEF UsInv

LEMMA QuietUsInv ==
  ASSUME UsInv, NextDay \/ (\E t \in Tickers : Report(t)) \/ (\E process \in Processes : Restart(process))
  PROVE  UsInv'
<1>1. UNCHANGED <<figures, marked, reader>>
  BY DEF NextDay, Report, Restart
<1>2. CASE NextDay \/ \E t \in Tickers : Report(t)
  <2>1. UNCHANGED <<names, batch>> /\ day' \in Nat \ {0} /\ facts' \in [Tickers -> Nat]
    BY <1>2 DEF NextDay, Report, UsInv, UsTypeOK
  <2>2. UsTypeOK'
    BY <1>1, <2>1 DEF UsInv, UsTypeOK
  <2> QED BY <1>1, <2>1, <2>2 DEF UsInv, ServedInv
<1>3. ASSUME NEW process \in Processes, Restart(process) PROVE UsInv'
  <2>1. [map |-> NoMap, on |-> 0] \in TickerLists
    BY DEF TickerLists
  <2>2. /\ UNCHANGED <<day, facts>> /\ names' \in [Processes \union {"file"} -> TickerLists]
        /\ batch' = batch \/ batch' = NoBatch
    BY <1>3, <2>1 DEF Restart, UsInv, UsTypeOK
  <2>3. NoBatch \in [at : {"idle", "next", "ask", "mark"}, todo : Seq(Tickers), before : MaybeRows, row : {NoFigures}]
    BY DEF NoBatch, MaybeRows
  <2>4. UsTypeOK'
    BY <1>1, <2>2, <2>3 DEF UsInv, UsTypeOK
  <2>5. ServedInv'
    BY <1>1, <2>2 DEF UsInv, ServedInv, NoBatch
  <2> QED BY <1>1, <2>4, <2>5 DEF UsInv
<1> QED BY <1>2, <1>3

LEMMA OpenUsInv == ASSUME UsInv, NEW r \in Readers, NEW t \in Tickers, OpenCompany(r, t) PROVE UsInv'
<1> DEFINE Shapes == [at : {"closed", "ask", "shown"}, ticker : Tickers \union {NoFigures}, row : MaybeRows, shown : MaybeRows]
<1>1. UNCHANGED <<day, facts, names, figures, marked, batch>>
  BY DEF OpenCompany
<1>2. figures[t] \in MaybeRows /\ reader \in [Readers -> Shapes] /\ NoFigures \in MaybeRows
  BY DEF UsInv, UsTypeOK, MaybeRows
<1>3. PICK closed \in Shapes : closed = NoPage
  BY DEF NoPage, MaybeRows
<1>4. PICK x \in Shapes : x.ticker = t /\ reader' = [reader EXCEPT ![r] = x]
  <2>1. PICK row \in MaybeRows : row = figures[t]
    BY <1>2
  <2> DEFINE asks == [closed EXCEPT !.at = "ask", !.ticker = t, !.row = row]
             shows == [closed EXCEPT !.at = "shown", !.ticker = t, !.row = row, !.shown = row]
  <2>2. reader' = [reader EXCEPT ![r] = asks] \/ reader' = [reader EXCEPT ![r] = shows]
    BY <1>3, <2>1 DEF OpenCompany
  <2>3. asks \in Shapes /\ shows \in Shapes /\ asks.ticker = t /\ shows.ticker = t
    <3> HIDE DEF MaybeRows
    <3> QED OBVIOUS
  <2> HIDE DEF asks, shows, Shapes
  <2> QED BY <2>2, <2>3
<1> HIDE DEF Shapes
<1>5. reader' \in [Readers -> Shapes] /\ reader'[r] = x /\ \A q \in Readers \ {r} : reader'[q] = reader[q]
  BY <1>2, <1>4
<1>6. UsTypeOK'
  BY <1>1, <1>5 DEF UsInv, UsTypeOK, Shapes
<1>7. ServedInv'
  BY <1>1 DEF UsInv, ServedInv
<1> QED BY <1>1, <1>4, <1>5, <1>6, <1>7 DEF UsInv

LEMMA ComputeUsInv == ASSUME UsInv, NEW r \in Readers, Compute(r) PROVE UsInv'
<1> DEFINE Shapes == [at : {"closed", "ask", "shown"}, ticker : Tickers \union {NoFigures}, row : MaybeRows, shown : MaybeRows]
           t == reader[r].ticker
<1>1. UNCHANGED <<day, facts, marked, batch>> /\ t \in Tickers
  BY DEF Compute, UsInv
<1>2. reader \in [Readers -> Shapes] /\ reader[r] \in Shapes /\ facts[t] \in Nat /\ "api" \in Processes
  BY <1>1 DEF UsInv, UsTypeOK, Processes
<1>3. names' \in [Processes \union {"file"} -> TickerLists]
  <2>1. PICK listed \in BOOLEAN : names' = Lists("api", listed)
    BY DEF Compute
  <2>2. UsTypeOK /\ "api" \in Processes
    BY <1>2 DEF UsInv
  <2>3. Lists("api", listed) \in [Processes \union {"file"} -> TickerLists]
    BY ONLY <2>2, ListsAreTyped
  <2> QED BY ONLY <2>1, <2>3
<1>4. \E row \in FigureRows, seen \in MaybeRows :
        /\ IsWritten(row)
        /\ figures' = [figures EXCEPT ![t] = row] \/ UNCHANGED figures
        /\ reader' = [reader EXCEPT ![r].at = "shown", ![r].shown = seen]
  <2>1. \A priced \in BOOLEAN : Figures(facts[t], priced, r) \in FigureRows /\ IsWritten(Figures(facts[t], priced, r))
    BY <1>2, FiguresAreWritten DEF UsInv
  <2>2. \A stored \in FigureRows : Held(reader[r].row, stored) \in MaybeRows
    BY <1>2 DEF Held, MaybeRows
  <2>3. reader[r].row \in MaybeRows
    BY <1>2
  <2>4. \/ \E priced \in BOOLEAN : LET stored == Figures(facts[t], priced, r) IN
               /\ figures' = [figures EXCEPT ![t] = stored]
               /\ reader' = [reader EXCEPT ![r].at = "shown", ![r].shown = Held(reader[r].row, stored)]
        \/ UNCHANGED figures /\ reader' = [reader EXCEPT ![r].at = "shown", ![r].shown = reader[r].row]
    BY DEF Compute
  <2> HIDE DEF t, Shapes
  <2> QED BY <2>1, <2>2, <2>3, <2>4
<1>5. PICK row \in FigureRows, seen \in MaybeRows :
        /\ IsWritten(row)
        /\ figures' = [figures EXCEPT ![t] = row] \/ UNCHANGED figures
        /\ reader' = [reader EXCEPT ![r].at = "shown", ![r].shown = seen]
  BY <1>4
<1>6. /\ figures' \in [Tickers -> MaybeRows] /\ \A u \in marked : MarkIsOf(figures'[u])
      /\ \A u \in Tickers : (IsWritten(figures[u]) => IsWritten(figures'[u])) /\ (figures'[u] = figures[u] \/ IsWritten(figures'[u]))
  <2>1. CASE figures' = [figures EXCEPT ![t] = row]
    <3> HIDE DEF t
    <3> QED BY <1>1, <1>5, <2>1, WriteFigures
  <2>2. CASE UNCHANGED figures
    BY <2>2 DEF UsInv, UsTypeOK
  <2> QED BY <1>5, <2>1, <2>2
<1>7. /\ reader' \in [Readers -> Shapes] /\ \A q \in Readers \ {r} : reader'[q] = reader[q]
      /\ reader'[r].at = "shown"
  <2>1. PICK old \in Shapes : old = reader[r]
    BY <1>2
  <2>2. reader' = [reader EXCEPT ![r] = [old EXCEPT !.at = "shown", !.shown = seen]]
    BY <1>5, <2>1
  <2>3. PICK new \in Shapes : new = [old EXCEPT !.at = "shown", !.shown = seen] /\ new.at = "shown"
    <3> DEFINE new == [old EXCEPT !.at = "shown", !.shown = seen]
    <3> HIDE DEF MaybeRows
    <3>1. new \in Shapes /\ new.at = "shown"
      OBVIOUS
    <3> QED BY <3>1
  <2> HIDE DEF Shapes
  <2> QED BY <1>2, <2>2, <2>3
<1>8. UsTypeOK'
  BY <1>1, <1>3, <1>6, <1>7 DEF UsInv, UsTypeOK
<1>9. ServedInv'
  BY <1>1, <1>6 DEF UsInv, ServedInv
<1> QED BY <1>1, <1>6, <1>7, <1>8, <1>9 DEF UsInv

\* The types of the batch alone.
BatchRows == [at : {"idle", "next", "ask", "mark"}, todo : Seq(Tickers), before : MaybeRows, row : {NoFigures}]

LEMMA BeginUsInv == UsInv /\ BeginFigures => UsInv'
<1> SUFFICES ASSUME UsInv, BeginFigures PROVE UsInv'
  OBVIOUS
<1> DEFINE known == marked \union {t \in Tickers : figures[t] # NoFigures /\ figures[t].priced}
           todo == SetToSeq(Tickers \ known)
           served == SubSeq(todo, 1, IF Len(todo) < PerNight THEN Len(todo) ELSE PerNight)
<1>1. UNCHANGED <<day, facts, names, figures, reader>> /\ marked' = known
      /\ batch' = [NoBatch EXCEPT !.at = "next", !.todo = served]
  BY DEF BeginFigures
<1>2. known \subseteq Tickers /\ \A t \in known : MarkIsOf(figures[t])
  BY DEF UsInv, UsTypeOK, MarkIsOf
<1>3. todo \in Seq(Tickers)
  <2> HIDE DEF known
  <2>1. IsFiniteSet(Tickers \ known)
    BY UsAssumption, FS_Difference
  <2>2. todo \in Seq(Tickers \ known)
    BY <2>1, SetAsSequence
  <2> QED BY <2>2
<1> HIDE DEF todo, known
<1>4. served \in Seq(Tickers)
  BY <1>3, UsAssumption
<1> HIDE DEF served
<1>5. batch' \in BatchRows /\ batch'.at = "next"
  BY <1>1, <1>4 DEF NoBatch, BatchRows, MaybeRows
<1>6. UsTypeOK'
  BY <1>1, <1>2, <1>5 DEF UsInv, UsTypeOK, BatchRows
<1>7. ServedInv'
  BY <1>5 DEF ServedInv
<1> QED BY <1>1, <1>2, <1>6, <1>7 DEF UsInv

LEMMA TakeUsInv == UsInv /\ TakeTicker => UsInv'
<1> SUFFICES ASSUME UsInv, TakeTicker PROVE UsInv'
  OBVIOUS
<1>1. UNCHANGED <<day, facts, names, figures, marked, reader>> /\ batch \in BatchRows
  BY DEF TakeTicker, UsInv, UsTypeOK, BatchRows
<1>2. CASE batch.todo = << >>
  <2>1. batch' = NoBatch /\ NoBatch \in BatchRows /\ NoBatch.at = "idle"
    BY <1>2 DEF TakeTicker, NoBatch, BatchRows, MaybeRows
  <2>2. UsTypeOK' /\ ServedInv'
    BY <1>1, <2>1 DEF UsInv, UsTypeOK, ServedInv, BatchRows
  <2> QED BY <1>1, <2>2 DEF UsInv
<1>3. CASE batch.todo # << >>
  <2> DEFINE t == Head(batch.todo)
  <2>1. t \in Tickers /\ figures[t] \in MaybeRows
    BY <1>1, <1>3 DEF BatchRows, UsInv, UsTypeOK
  <2>2. PICK old \in BatchRows, before \in MaybeRows : old = batch /\ before = figures[t]
    BY <1>1, <2>1
  <2>3. batch' = [old EXCEPT !.at = "ask", !.before = before]
    BY <1>3, <2>2 DEF TakeTicker
  <2> HIDE DEF t, MaybeRows
  <2>4. batch' \in BatchRows /\ batch'.todo = batch.todo /\ batch'.before = before
    BY <2>2, <2>3 DEF BatchRows
  <2>5. UsTypeOK'
    BY <1>1, <2>4 DEF UsInv, UsTypeOK, BatchRows
  <2>6. ServedInv'
    BY <1>1, <1>3, <2>1, <2>2, <2>4 DEF ServedInv, t
  <2> QED BY <1>1, <2>5, <2>6 DEF UsInv
<1> QED BY <1>2, <1>3

LEMMA ComputeNextUsInv == UsInv /\ ComputeNext => UsInv'
<1> SUFFICES ASSUME UsInv, ComputeNext PROVE UsInv'
  OBVIOUS
<1> DEFINE t == Head(batch.todo)
<1>1. UNCHANGED <<day, facts, marked, reader>> /\ batch \in BatchRows /\ batch.at = "ask"
  BY DEF ComputeNext, UsInv, UsTypeOK, BatchRows
<1>2. t \in Tickers /\ batch.todo # << >> /\ facts[t] \in Nat /\ "worker" \in Processes
  BY <1>1 DEF UsInv, UsTypeOK, ServedInv, Processes
<1>3. names' \in [Processes \union {"file"} -> TickerLists]
  <2>1. \E listed \in BOOLEAN : names' = Lists("worker", listed)
    BY DEF ComputeNext
  <2>2. UsTypeOK
    BY DEF UsInv
  <2> QED BY <1>2, <2>1, <2>2, ListsAreTyped, Zenon
<1>4. \/ \E priced \in BOOLEAN : figures' = [figures EXCEPT ![t] = Figures(facts[t], priced, "worker")]
      \/ UNCHANGED figures
  BY DEF ComputeNext
<1>5. /\ figures' \in [Tickers -> MaybeRows] /\ \A u \in marked : MarkIsOf(figures'[u])
      /\ \A u \in Tickers : (IsWritten(figures[u]) => IsWritten(figures'[u])) /\ (figures'[u] = figures[u] \/ IsWritten(figures'[u]))
  <2> HIDE DEF t
  <2>1. ASSUME NEW priced \in BOOLEAN, figures' = [figures EXCEPT ![t] = Figures(facts[t], priced, "worker")]
        PROVE  /\ figures' \in [Tickers -> MaybeRows] /\ \A u \in marked : MarkIsOf(figures'[u])
               /\ \A u \in Tickers : (IsWritten(figures[u]) => IsWritten(figures'[u])) /\ (figures'[u] = figures[u] \/ IsWritten(figures'[u]))
    <3>1. PICK row \in FigureRows : row = Figures(facts[t], priced, "worker") /\ IsWritten(row)
      BY <1>2, FiguresAreWritten DEF UsInv
    <3> QED BY <1>2, <2>1, <3>1, WriteFigures
  <2>2. CASE UNCHANGED figures
    BY <2>2 DEF UsInv, UsTypeOK
  <2> QED BY <1>4, <2>1, <2>2
<1>6. batch' \in BatchRows /\ batch'.todo = batch.todo /\ batch'.before = batch.before
  <2>1. PICK old \in BatchRows : old = batch
    BY <1>1
  <2>2. batch' = [old EXCEPT !.at = "mark"]
    BY <2>1 DEF ComputeNext
  <2> HIDE DEF MaybeRows
  <2> QED BY <2>1, <2>2 DEF BatchRows
<1> HIDE DEF t
<1>7. UsTypeOK'
  BY <1>1, <1>3, <1>5, <1>6 DEF UsInv, UsTypeOK, BatchRows
<1>8. figures[t] = batch.before \/ IsWritten(figures[t])
  BY <1>1 DEF UsInv, ServedInv, t
<1>9. ServedInv'
  BY <1>2, <1>5, <1>6, <1>8 DEF ServedInv, t
<1> QED BY <1>1, <1>5, <1>7, <1>9 DEF UsInv

LEMMA MarkUsInv == UsInv /\ MarkTicker => UsInv'
<1> SUFFICES ASSUME UsInv, MarkTicker PROVE UsInv'
  OBVIOUS
<1> DEFINE t == Head(batch.todo)
<1>1. UNCHANGED <<day, facts, names, figures, reader>> /\ batch \in BatchRows /\ batch.at = "mark"
  BY DEF MarkTicker, UsInv, UsTypeOK, BatchRows
<1>2. t \in Tickers /\ batch.todo # << >> /\ (figures[t] = batch.before \/ IsWritten(figures[t]))
  BY <1>1 DEF UsInv, ServedInv
<1>3. marked' \subseteq Tickers /\ \A u \in marked' : MarkIsOf(figures[u])
  <2>1. marked' = marked \/ (figures[t] # batch.before /\ marked' = marked \union {t})
    BY DEF MarkTicker, ReadAgain
  <2>2. IsWritten(figures[t]) => MarkIsOf(figures[t])
    BY DEF IsWritten, MarkIsOf
  <2> HIDE DEF t
  <2> QED BY <1>2, <2>1, <2>2 DEF UsInv, UsTypeOK
<1>4. batch' \in BatchRows /\ batch'.at = "next"
  <2>1. PICK old \in BatchRows : old = batch /\ old.todo # << >>
    BY <1>1, <1>2
  <2>2. PICK rest \in Seq(Tickers) : rest = Tail(old.todo)
    <3>1. old.todo \in Seq(Tickers)
      BY DEF BatchRows
    <3>2. Tail(old.todo) \in Seq(Tickers)
      BY <2>1, <3>1, HeadTailProperties
    <3> QED BY <3>2
  <2>3. batch' = [old EXCEPT !.at = "next", !.todo = rest]
    BY <2>1, <2>2 DEF MarkTicker
  <2> HIDE DEF MaybeRows
  <2> QED BY <2>1, <2>3 DEF BatchRows
<1>5. UsTypeOK' /\ ServedInv'
  BY <1>1, <1>3, <1>4 DEF UsInv, UsTypeOK, ServedInv, BatchRows
<1> QED BY <1>1, <1>3, <1>5 DEF UsInv

LEMMA NextUsInv == UsInv /\ [UsNext]_usVars => UsInv'
<1> SUFFICES ASSUME UsInv, [UsNext]_usVars PROVE UsInv'
  OBVIOUS
<1>1. ASSUME NextDay \/ (\E t \in Tickers : Report(t)) \/ (\E process \in Processes : Restart(process)) PROVE UsInv'
  BY <1>1, QuietUsInv
<1>2. ASSUME NEW r \in Readers, (\E t \in Tickers : OpenCompany(r, t)) \/ Compute(r) PROVE UsInv'
  BY <1>2, OpenUsInv, ComputeUsInv
<1>3. CASE BeginFigures \/ TakeTicker \/ ComputeNext \/ MarkTicker
  BY <1>3, BeginUsInv, TakeUsInv, ComputeNextUsInv, MarkUsInv
<1>4. CASE UNCHANGED usVars
  BY <1>4 DEF usVars, UsInv, UsTypeOK, ServedInv
<1> QED BY <1>1, <1>2, <1>3, <1>4 DEF UsNext

(* The state of the companies of the US has its types, for any number of   *)
(* tickers and pages: a list of the SEC's tickers is whole or not there    *)
(* (us_company_service, adapters/sec/client).                              *)
THEOREM UsTypeCorrect == UsSpec => []UsTypeOK
<1>1. UsInv => UsTypeOK
  BY DEF UsInv
<1> QED BY <1>1, InitUsInv, NextUsInv, PTL DEF UsSpec

(* What the night batch marks has figures that some process has written,   *)
(* and what it has written it marks (UsCompanies.MarkTicker), however      *)
(* pages write the same rows beside it: the row is still the one that was  *)
(* seen before, or a written one.                                          *)
THEOREM MarksAreOfFigures == UsSpec => MarksFollowFigures
<1>1. UsInv => \A t \in marked : figures[t] # NoFigures /\ (figures[t].on > 0 \/ figures[t].priced)
  BY DEF UsInv, MarkIsOf
<1>2. UsInv /\ [UsNext]_usVars => [\A t \in Tickers :
         (batch.at = "mark" /\ batch'.at = "next" /\ Head(batch.todo) = t /\ figures[t] # batch.before) => t \in marked']_usVars
  <2> SUFFICES ASSUME UsInv, UsNext, NEW t \in Tickers,
                      batch.at = "mark", batch'.at = "next", Head(batch.todo) = t, figures[t] # batch.before
               PROVE  t \in marked'
    OBVIOUS
  <2>1. MarkTicker
    <3>1. ~NextDay /\ ~(\E u \in Tickers : Report(u)) /\ ~(\E r \in Readers, u \in Tickers : OpenCompany(r, u)) /\ ~(\E r \in Readers : Compute(r))
      BY Zenon DEF NextDay, Report, OpenCompany, Compute
    <3>2. ~BeginFigures /\ ~TakeTicker
      BY DEF BeginFigures, TakeTicker
    <3>3. ~ComputeNext
      BY DEF ComputeNext
    <3>4. ~(\E process \in Processes : Restart(process))
      BY DEF Restart, NoBatch
    <3> QED BY <3>1, <3>2, <3>3, <3>4 DEF UsNext
  <2>2. figures[t] # NoFigures
    BY DEF UsInv, ServedInv, IsWritten
  <2> QED BY <2>1, <2>2 DEF MarkTicker, ReadAgain
<1> QED BY <1>1, <1>2, InitUsInv, NextUsInv, PTL DEF UsSpec, MarksFollowFigures

-----------------------------------------------------------------------------
(* The reports of the brokers.                                             *)
Listed == [paper : Papers \union Legacy, day : Nat]
Fields == DOMAIN Resting
KeysOf(rows) == {r.key : r \in rows}

\* The list has no older day above a younger one.
ListInv(list, last) ==
  /\ list \in Seq(Listed)
  /\ \A i \in DOMAIN list : list[i].day <= last
  /\ \A i, j \in DOMAIN list : i <= j => list[j].day <= list[i].day
\* What a crawl has still to meet stands on the pages it has not read; when it is over, there is nothing left.
Ahead(r, list) == \A e \in r.there : e.day = r.target /\ \E i \in DOMAIN list : i > (r.page - 1) * PageSize /\ list[i] = e
JobInv(r, list, store) ==
  /\ DOMAIN r = Fields
  /\ r.at = "put" => KeyOf(Head(r.todo)) \in store
  /\ r.at = "list" => r.page \in 1..MaxPages /\ r.target \in Nat /\ Ahead(r, list)
  /\ r.at \in {"take", "judged", "put"} /\ r.whole /\ r.page <= MaxPages => r.there = {}
\* A row has its three columns, and the file of its key unless it is of old.
IsRow(r, store) == r = [key |-> r.key, paper |-> r.paper, text |-> r.text] /\ (Fresh(r) => r.key \in store)

ReportInv ==
  /\ today = [day |-> today.day, hour |-> today.hour] /\ today.day \in Nat
  /\ ListInv(listing, today.day)
  /\ DOMAIN collector = Collectors
  /\ \A c \in Collectors : JobInv(collector[c], listing, files)
  /\ IsFiniteSet(reports) /\ \A r \in reports : IsRow(r, files)
  /\ filling \in Seq(KeysOf(reports))

\* What a function makes of a finite set is finite.
LEMMA FiniteImage ==
  ASSUME NEW S, IsFiniteSet(S), NEW f, DOMAIN f = S, f = [x \in S |-> f[x]]
  PROVE  IsFiniteSet({f[x] : x \in S})
<1> DEFINE T == {f[x] : x \in S}
<1>1. f \in Surjection(S, T)
  BY DEF Surjection
<1> QED BY <1>1, FS_Surjection

LEMMA RowFields ==
  /\ \A e, text : /\ Row(e, text) = [key |-> KeyOf(e), paper |-> e.paper, text |-> text]
                  /\ Row(e, text).key = KeyOf(e) /\ Row(e, text).paper = e.paper /\ Row(e, text).text = text
  /\ Fields = {"at", "target", "page", "todo", "there", "whole", "phase", "had", "dated"} /\ Resting.at = "idle"
BY DEF Row, Fields, Resting

LEMMA RestingInv == \A list, store : JobInv(Resting, list, store)
BY DEF JobInv, Fields, Resting

LEMMA InitReportInv == ReportInit => ReportInv
<1> SUFFICES ASSUME ReportInit PROVE ReportInv
  OBVIOUS
<1>1. today = [day |-> 1, hour |-> 1] /\ collector = [c \in Collectors |-> Resting] /\ filling = << >>
  BY DEF ReportInit
<1>2. DOMAIN collector = Collectors /\ \A c \in Collectors : JobInv(collector[c], listing, files)
  BY <1>1, RestingInv
<1>3. IsFiniteSet(reports)
  <2> DEFINE f == [p \in Legacy |-> Row(Entry(p, 0), "none")]
  <2>1. IsFiniteSet({f[p] : p \in Legacy})
    <3>1. DOMAIN f = Legacy /\ f = [p \in Legacy |-> f[p]]
      OBVIOUS
    <3> HIDE DEF f
    <3> QED BY <3>1, FiniteImage, ReportsAssumption
  <2>2. reports = {f[p] : p \in Legacy}
    BY DEF ReportInit
  <2> QED BY <2>1, <2>2
<1>4. \A r \in reports : IsRow(r, files)
  <2> SUFFICES ASSUME NEW p \in Legacy, NEW r, r = Row(Entry(p, 0), "none") PROVE IsRow(r, files)
    BY DEF ReportInit
  <2>1. r.paper = p
    BY RowFields DEF Entry
  <2> QED BY <2>1, RowFields DEF IsRow, Fresh
<1>5. ListInv(listing, 1)
  <2> DEFINE f == [p \in Legacy |-> Entry(p, 0)]
             S == {f[p] : p \in Legacy}
  <2>1. listing = SetToSeq(S)
    BY DEF ReportInit
  <2>2. \A e \in S : e \in Listed /\ e.day = 0
    BY DEF Entry, Listed
  <2>3. IsFiniteSet(S)
    <3>1. DOMAIN f = Legacy /\ f = [p \in Legacy |-> f[p]]
      OBVIOUS
    <3> HIDE DEF f
    <3> QED BY <3>1, FiniteImage, ReportsAssumption
  <2> HIDE DEF S
  <2>4. listing \in Seq(S)
    BY <2>1, <2>3, SetAsSequence
  <2>5. listing \in Seq(Listed) /\ \A i \in DOMAIN listing : listing[i].day = 0
    BY <2>2, <2>4
  <2> QED BY <2>5 DEF ListInv
<1> QED BY <1>1, <1>2, <1>3, <1>4, <1>5 DEF ReportInv

\* A step that concerns one collector and nothing else.
LEMMA OneJobStep ==
  ASSUME ReportInv, NEW c \in Collectors, NEW r, JobInv(r, listing, files),
         DOMAIN collector' = Collectors, collector'[c] = r, \A q \in Collectors \ {c} : collector'[q] = collector[q],
         UNCHANGED <<today, listing, reports, files, filling>>
  PROVE  ReportInv'
<1>1. \A q \in Collectors : JobInv(collector'[q], listing', files')
  BY DEF ReportInv
<1> HIDE DEF JobInv, ListInv
<1> QED BY <1>1 DEF ReportInv

\* A job that takes, judges or stores, and then has another thing to do: what it knows of its day stays.
LEMMA GoingOn ==
  ASSUME NEW r, NEW list, NEW store, JobInv(r, list, store), r.at \in {"take", "judged", "put"}, NEW r2, DOMAIN r2 = Fields,
         r2.whole = r.whole, r2.page = r.page, r2.there = r.there,
         r2.at \in {"take", "judged"} \/ (r2.at = "put" /\ KeyOf(Head(r2.todo)) \in store)
  PROVE  JobInv(r2, list, store)
BY DEF JobInv

\* A job that has no day of the list in its hands.
LEMMA Elsewhere ==
  ASSUME NEW r, NEW list, NEW store, DOMAIN r = Fields, r.at \in {"brief", "rest", "idle"}
  PROVE  JobInv(r, list, store)
BY DEF JobInv

LEMMA StartReportInv ==
  ASSUME ReportInv, NEW c \in Collectors, NEW target \in 0..MaxDays, NEW dated \in BOOLEAN, Start(c, target, dated)
  PROVE  ReportInv'
<1> DEFINE r == [Resting EXCEPT !.at = "list", !.target = target, !.dated = dated, !.page = 1, !.whole = TRUE,
                                !.there = {e \in ToSet(listing) : e.day = target}]
<1>1. collector' = [collector EXCEPT ![c] = r] /\ UNCHANGED <<today, listing, reports, files, filling>>
  BY DEF Start
<1>2. /\ DOMAIN r = Fields /\ r.at = "list" /\ r.target = target /\ r.page = 1
      /\ r.there = {e \in ToSet(listing) : e.day = target}
  BY DEF Fields, Resting
<1> HIDE DEF r
<1>3. target \in Nat /\ MaxPages \in Nat \ {0} /\ PageSize \in Nat
  BY ReportsAssumption
<1>4. Ahead(r, listing)
  <2>1. listing \in Seq(Listed)
    BY DEF ReportInv, ListInv
  <2>2. (r.page - 1) * PageSize = 0
    BY <1>2, <1>3
  <2> QED BY <1>2, <2>1, <2>2 DEF Ahead, ToSet
<1>5. JobInv(r, listing, files)
  BY <1>2, <1>3, <1>4 DEF JobInv
<1>6. DOMAIN collector' = Collectors /\ collector'[c] = r /\ \A q \in Collectors \ {c} : collector'[q] = collector[q]
  BY <1>1 DEF ReportInv
<1> QED BY <1>1, <1>5, <1>6, OneJobStep

\* A page that is read is the next ones of the list.
LEMMA PageIsNext ==
  ASSUME NEW last, ListInv(listing, last), NEW n \in Nat \ {0}
  PROVE  LET k == (n - 1) * PageSize IN
         /\ k \in Nat /\ (n + 1 - 1) * PageSize = k + PageSize
         /\ Len(listing) <= k => PageOf(n) = << >>
         /\ Len(listing) > k => DOMAIN PageOf(n) = 1..(IF k + PageSize < Len(listing) THEN PageSize ELSE Len(listing) - k)
         /\ \A i \in DOMAIN PageOf(n) : PageOf(n)[i] = listing[k + i] /\ k + i \in DOMAIN listing
<1> DEFINE k == (n - 1) * PageSize
           m == IF n * PageSize < Len(listing) THEN n * PageSize ELSE Len(listing)
<1>1. PageSize \in Nat \ {0} /\ listing \in Seq(Listed) /\ Len(listing) \in Nat
  BY ReportsAssumption DEF ListInv
<1>2. k \in Nat /\ n * PageSize = k + PageSize /\ (n + 1 - 1) * PageSize = k + PageSize /\ n * PageSize \in Nat
  BY <1>1
<1>3. PageOf(n) = SubSeq(listing, k + 1, m)
  BY DEF PageOf
<1>4. m = IF k + PageSize < Len(listing) THEN k + PageSize ELSE Len(listing)
  BY <1>2
<1> HIDE DEF k, m
<1>5. m \in Nat /\ m <= Len(listing)
  BY <1>1, <1>2, <1>4
<1>6. SubSeq(listing, k + 1, m) = [i \in 1..(m - (k + 1) + 1) |-> listing[k + 1 + i - 1]]
  BY <1>1, <1>2, <1>5
<1>7. Len(listing) <= k => PageOf(n) = << >>
  <2> SUFFICES ASSUME Len(listing) <= k PROVE PageOf(n) = << >>
    OBVIOUS
  <2>1. k + 1 \in Int /\ m \in Int /\ m < k + 1
    BY <1>1, <1>2, <1>5
  <2> QED BY <1>3, <2>1, SubSeqEmpty
<1>8. Len(listing) > k => DOMAIN PageOf(n) = 1..(IF k + PageSize < Len(listing) THEN PageSize ELSE Len(listing) - k)
  BY <1>1, <1>2, <1>3, <1>4, <1>6
<1>9. \A i \in DOMAIN PageOf(n) : PageOf(n)[i] = listing[k + i] /\ k + i \in DOMAIN listing
  BY <1>1, <1>2, <1>3, <1>5, <1>6
<1> QED BY <1>2, <1>7, <1>8, <1>9 DEF k

LEMMA ReadReportInv == ASSUME ReportInv, NEW c \in Collectors, ReadPage(c) PROVE ReportInv'
<1> DEFINE j == collector[c]
           here == PageOf(j.page)
           good == [j EXCEPT !.todo = j.todo \o Dated(here, j.target), !.there = j.there \ ToSet(here), !.page = j.page + 1,
                             !.at = IF Ends(here, j.page, j.target) THEN "take" ELSE "list"]
           bad == [j EXCEPT !.todo = << >>, !.whole = FALSE, !.at = "take"]
<1>1. /\ collector' = [collector EXCEPT ![c] = good] \/ collector' = [collector EXCEPT ![c] = bad]
      /\ UNCHANGED <<today, listing, reports, files, filling>> /\ j.at = "list"
  BY DEF ReadPage, ReportInv
<1>2. JobInv(j, listing, files) /\ DOMAIN j = Fields
  BY DEF ReportInv, JobInv
<1>3. JobInv(bad, listing, files)
  <2>1. DOMAIN bad = Fields /\ bad.at = "take" /\ bad.whole = FALSE
    BY <1>2, RowFields
  <2> HIDE DEF bad
  <2> QED BY <2>1 DEF JobInv
<1>4. JobInv(good, listing, files)
  <2>1. /\ DOMAIN good = Fields /\ good.there = j.there \ ToSet(here) /\ good.page = j.page + 1 /\ good.target = j.target
        /\ good.at = IF Ends(here, j.page, j.target) THEN "take" ELSE "list"
    BY <1>2, RowFields
  <2>2. PICK n \in 1..MaxPages : n = j.page
    BY <1>1, <1>2 DEF JobInv
  <2>3. j.target \in Nat /\ Ahead(j, listing)
    BY <1>1, <1>2 DEF JobInv
  <2> DEFINE k == (n - 1) * PageSize
  <2>4. /\ k \in Nat /\ (n + 1 - 1) * PageSize = k + PageSize
        /\ Len(listing) <= k => here = << >>
        /\ Len(listing) > k => DOMAIN here = 1..(IF k + PageSize < Len(listing) THEN PageSize ELSE Len(listing) - k)
        /\ \A i \in DOMAIN here : here[i] = listing[k + i] /\ k + i \in DOMAIN listing
    BY <2>2, PageIsNext DEF ReportInv
  <2>5. /\ listing \in Seq(Listed) /\ Len(listing) \in Nat /\ MaxPages \in Nat /\ PageSize \in Nat \ {0}
        /\ \A a, b \in DOMAIN listing : a <= b => listing[b].day <= listing[a].day
        /\ \A a \in DOMAIN listing : listing[a].day \in Nat
    <3>1. /\ listing \in Seq(Listed) /\ MaxPages \in Nat /\ PageSize \in Nat \ {0}
          /\ \A a, b \in DOMAIN listing : a <= b => listing[b].day <= listing[a].day
      BY ReportsAssumption DEF ReportInv, ListInv
    <3>2. \A a \in DOMAIN listing : listing[a] \in Listed
      BY <3>1
    <3>3. \A x \in Listed : x.day \in Nat
      BY DEF Listed
    <3> QED BY <3>1, <3>2, <3>3
  <2> HIDE DEF here
  \* What stays to be met stands behind the page.
  <2>6. ASSUME NEW e \in good.there
        PROVE  e.day = j.target /\ \E i \in DOMAIN listing : i > k + PageSize /\ listing[i] = e
    <3>1. e \in j.there /\ e \notin ToSet(here)
      BY <2>1
    <3>2. PICK i \in DOMAIN listing : i > k /\ listing[i] = e
      BY <2>2, <2>3, <3>1 DEF Ahead
    <3>3. i \in Nat /\ i <= Len(listing)
      BY <2>5
    <3>4. i > k + PageSize
      <4> SUFFICES ASSUME i <= k + PageSize PROVE FALSE
        BY <2>4, <2>5, <3>3
      <4>1. i - k \in DOMAIN here /\ k + (i - k) = i
        BY <2>4, <2>5, <3>2, <3>3
      <4>2. here[i - k] = e
        BY <2>4, <3>2, <4>1
      <4> QED BY <3>1, <4>1, <4>2 DEF ToSet
    <3>5. e.day = j.target
      BY <2>3, <3>1 DEF Ahead
    <3> QED BY <3>2, <3>4, <3>5
  <2>7. Ahead(good, listing)
    <3>1. (good.page - 1) * PageSize = k + PageSize
      BY <2>1, <2>2, <2>4
    <3> HIDE DEF good
    <3> QED BY <2>1, <2>6, <3>1 DEF Ahead
  <2>8. ASSUME Ends(here, n, j.target), good.page <= MaxPages PROVE good.there = {}
    <3> SUFFICES ASSUME NEW e \in good.there PROVE FALSE
      OBVIOUS
    <3>1. PICK i \in DOMAIN listing : i > k + PageSize /\ listing[i] = e /\ e.day = j.target
      BY <2>6
    <3>2. i \in Nat /\ i <= Len(listing) /\ Len(listing) > k
      BY <2>4, <2>5, <3>1
    <3>3. n # MaxPages
      BY <2>1, <2>2, <2>5, <2>8
    <3>4. here # << >>
      <4>1. 1 \in DOMAIN here
        BY <2>4, <2>5, <3>1, <3>2
      <4> QED BY <4>1
    <3>5. PICK x \in DOMAIN here : here[x].day < j.target
      BY <2>8, <3>3, <3>4 DEF Ends
    <3>6. k + x \in DOMAIN listing /\ listing[k + x].day < j.target /\ x <= PageSize /\ x \in Nat
      BY <2>4, <2>5, <3>2, <3>5, SMTT(30)
    <3>7. listing[i].day <= listing[k + x].day
      <4>1. k + x <= i
        BY <2>4, <2>5, <3>1, <3>2, <3>6
      <4> QED BY <2>5, <3>6, <4>1
    <3> QED BY <2>3, <2>5, <3>1, <3>6, <3>7
  <2>9. good.at = "list" => good.page \in 1..MaxPages
    BY <2>1, <2>2, <2>5 DEF Ends
  <2> HIDE DEF good
  <2> QED BY <2>1, <2>2, <2>3, <2>7, <2>8, <2>9 DEF JobInv
<1> HIDE DEF good, bad
<1>5. PICK r : JobInv(r, listing, files) /\ collector' = [collector EXCEPT ![c] = r]
  BY <1>1, <1>3, <1>4
<1>6. DOMAIN collector' = Collectors /\ collector'[c] = r /\ \A q \in Collectors \ {c} : collector'[q] = collector[q]
  BY <1>5 DEF ReportInv
<1> QED BY <1>1, <1>5, <1>6, OneJobStep

LEMMA JobReportInv ==
  ASSUME ReportInv, NEW c \in Collectors, Take(c) \/ BeginBrief(c) \/ WriteBrief(c) \/ EndCycle(c) \/ Crash(c)
  PROVE  ReportInv'
<1>1. UNCHANGED <<today, listing, reports, files, filling>>
  BY DEF Take, BeginBrief, WriteBrief, EndCycle, Crash
<1>2. DOMAIN collector = Collectors /\ JobInv(collector[c], listing, files) /\ DOMAIN collector[c] = Fields
  BY DEF ReportInv, JobInv
<1>3. /\ DOMAIN collector' = Collectors /\ \A q \in Collectors \ {c} : collector'[q] = collector[q]
      /\ JobInv(collector'[c], listing, files)
  <2>1. CASE Take(c)
    <3>1. collector[c].at = "take"
      BY <2>1 DEF Take
    <3>2. /\ DOMAIN collector' = Collectors /\ \A q \in Collectors \ {c} : collector'[q] = collector[q]
          /\ DOMAIN collector'[c] = Fields /\ collector'[c].at \in {"take", "judged"}
          /\ collector'[c].whole = collector[c].whole /\ collector'[c].page = collector[c].page /\ collector'[c].there = collector[c].there
      BY <1>2, <2>1, RowFields DEF Take
    <3> QED BY <1>2, <3>1, <3>2, GoingOn
  <2>2. CASE BeginBrief(c)
    <3>1. /\ DOMAIN collector' = Collectors /\ \A q \in Collectors \ {c} : collector'[q] = collector[q]
          /\ DOMAIN collector'[c] = Fields /\ collector'[c].at = "brief"
      BY <1>2, <2>2, RowFields DEF BeginBrief
    <3> QED BY <3>1, Elsewhere
  <2>3. CASE WriteBrief(c) \/ EndCycle(c) \/ Crash(c)
    <3>1. collector' = [collector EXCEPT ![c].at = "rest"] \/ collector' = [collector EXCEPT ![c] = Resting]
      BY <2>3 DEF WriteBrief, EndCycle, Crash
    <3>2. DOMAIN Resting = Fields
      BY DEF Fields
    <3>3. /\ DOMAIN collector' = Collectors /\ \A q \in Collectors \ {c} : collector'[q] = collector[q]
          /\ DOMAIN collector'[c] = Fields /\ collector'[c].at \in {"rest", "idle"}
      BY <1>2, <3>1, <3>2, RowFields
    <3> QED BY <3>3, Elsewhere
  <2> QED BY <2>1, <2>2, <2>3
<1>4. PICK r : r = collector'[c] /\ JobInv(r, listing, files)
  BY <1>3
<1> QED BY <1>1, <1>3, <1>4, OneJobStep

\* A file that is stored takes none away.
LEMMA MoreFiles ==
  ASSUME NEW list, NEW store, NEW more, store \subseteq more
  PROVE  /\ \A r : JobInv(r, list, store) => JobInv(r, list, more)
         /\ \A r : IsRow(r, store) => IsRow(r, more)
BY DEF JobInv, IsRow

LEMMA PutReportInv == ASSUME ReportInv, NEW c \in Collectors, PutsFile(c) PROVE ReportInv'
<1> DEFINE j == collector[c]
<1>1. UNCHANGED <<today, listing, reports, filling>> /\ files' = files \union {KeyOf(Head(j.todo))} /\ j.at = "judged"
  BY DEF PutsFile
<1>2. DOMAIN collector = Collectors /\ JobInv(j, listing, files) /\ DOMAIN j = Fields
  BY DEF ReportInv, JobInv
<1>3. /\ DOMAIN collector' = Collectors /\ \A q \in Collectors \ {c} : collector'[q] = collector[q]
      /\ DOMAIN collector'[c] = Fields /\ collector'[c].at = "put" /\ collector'[c].todo = j.todo
      /\ collector'[c].whole = j.whole /\ collector'[c].page = j.page /\ collector'[c].there = j.there
  BY <1>2, RowFields DEF PutsFile
<1>4. PICK store : store = files' /\ files \subseteq store /\ KeyOf(Head(j.todo)) \in store
  BY <1>1
<1>5. \A q \in Collectors : JobInv(collector[q], listing, store)
  BY <1>4, MoreFiles DEF ReportInv
<1> HIDE DEF j
<1>6. JobInv(collector'[c], listing, store)
  BY <1>1, <1>3, <1>4, <1>5, GoingOn DEF j
<1>7. \A r \in reports : IsRow(r, store)
  BY <1>4, MoreFiles DEF ReportInv
<1>8. \A q \in Collectors : JobInv(collector'[q], listing, store)
  BY <1>3, <1>5, <1>6
<1> HIDE DEF JobInv, ListInv, IsRow
<1> QED BY <1>1, <1>3, <1>4, <1>7, <1>8 DEF ReportInv

LEMMA StoreReportInv == ASSUME ReportInv, NEW c \in Collectors, StoreRow(c) PROVE ReportInv'
<1> DEFINE j == collector[c]
           e == Head(j.todo)
<1>1. UNCHANGED <<today, listing, files, filling>> /\ j.at = "put"
  BY DEF StoreRow
<1>2. DOMAIN collector = Collectors /\ JobInv(j, listing, files) /\ DOMAIN j = Fields
  BY DEF ReportInv, JobInv
<1>3. /\ DOMAIN collector' = Collectors /\ \A q \in Collectors \ {c} : collector'[q] = collector[q]
      /\ DOMAIN collector'[c] = Fields /\ collector'[c].at = "take"
      /\ collector'[c].whole = j.whole /\ collector'[c].page = j.page /\ collector'[c].there = j.there
  BY <1>2, RowFields DEF StoreRow
<1>4. KeyOf(e) \in files
  BY <1>1, <1>2 DEF JobInv
<1>5. reports' = reports \/ \E text : reports' = reports \union {Row(e, text)}
  BY DEF StoreRow
<1>6. \A text : IsRow(Row(e, text), files)
  <2> HIDE DEF e
  <2>1. \A text : LET r == Row(e, text) IN r = [key |-> r.key, paper |-> r.paper, text |-> r.text] /\ r.key \in files
    BY <1>4, RowFields
  <2> QED BY <2>1 DEF IsRow
<1> HIDE DEF e
<1>7. IsFiniteSet(reports') /\ (\A r \in reports' : IsRow(r, files)) /\ KeysOf(reports) \subseteq KeysOf(reports')
  BY <1>5, <1>6, FS_AddElement DEF ReportInv, KeysOf
<1>8. filling \in Seq(KeysOf(reports'))
  <2>1. PICK some, more : some = KeysOf(reports) /\ more = KeysOf(reports') /\ some \subseteq more
    BY <1>7
  <2>2. filling \in Seq(some)
    BY <2>1 DEF ReportInv
  <2>3. filling \in Seq(more)
    BY <2>1, <2>2
  <2> QED BY <2>1, <2>3
<1> HIDE DEF j
<1>9. JobInv(collector'[c], listing, files)
  BY <1>1, <1>2, <1>3, GoingOn
<1>10. \A q \in Collectors : JobInv(collector'[q], listing, files)
  BY <1>3, <1>9 DEF ReportInv
<1> HIDE DEF JobInv, ListInv, IsRow
<1> QED BY <1>1, <1>3, <1>7, <1>8, <1>10 DEF ReportInv, KeysOf

LEMMA PublishReportInv == ASSUME ReportInv, NEW p \in Papers, Publish(p) PROVE ReportInv'
<1> DEFINE e == Entry(p, today.day)
<1>1. UNCHANGED <<today, collector, reports, files, filling>> /\ listing' = <<e>> \o listing
  BY DEF Publish
<1>2. today.day \in Nat /\ ListInv(listing, today.day) /\ listing \in Seq(Listed)
  BY DEF ReportInv, ListInv
<1>3. e \in Listed /\ e.day = today.day
  BY <1>2 DEF Entry, Listed
<1> HIDE DEF e
<1>4. <<e>> \in Seq(Listed) /\ Len(<<e>>) = 1 /\ <<e>>[1] = e
  BY <1>3
<1>5. PICK list : list = listing'
  OBVIOUS
<1>6. /\ list \in Seq(Listed) /\ Len(list) = 1 + Len(listing) /\ Len(listing) \in Nat
      /\ \A i \in 1..Len(list) : list[i] = IF i = 1 THEN e ELSE listing[i - 1]
  <2>1. PICK one \in Seq(Listed) : one = <<e>> /\ Len(one) = 1 /\ one[1] = e
    BY <1>4
  <2>2. /\ one \o listing \in Seq(Listed) /\ Len(one \o listing) = 1 + Len(listing)
        /\ \A i \in 1..1 + Len(listing) : (one \o listing)[i] = IF i <= 1 THEN one[i] ELSE listing[i - 1]
    BY <1>2, <2>1, ConcatProperties
  <2>3. list = one \o listing
    BY <1>1, <1>5, <2>1
  <2> QED BY <1>2, <2>1, <2>2, <2>3
<1>7. \A i \in DOMAIN listing : i + 1 \in DOMAIN list /\ list[i + 1] = listing[i]
  BY <1>2, <1>6
<1>8. ListInv(list, today.day)
  <2>1. \A i \in DOMAIN list : list[i].day <= today.day
    BY <1>2, <1>3, <1>6 DEF ListInv
  <2>2. ASSUME NEW i \in DOMAIN list, NEW j \in DOMAIN list, i <= j PROVE list[j].day <= list[i].day
    <3>1. CASE i = 1
      BY <1>3, <1>6, <2>1, <3>1
    <3>2. CASE i # 1
      <4>1. i - 1 \in DOMAIN listing /\ j - 1 \in DOMAIN listing /\ i - 1 <= j - 1 /\ list[i] = listing[i - 1] /\ list[j] = listing[j - 1]
        BY <1>2, <1>6, <2>2, <3>2
      <4> QED BY <1>2, <4>1 DEF ListInv
    <3> QED BY <3>1, <3>2
  <2> QED BY <1>6, <2>1, <2>2 DEF ListInv
<1>9. ASSUME NEW c \in Collectors PROVE JobInv(collector[c], list, files)
  <2>1. PICK r : r = collector[c] /\ JobInv(r, listing, files)
    BY DEF ReportInv
  <2>2. ASSUME r.at = "list" PROVE Ahead(r, list)
    <3>1. Ahead(r, listing) /\ r.page \in 1..MaxPages
      BY <2>1, <2>2 DEF JobInv
    <3>2. (r.page - 1) * PageSize \in Nat
      BY <3>1, ReportsAssumption
    <3> DEFINE k == (r.page - 1) * PageSize
    <3> HIDE DEF k
    <3>3. ASSUME NEW x \in r.there PROVE x.day = r.target /\ \E i \in DOMAIN list : i > k /\ list[i] = x
      <4>1. PICK i \in DOMAIN listing : i > k /\ listing[i] = x
        BY <3>1 DEF Ahead, k
      <4>2. i + 1 \in DOMAIN list /\ list[i + 1] = x /\ i + 1 > k
        <5>1. i \in Nat /\ k \in Nat
          BY <1>2, <3>2 DEF k
        <5> QED BY <1>7, <4>1, <5>1
      <4> QED BY <3>1, <4>2 DEF Ahead
    <3> QED BY <3>3 DEF Ahead, k
  <2> QED BY <2>1, <2>2 DEF JobInv
<1> HIDE DEF JobInv, ListInv, IsRow
<1> QED BY <1>1, <1>5, <1>8, <1>9 DEF ReportInv

LEMMA HourReportInv == ReportInv /\ Hour => ReportInv'
<1> SUFFICES ASSUME ReportInv, Hour PROVE ReportInv'
  OBVIOUS
<1>1. UNCHANGED <<listing, collector, reports, files, filling>>
  BY DEF Hour
<1>2. today = [day |-> today.day, hour |-> today.hour] /\ today.day \in Nat /\ ListInv(listing, today.day)
  BY DEF ReportInv
<1>3. today' = [day |-> today'.day, hour |-> today'.hour] /\ today'.day \in {today.day, today.day + 1}
  BY <1>2 DEF Hour
<1>4. ListInv(listing, today'.day)
  <2>1. \A i \in DOMAIN listing : listing[i].day \in Nat
    <3>1. \A x \in Listed : x.day \in Nat
      BY DEF Listed
    <3> QED BY <1>2, <3>1 DEF ListInv
  <2> QED BY <1>2, <1>3, <2>1 DEF ListInv
<1> HIDE DEF JobInv, ListInv, IsRow
<1> QED BY <1>1, <1>2, <1>3, <1>4 DEF ReportInv

LEMMA BeginFillingInv == ReportInv /\ BeginFilling => ReportInv'
<1> SUFFICES ASSUME ReportInv, BeginFilling PROVE ReportInv'
  OBVIOUS
<1> DEFINE olds == {x \in reports : x.text = "none"}
           rows == SetToSeq(KeysOf(olds))
<1>1. /\ UNCHANGED <<today, listing, collector, reports, files>>
      /\ filling' = SubSeq(rows, 1, IF Len(rows) < PerRun THEN Len(rows) ELSE PerRun)
  BY DEF BeginFilling, KeysOf
<1>2. IsFiniteSet(olds)
  BY FS_Subset DEF ReportInv
<1>3. KeysOf(olds) \subseteq KeysOf(reports)
  BY DEF KeysOf
<1> HIDE DEF olds
<1>4. IsFiniteSet(KeysOf(olds))
  <2> DEFINE f == [r \in olds |-> r.key]
  <2>1. DOMAIN f = olds /\ f = [r \in olds |-> f[r]] /\ KeysOf(olds) = {f[r] : r \in olds}
    BY DEF KeysOf
  <2> HIDE DEF f
  <2> QED BY <1>2, <2>1, FiniteImage
<1>5. rows \in Seq(KeysOf(olds))
  BY <1>4, SetAsSequence
<1>6. PICK some, more : some = KeysOf(olds) /\ more = KeysOf(reports) /\ some \subseteq more
  BY <1>3
<1> HIDE DEF rows
<1>7. filling' \in Seq(more)
  <2>1. rows \in Seq(more)
    BY <1>5, <1>6
  <2> QED BY <1>1, <2>1, ReportsAssumption
<1>8. filling' \in Seq(KeysOf(reports'))
  BY <1>1, <1>6, <1>7
<1> HIDE DEF JobInv, ListInv, IsRow, KeysOf
<1> QED BY <1>1, <1>8 DEF ReportInv

LEMMA FillReportInv == ReportInv /\ Fill => ReportInv'
<1> SUFFICES ASSUME ReportInv, Fill PROVE ReportInv'
  OBVIOUS
<1> DEFINE key == Head(filling)
           row == CHOOSE r \in reports : r.key = key
           Filled(text) == (reports \ {row}) \union {[row EXCEPT !.text = text]}
<1>1. /\ UNCHANGED <<today, listing, collector, files>> /\ filling' = Tail(filling) /\ filling # << >>
      /\ reports' = reports \/ \E text : reports' = Filled(text)
  BY DEF Fill
<1>2. PICK keys : keys = KeysOf(reports)
  OBVIOUS
<1>3. filling \in Seq(keys)
  BY <1>2 DEF ReportInv
<1>4. key \in keys /\ Tail(filling) \in Seq(keys)
  BY <1>1, <1>3, HeadTailProperties
<1>5. row \in reports /\ row.key = key
  BY <1>2, <1>4 DEF KeysOf
<1> HIDE DEF key, row
<1>6. IsRow(row, files)
  BY <1>5 DEF ReportInv
<1>7. ASSUME NEW text PROVE IsFiniteSet(Filled(text)) /\ (\A r \in Filled(text) : IsRow(r, files)) /\ KeysOf(Filled(text)) = keys
  <2> DEFINE new == [row EXCEPT !.text = text]
  <2>1. new = [key |-> row.key, paper |-> row.paper, text |-> text]
    BY <1>6 DEF IsRow
  <2>2. new.key = row.key /\ new.paper = row.paper /\ new.text = text
    BY <2>1
  <2>3. IsRow(new, files)
    BY <1>6, <2>1, <2>2 DEF IsRow, Fresh
  <2>4. IsFiniteSet(Filled(text))
    BY FS_AddElement, FS_RemoveElement DEF ReportInv
  <2>5. KeysOf(Filled(text)) = keys
    BY <1>2, <1>5, <2>2 DEF KeysOf
  <2> QED BY <2>3, <2>4, <2>5 DEF ReportInv
<1> HIDE DEF Filled
<1>8. IsFiniteSet(reports') /\ (\A r \in reports' : IsRow(r, files)) /\ KeysOf(reports') = keys
  BY <1>1, <1>2, <1>7 DEF ReportInv
<1>9. filling' \in Seq(KeysOf(reports'))
  BY <1>1, <1>4, <1>8
<1> HIDE DEF JobInv, ListInv, IsRow, KeysOf
<1> QED BY <1>1, <1>8, <1>9 DEF ReportInv

LEMMA NextReportInv == ReportInv /\ [ReportNext]_reportVars => ReportInv'
<1> SUFFICES ASSUME ReportInv, [ReportNext]_reportVars PROVE ReportInv'
  OBVIOUS
<1>1. ASSUME NEW p \in Papers, Publish(p) PROVE ReportInv'
  BY <1>1, PublishReportInv
<1>2. CASE Hour \/ BeginFilling \/ Fill
  BY <1>2, HourReportInv, BeginFillingInv, FillReportInv
<1>3. ASSUME NEW c \in Collectors, NEW target \in 0..MaxDays, NEW dated \in BOOLEAN, Start(c, target, dated) PROVE ReportInv'
  BY <1>3, StartReportInv
<1>4. ASSUME NEW c \in Collectors, ReadPage(c) \/ PutsFile(c) \/ StoreRow(c) PROVE ReportInv'
  BY <1>4, ReadReportInv, PutReportInv, StoreReportInv
<1>5. ASSUME NEW c \in Collectors, Take(c) \/ BeginBrief(c) \/ WriteBrief(c) \/ EndCycle(c) \/ Crash(c) PROVE ReportInv'
  BY <1>5, JobReportInv
<1>6. CASE UNCHANGED reportVars
  BY <1>6 DEF reportVars, ReportInv, KeysOf
<1> QED BY <1>1, <1>2, <1>3, <1>4, <1>5, <1>6 DEF ReportNext, CollectNext, FillNext

(* A new report that is shown has its file, and a crawl whose day fits the *)
(* pages it reads gets all that was listed when it began (crawler, ingest),*)
(* however many reports are published meanwhile and however long a page    *)
(* is: what is still to be met stands behind the page that is read next,   *)
(* for the list never has an older day above a younger one.                *)
THEOREM ReportsAreWhole == ReportSpec => []CollectedIsWhole
<1>1. ReportInv => CollectedIsWhole
  BY DEF ReportInv, CollectedIsWhole, JobInv, IsRow, Pdf, Card
<1> QED BY <1>1, InitReportInv, NextReportInv, PTL DEF ReportSpec
===============================================================================
