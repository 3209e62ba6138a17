------------------------------ MODULE MCWorker ------------------------------
(***************************************************************************)
(* What has to keep going: the deep-dive queue with one job and two        *)
(* faults, the research queue, the streams of prices and the nightly       *)
(* backfills.  They share no state here, so a run works one bench and the  *)
(* other three stay as they began.                                         *)
(***************************************************************************)
EXTENDS DeepDiveQueue, ResearchQueue, Realtime, Backfills

VARIABLE bench

benches == <<bench, vars, researchVars, realtimeVars, backfillVars>>

WorkerInit ==
  /\ bench \in {"deepdive", "research", "realtime", "backfills"}
  /\ Init /\ ResearchInit /\ RealtimeInit /\ BackfillInit
  /\ bench = "deepdive" \/ llm
  /\ bench = "research" \/ configured            \* one start of what is left alone
  /\ bench = "backfills" \/ kinds = {"fulltext"}

Analyses == bench = "deepdive" /\ Next /\ UNCHANGED <<bench, researchVars, realtimeVars, backfillVars>>
Studies == bench = "research" /\ ResearchNext /\ UNCHANGED <<bench, vars, realtimeVars, backfillVars>>
Quotes == bench = "realtime" /\ RealtimeNext /\ UNCHANGED <<bench, vars, researchVars, backfillVars>>
Nights == bench = "backfills" /\ BackfillNext /\ UNCHANGED <<bench, vars, researchVars, realtimeVars>>

WorkerNext == Analyses \/ Studies \/ Quotes \/ Nights

\* The fairness of the four modules, each of its own bench.
On(b) == bench = b
WorkerSpec ==
  /\ WorkerInit /\ [][WorkerNext]_benches
  /\ SF_vars(On("deepdive") /\ PollPending) /\ WF_vars(On("deepdive") /\ PollReclaim)
  /\ \A j \in JobIds : WF_vars(On("deepdive") /\ Age(j))
  /\ WF_vars(On("deepdive") /\ Run)
  /\ \A j \in JobIds : SF_vars(On("deepdive") /\ RunOf(j) /\ RunBegin)
  /\ WF_researchVars(On("research") /\ PollStudies) /\ WF_researchVars(On("research") /\ RunStudy)
  /\ \A j \in StudyIds : WF_researchVars(On("research") /\ StudyAges(j))
  /\ \A t \in Tasks : WF_realtimeVars(On("realtime") /\ TaskStep(t))
  /\ WF_realtimeVars(On("realtime") /\ LoopWake) /\ WF_realtimeVars(On("realtime") /\ Approve)
  /\ WF_realtimeVars(On("realtime") /\ Connect) /\ WF_realtimeVars(On("realtime") /\ Notice)
  /\ WF_realtimeVars(On("realtime") /\ KisReceive)
  /\ WF_backfillVars(On("backfills") /\ NightFalls)
  /\ WF_backfillVars(On("backfills") /\ (NightStep \/ ReportStored))
  /\ WF_backfillVars(On("backfills") /\ DayBreaks)

\* The backfills that run in one night: those of scheduler.py at the same hour.
TwoAtOnce == {{"report", "related"}, {"financials", "ofs"}, {"sce", "capex"}, {"fulltext"}}

(* From the streams to KIS.  No stream's end or cancellation leaks or drops *)
(* a count.  When all is quiet, KIS has exactly the desired codes but those  *)
(* it refused, save codes in which the reconciliation that began last and    *)
(* one of the other task, under way at its beginning, differ: while a send   *)
(* waits the desired codes change, and the older copy is worked off last.    *)
(* And a stream that stays open gets its code registered, but for the same   *)
(* two reasons; streams and codes are interchangeable in Realtime, so one of *)
(* each stands for all (kis_ws.py 216-296).                                  *)
KisServesStreams ==
  /\ [](\A c \in Quoted : desired[c] = Cardinality(Holders(c)))
  /\ [](Settled => \A c \in Quoted \ crossing : c \in registered <=> c \in Desired \ refused)
  /\ LET s == CHOOSE s \in Streams : TRUE
         c == CHOOSE c \in Quoted : TRUE
     IN stream[s] = {c} ~> stream[s] # {c} \/ c \in registered \cup refused \cup crossing

(* Liveness.  The turn of every stock comes on the backfills' own bench (see *)
(* EveryStockIsServed); the other benches have no nights.                    *)
StocksAreServed == On("backfills") => EveryStockIsServed
=============================================================================
