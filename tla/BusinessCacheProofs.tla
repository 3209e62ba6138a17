-------------------------- MODULE BusinessCacheProofs --------------------------
(***************************************************************************)
(* Proofs about BusinessCache, for any number of batches, filings, research *)
(* jobs, invalidations and crashes.                                        *)
(***************************************************************************)
EXTENDS BusinessCache, TLAPS

\* A pipeline past its gathering carries the hash of a real set of reports.
HashTaken ==
  \A p \in Pipelines :
    pipe[p].at \notin {"idle", "compare", "gather"} => pipe[p].hash \in 1..MaxFilings

\* The research thread has a number left for its summary.
SummaryLeft == research.at # "idle" => merged < MaxResearch

\* The row a merge is about to write back is consistent as well.
ReadRowMatches == research.row.built = research.row.hash

IInv == TypeOK /\ HashTaken /\ SummaryLeft /\ SectionsMatchHash /\ ReadRowMatches

LEMMA InitIInv == Init => IInv
<1> SUFFICES ASSUME Init PROVE IInv
  OBVIOUS
<1>1. NoRow.built = NoRow.hash
  BY DEF NoRow, Row
<1>2. pipe \in [Pipelines -> PipeState] /\ HashTaken
  <2>1. Idle \in PipeState /\ Idle.at = "idle"
    BY CacheAssumption DEF Idle, PipeState
  <2>2. pipe = [p \in Pipelines |-> Idle]
    BY DEF Init
  <2> QED
    BY <2>1, <2>2 DEF HashTaken
<1>3. research \in ResearchState /\ SummaryLeft /\ ReadRowMatches
  BY <1>1 DEF Init, NoResearch, ResearchState, SummaryLeft, ReadRowMatches
<1>4. filed \in 1..MaxFilings /\ merged \in 0..MaxResearch
  BY CacheAssumption DEF Init
<1>5. used \in [{"invalidations", "crashes"} -> Nat]
  BY DEF Init
<1>6. /\ cache \in Rows \cup {NoRow} /\ client \in {"idle", "enqueue"}
      /\ job \in {"none", "pending", "running", "done", "failed"} /\ SectionsMatchHash
  BY <1>1 DEF Init, SectionsMatchHash
<1>7. marked \in BOOLEAN
  BY DEF Init
<1> QED
  BY <1>2, <1>3, <1>4, <1>5, <1>6, <1>7 DEF IInv, TypeOK

\* What a pipeline is moved to is a state of a pipeline.
LEMMA MovePipe ==
  ASSUME TypeOK, HashTaken, NEW p \in Pipelines, NEW s \in PipeState,
         s.at \notin {"idle", "compare", "gather"} => s.hash \in 1..MaxFilings,
         pipe' = [pipe EXCEPT ![p] = s]
  PROVE  /\ pipe' \in [Pipelines -> PipeState]
         /\ HashTaken'
  BY DEF TypeOK, HashTaken

LEMMA StepIInv == IInv /\ [Next]_vars => IInv'
<1> SUFFICES ASSUME IInv, [Next]_vars PROVE IInv'
  OBVIOUS
<1> USE CacheAssumption
<1>t. TypeOK /\ HashTaken /\ SummaryLeft /\ SectionsMatchHash /\ ReadRowMatches
  BY DEF IInv
<1>1. CASE File
  BY <1>1, <1>t DEF File, IInv, TypeOK, HashTaken, SummaryLeft, SectionsMatchHash, ReadRowMatches
<1>2. CASE Get
  BY <1>2, <1>t DEF Get, IInv, TypeOK, HashTaken, SummaryLeft, SectionsMatchHash, ReadRowMatches
<1>3. CASE Invalidate
  BY <1>3, <1>t DEF Invalidate, IInv, TypeOK, HashTaken, SummaryLeft, SectionsMatchHash,
                    ReadRowMatches, NoRow, Row
<1>4. CASE Enqueue
  BY <1>4, <1>t DEF Enqueue, IInv, TypeOK, HashTaken, SummaryLeft, SectionsMatchHash, ReadRowMatches
<1>5. CASE JobStart
  <2>1. At("gather", 0) \in PipeState
    BY DEF At, PipeState
  <2>2. pipe' \in [Pipelines -> PipeState] /\ HashTaken'
    BY <1>5, <1>t, <2>1, MovePipe DEF JobStart, At, Pipelines
  <2> QED
    BY <1>5, <1>t, <2>2 DEF JobStart, IInv, TypeOK, SummaryLeft, SectionsMatchHash, ReadRowMatches
<1>6. CASE JobDone
  <2>1. Idle \in PipeState
    BY DEF Idle, PipeState
  <2>2. pipe' \in [Pipelines -> PipeState] /\ HashTaken'
    BY <1>6, <1>t, <2>1, MovePipe DEF JobDone, Idle, Pipelines
  <2> QED
    BY <1>6, <1>t, <2>2 DEF JobDone, IInv, TypeOK, SummaryLeft, SectionsMatchHash, ReadRowMatches
<1>7. CASE Reclaim
  BY <1>7, <1>t DEF Reclaim, IInv, TypeOK, HashTaken, SummaryLeft, SectionsMatchHash, ReadRowMatches
<1>8. ASSUME NEW p \in Pipelines, Assemble(p) PROVE IInv'
  <2>0. pipe[p] \in PipeState
    BY <1>t DEF TypeOK
  <2>1. CASE Gather(p)
    <3>1. At("guard", filed) \in PipeState
      BY <1>t DEF At, PipeState, TypeOK
    <3>2. pipe' \in [Pipelines -> PipeState] /\ HashTaken'
      BY <2>1, <1>t, <3>1, MovePipe DEF Gather, At, TypeOK
    <3> QED
      BY <2>1, <1>t, <3>2 DEF Gather, IInv, TypeOK, SummaryLeft, SectionsMatchHash, ReadRowMatches
  <2>2. CASE Guard(p)
    <3>1. PICK step \in {"touch", "build"} : pipe' = [pipe EXCEPT ![p] = At(step, pipe[p].hash)]
      BY <2>2 DEF Guard
    <3>2. At(step, pipe[p].hash) \in PipeState /\ At(step, pipe[p].hash).hash \in 1..MaxFilings
      BY <2>2, <2>0, <1>t DEF Guard, At, PipeState, HashTaken
    <3>3. pipe' \in [Pipelines -> PipeState] /\ HashTaken'
      BY <1>t, <3>1, <3>2, MovePipe
    <3> QED
      BY <2>2, <1>t, <3>3 DEF Guard, IInv, TypeOK, SummaryLeft, SectionsMatchHash, ReadRowMatches
  <2>3. CASE Touch(p)
    <3> DEFINE s == At("done", pipe[p].hash)
    <3>1. s \in PipeState /\ s.hash \in 1..MaxFilings
      BY <2>3, <2>0, <1>t DEF Touch, At, PipeState, HashTaken
    <3>2. pipe' = [pipe EXCEPT ![p] = s]
      BY <2>3, <2>0, <1>t DEF Touch, TypeOK
    <3> HIDE DEF s
    <3>3. pipe' \in [Pipelines -> PipeState] /\ HashTaken'
      BY <1>t, <3>1, <3>2, MovePipe
    <3> QED
      BY <2>3, <1>t, <3>3 DEF Touch, IInv, TypeOK, SummaryLeft, SectionsMatchHash, ReadRowMatches
  <2>4. CASE Store(p)
    <3> DEFINE s == At("done", pipe[p].hash)
    <3>1. s \in PipeState /\ s.hash \in 1..MaxFilings
      BY <2>4, <2>0, <1>t DEF Store, At, PipeState, HashTaken
    <3>2. pipe' = [pipe EXCEPT ![p] = s]
      BY <2>4, <2>0, <1>t DEF Store, TypeOK
    <3>3. cache' = Row(s.hash, s.hash, 0)
      BY <2>4 DEF Store, At
    <3> HIDE DEF s
    <3>4. pipe' \in [Pipelines -> PipeState] /\ HashTaken'
      BY <1>t, <3>1, <3>2, MovePipe
    <3>5. cache' \in Rows /\ cache'.built = cache'.hash
      BY <3>1, <3>3 DEF Row, Rows, Hashes
    <3> QED
      BY <2>4, <1>t, <3>4, <3>5 DEF Store, IInv, TypeOK, SummaryLeft, SectionsMatchHash, ReadRowMatches
  <2>5. CASE Fails(p)
    <3>1. Idle \in PipeState
      BY DEF Idle, PipeState
    <3>2. pipe' \in [Pipelines -> PipeState] /\ HashTaken'
      BY <2>5, <1>t, <3>1, MovePipe DEF Fails, Idle
    <3> QED
      BY <2>5, <1>t, <3>2 DEF Fails, IInv, TypeOK, SummaryLeft, SectionsMatchHash, ReadRowMatches
  <2> QED
    BY <1>8, <2>1, <2>2, <2>3, <2>4, <2>5 DEF Assemble
<1>9. ASSUME NEW b \in Batches, Batch(b) PROVE IInv'
  <2>0. b \in Pipelines /\ pipe[b] \in PipeState /\ filed \in 1..MaxFilings
    BY <1>t DEF TypeOK, Pipelines
  <2>1. CASE BatchStart(b)
    <3>1. At("compare", cache.hash) \in PipeState
      BY <1>t DEF At, PipeState, TypeOK, Rows, NoRow, Row, Hashes
    <3>2. pipe' \in [Pipelines -> PipeState] /\ HashTaken'
      BY <2>0, <2>1, <1>t, <3>1, MovePipe DEF BatchStart, At
    <3> QED
      BY <2>1, <1>t, <3>2 DEF BatchStart, IInv, TypeOK, SummaryLeft, SectionsMatchHash, ReadRowMatches
  <2>2. CASE BatchCompare(b)
    <3> DEFINE s == IF pipe[b].hash = filed THEN Idle ELSE At("gather", 0)
    <3>1. s \in PipeState /\ s.at \in {"idle", "gather"}
      BY DEF Idle, At, PipeState
    <3>2. pipe' = [pipe EXCEPT ![b] = s]
      BY <2>0, <2>2, <1>t DEF BatchCompare, TypeOK
    <3> HIDE DEF s
    <3>3. pipe' \in [Pipelines -> PipeState] /\ HashTaken'
      BY <2>0, <1>t, <3>1, <3>2, MovePipe
    <3> QED
      BY <2>2, <1>t, <3>3 DEF BatchCompare, IInv, TypeOK, SummaryLeft, SectionsMatchHash, ReadRowMatches
  <2>3. CASE BatchDone(b)
    <3>1. Idle \in PipeState
      BY DEF Idle, PipeState
    <3>2. pipe' \in [Pipelines -> PipeState] /\ HashTaken'
      BY <2>0, <2>3, <1>t, <3>1, MovePipe DEF BatchDone, Idle
    <3> QED
      BY <2>3, <1>t, <3>2 DEF BatchDone, IInv, TypeOK, SummaryLeft, SectionsMatchHash, ReadRowMatches
  <2> QED
    BY <1>9, <2>1, <2>2, <2>3 DEF Batch
<1>10. CASE ResearchRead
  <2>1. research' = [at |-> "merge", row |-> cache] /\ merged < MaxResearch /\ cache.built = cache.hash
    BY <1>10, <1>t DEF ResearchRead, SectionsMatchHash
  <2> QED
    BY <1>10, <1>t, <2>1 DEF ResearchRead, IInv, TypeOK, HashTaken, SummaryLeft, SectionsMatchHash,
                             ReadRowMatches, ResearchState
<1>11. CASE ResearchMerge
  <2>1. research.row \in Rows \cup {NoRow} /\ merged + 1 \in 0..MaxResearch
    BY <1>11, <1>t DEF ResearchMerge, TypeOK, ResearchState, SummaryLeft
  <2>2. cache' \in Rows /\ cache'.built = cache'.hash
    <3>1. CASE research.row = NoRow
      <4>1. cache' = Row(0, 0, merged + 1)
        BY <1>11, <3>1 DEF ResearchMerge
      <4> QED
        BY <4>1, <2>1 DEF Row, Rows, Hashes
    <3>2. CASE research.row # NoRow
      <4>1. research.row \in Rows /\ cache' = [research.row EXCEPT !.summary = merged + 1]
        BY <1>11, <2>1, <3>2 DEF ResearchMerge
      <4>2. cache' = Row(research.row.hash, research.row.built, merged + 1)
        BY <4>1 DEF Row, Rows
      <4> QED
        BY <4>1, <4>2, <2>1, <1>t DEF Row, Rows, ReadRowMatches
    <3> QED
      BY <3>1, <3>2
  <2>3. research' = [at |-> "close", row |-> research.row]
    BY <1>11, <1>t DEF ResearchMerge, TypeOK, ResearchState
  <2>4. research.at # "idle"
    BY <1>11 DEF ResearchMerge
  <2> QED
    BY <1>11, <1>t, <2>1, <2>2, <2>3, <2>4
    DEF ResearchMerge, IInv, TypeOK, HashTaken, SummaryLeft, SectionsMatchHash, ReadRowMatches, ResearchState
<1>12. CASE ResearchDone
  BY <1>12, <1>t DEF ResearchDone, IInv, TypeOK, HashTaken, SummaryLeft, SectionsMatchHash,
                     ReadRowMatches, NoResearch, ResearchState, NoRow, Row
<1>13. CASE Crash
  BY <1>13, <1>t DEF Crash, IInv, TypeOK, HashTaken, SummaryLeft, SectionsMatchHash,
                     ReadRowMatches, NoResearch, ResearchState, NoRow, Row, Idle, PipeState
<1>15. CASE BackfillStart
  <2>1. At("gather", 0) \in PipeState
    BY DEF At, PipeState
  <2>2. pipe' \in [Pipelines -> PipeState] /\ HashTaken'
    BY <1>15, <1>t, <2>1, MovePipe DEF BackfillStart, At, Pipelines
  <2> QED
    BY <1>15, <1>t, <2>2 DEF BackfillStart, IInv, TypeOK, SummaryLeft, SectionsMatchHash, ReadRowMatches
<1>16. CASE BackfillDone
  <2>1. Idle \in PipeState
    BY DEF Idle, PipeState
  <2>2. pipe' \in [Pipelines -> PipeState] /\ HashTaken'
    BY <1>16, <1>t, <2>1, MovePipe DEF BackfillDone, Idle, Pipelines
  <2> QED
    BY <1>16, <1>t, <2>2 DEF BackfillDone, IInv, TypeOK, SummaryLeft, SectionsMatchHash, ReadRowMatches
<1>14. CASE UNCHANGED vars
  BY <1>14, <1>t DEF vars, IInv, TypeOK, HashTaken, SummaryLeft, SectionsMatchHash, ReadRowMatches
<1> QED
  BY <1>1, <1>2, <1>3, <1>4, <1>5, <1>6, <1>7, <1>8, <1>9, <1>10, <1>11, <1>12, <1>13, <1>14,
     <1>15, <1>16
  DEF Next, Research, Backfill

LEMMA IInvInvariant == Spec => []IInv
  BY InitIInv, StepIInv, PTL DEF Spec

\* Every reachable state of the cache row and its writers is well typed.
THEOREM TypeCorrect == Spec => []TypeOK
<1>1. IInv => TypeOK
  BY DEF IInv
<1> QED
  BY <1>1, IInvInvariant, PTL

\* Whatever batches, the job, merges and deletions write the row in turn, its
\* hash names the reports its sections were built from: assemble_overview's
\* guard never keeps sections of another set of reports.
THEOREM HashIsOfSections == Spec => []SectionsMatchHash
<1>1. IInv => SectionsMatchHash
  BY DEF IInv
<1> QED
  BY <1>1, IInvInvariant, PTL

===============================================================================
