------------------------- MODULE BusinessOntologyProofs -------------------------
(***************************************************************************)
(* The types of the graph's sessions, that a row's id goes with its status, *)
(* and that a thread at work is shown, for any writers and names; and that *)
(* the graphs as they are read show an edge from both its ends.            *)
(***************************************************************************)
EXTENDS BusinessOntology, GraphReading, TLAPS

\* A row as IdIsOfStatus wants it.
Sound(row) ==
  /\ row.status = "canonical" => row.id # "none"
  /\ row.status = "pending_review" => row.id = "none"

\* Rows that are not committed yet are as sound as those that are.
RowsAreSound ==
  /\ \A n \in Names : Sound(nodes[n])
  /\ \A s \in Sessions, n \in Names : Sound(wrote[s][n])

\* The lock is held from the start of a thread to the last it does.
LockIsHeld ==
  /\ tx["reprocess"].at # "idle" => locked /\ running /\ closing = "none"
  /\ closing # "none" => locked

\* A writer that writes has the node its edges start from.
SourceIsSet == \A w \in Writers : tx[w].at = "write" => tx[w].src \in Companies

IInv == TypeOK /\ RowsAreSound /\ LockIsHeld /\ SourceIsSet

-------------------------------------------------------------------------------
(***************************************************************************)
(* Rows.                                                                   *)
(***************************************************************************)

\* What the normalizer or the thread says is a sound row.
LEMMA WrittenRows ==
  ASSUME TypeOK, NEW n \in Names
  PROVE  /\ Resolved(n) \in Nodes /\ Sound(Resolved(n))
         /\ Rejudged(n) \in Nodes /\ Sound(Rejudged(n))
<1>1. Resolution[n] \in Statuses /\ nodes[n] \in Nodes
  BY OntologyAssumption DEF TypeOK
<1>2. Resolved(n) \in Nodes /\ Sound(Resolved(n))
  BY <1>1 DEF Resolved, Node, Nodes, Sound, Statuses
<1>3. Rejudged(n) \in Nodes /\ Sound(Rejudged(n))
  BY <1>1 DEF Rejudged, Node, Nodes, Sound, Statuses
<1>4. QED
  BY <1>2, <1>3

\* A commit merges sound rows into sound rows.
LEMMA MergedRows ==
  ASSUME TypeOK, RowsAreSound, NEW s \in Sessions
  PROVE  Merged(s) \in [Names -> Nodes] /\ \A n \in Names : Sound(Merged(s)[n])
BY DEF TypeOK, RowsAreSound, Merged

LEMMA NothingRows ==
  Nothing \in [Names -> Nodes] /\ \A n \in Names : Sound(Nothing[n])
BY DEF Nothing, Absent, Node, Nodes, Sound, Statuses

LEMMA TxTypes ==
  ASSUME NEW at \in {"idle", "ensure", "judge", "write", "store", "broken"},
         NEW src \in Companies \cup {None}, NEW todo \in SUBSET Names,
         NEW want \in Names \cup {None}
  PROVE  Tx(at, src, todo, want) \in TxState /\ Tx(at, src, todo, want).at = at
BY DEF Tx, TxState

\* What a step that replaces one session's transaction has to show.
LEMMA SetTx ==
  ASSUME IInv, NEW s \in Sessions, NEW new \in TxState,
         tx' = [tx EXCEPT ![s] = new],
         s = "reprocess" => new.at = "idle" \/ (locked' /\ running' /\ closing' = "none"),
         s # "reprocess" => UNCHANGED <<locked, running, closing>>,
         closing' # "none" => locked',
         s # "reprocess" /\ new.at = "write" => new.src \in Companies
  PROVE  tx' \in [Sessions -> TxState] /\ LockIsHeld' /\ SourceIsSet'
<1>1. tx' \in [Sessions -> TxState]
  BY DEF IInv, TypeOK
<1>5. ASSUME NEW w \in Writers, tx'[w].at = "write"
      PROVE  tx'[w].src \in Companies
  <2>1. w \in Sessions /\ w # "reprocess"
    BY OntologyAssumption DEF Sessions
  <2>2. CASE w = s
    BY <1>5, <2>1, <2>2 DEF IInv, TypeOK
  <2>3. CASE w # s
    <3>1. tx'[w] = tx[w]
      BY <2>1, <2>3 DEF IInv, TypeOK
    <3>2. QED
      BY <1>5, <3>1 DEF IInv, SourceIsSet
  <2>4. QED
    BY <2>2, <2>3
<1>2. CASE s = "reprocess"
  <2>1. tx'["reprocess"] = new
    BY <1>2 DEF IInv, TypeOK
  <2>2. QED
    BY <1>1, <1>2, <1>5, <2>1 DEF LockIsHeld, SourceIsSet
<1>3. CASE s # "reprocess"
  <2>1. "reprocess" \in Sessions
    BY DEF Sessions
  <2>2. tx'["reprocess"] = tx["reprocess"]
    BY <1>3, <2>1 DEF IInv, TypeOK
  <2>3. QED
    BY <1>1, <1>3, <1>5, <2>2 DEF LockIsHeld, SourceIsSet, IInv
<1>4. QED
  BY <1>2, <1>3

\* What a step that replaces the rows one session wrote has to show.
LEMMA SetWrote ==
  ASSUME IInv, NEW s \in Sessions, NEW written \in [Names -> Nodes],
         \A n \in Names : Sound(written[n]),
         wrote' = [wrote EXCEPT ![s] = written]
  PROVE  /\ wrote' \in [Sessions -> [Names -> Nodes]]
         /\ \A k \in Sessions, n \in Names : Sound(wrote'[k][n])
<1>1. wrote' \in [Sessions -> [Names -> Nodes]]
  BY DEF IInv, TypeOK
<1>2. ASSUME NEW k \in Sessions, NEW n \in Names
      PROVE  Sound(wrote'[k][n])
  <2>1. CASE k = s
    BY <2>1 DEF IInv, TypeOK
  <2>2. CASE k # s
    <3>1. wrote'[k] = wrote[k]
      BY <2>2 DEF IInv, TypeOK
    <3>2. QED
      BY <3>1 DEF IInv, RowsAreSound
  <2>3. QED
    BY <2>1, <2>2
<1>3. QED
  BY <1>1, <1>2

-------------------------------------------------------------------------------
(***************************************************************************)
(* The invariant.                                                          *)
(***************************************************************************)

\* It holds of an empty graph and of one with names left pending.
THEOREM InitInv == Init => IInv
<1> SUFFICES ASSUME Init PROVE IInv
  OBVIOUS
<1>1. nodes \in [Names -> Nodes] /\ \A n \in Names : Sound(nodes[n])
  BY DEF Init, Absent, Node, Nodes, Sound, Statuses
<1>2. Idle \in TxState /\ Idle.at = "idle"
  BY TxTypes DEF Idle
<1>3. TypeOK
  BY <1>1, <1>2, NothingRows DEF Init, TypeOK, NoReview
<1>4. RowsAreSound
  BY <1>1, NothingRows DEF Init, RowsAreSound
<1>5. LockIsHeld
  <2>1. "reprocess" \in Sessions
    BY DEF Sessions
  <2>2. QED
    BY <1>2, <2>1 DEF Init, LockIsHeld
<1>6. SourceIsSet
  <2>1. Writers \subseteq Sessions
    BY DEF Sessions
  <2>2. QED
    BY <1>2, <2>1 DEF Init, SourceIsSet
<1>7. QED
  BY <1>3, <1>4, <1>5, <1>6 DEF IInv

\* A write of one row keeps it.
LEMMA WriteInv ==
  ASSUME IInv, NEW s \in Sessions, NEW n \in Names, NEW row \in Nodes, Sound(row),
         Write(s, n, row)
  PROVE  IInv'
<1> DEFINE written == [wrote[s] EXCEPT ![n] = row]
           new == Tx("write", tx[s].src, tx[s].todo \ {n}, None)
<1>1. written \in [Names -> Nodes] /\ \A m \in Names : Sound(written[m])
  BY DEF IInv, TypeOK, RowsAreSound
<1>2. wrote' = [wrote EXCEPT ![s] = written]
  BY DEF Write
<1>3. /\ wrote' \in [Sessions -> [Names -> Nodes]]
      /\ \A k \in Sessions, m \in Names : Sound(wrote'[k][m])
  BY <1>1, <1>2, SetWrote
<1>4. tx[s] \in TxState
  BY DEF IInv, TypeOK
<1>5. new \in TxState
  BY <1>4, TxTypes DEF TxState
<1>6. tx' = [tx EXCEPT ![s] = new] /\ tx[s].at = "write" /\ UNCHANGED <<locked, running, closing>>
  BY DEF Write
<1>a. s # "reprocess" /\ new.at = "write" => new.src \in Companies
  BY <1>6 DEF IInv, SourceIsSet, Sessions, Tx
<1>7. tx' \in [Sessions -> TxState] /\ LockIsHeld' /\ SourceIsSet'
  BY <1>5, <1>6, <1>a, SetTx DEF IInv, LockIsHeld
<1>8. UNCHANGED <<nodes, sources, review, locked, running, closing>>
  BY DEF Write
<1>9. QED
  BY <1>3, <1>7, <1>8 DEF IInv, TypeOK, RowsAreSound

LEMMA WaitInv ==
  ASSUME IInv, NEW s \in Sessions, NEW n \in Names, Wait(s, n)
  PROVE  IInv'
<1> DEFINE new == Tx("write", tx[s].src, tx[s].todo, n)
<1>1. tx[s] \in TxState
  BY DEF IInv, TypeOK
<1>2. new \in TxState
  BY <1>1, TxTypes DEF TxState
<1>3. tx' = [tx EXCEPT ![s] = new] /\ tx[s].at = "write" /\ UNCHANGED <<locked, running, closing>>
  BY DEF Wait
<1>a. s # "reprocess" /\ new.at = "write" => new.src \in Companies
  BY <1>3 DEF IInv, SourceIsSet, Sessions, Tx
<1>4. tx' \in [Sessions -> TxState] /\ LockIsHeld' /\ SourceIsSet'
  BY <1>2, <1>3, <1>a, SetTx DEF IInv, LockIsHeld
<1>5. UNCHANGED <<nodes, wrote, sources, review, locked, running, closing>>
  BY DEF Wait
<1>6. QED
  BY <1>4, <1>5 DEF IInv, TypeOK, RowsAreSound

\* A step of a writer's transaction keeps it.
LEMMA WriterInv ==
  ASSUME IInv, NEW w \in Writers,
         \/ \E m \in SUBSET Names : Begin(w, m)
         \/ Ensure(w) \/ Commit(w) \/ StatementFails(w) \/ Store(w)
  PROVE  IInv'
<1>1. w \in Sessions /\ w # "reprocess"
  BY OntologyAssumption DEF Sessions
<1>2. UNCHANGED <<locked, running, closing, review>>
  BY DEF Begin, Ensure, Commit, StatementFails, Store
<1>3. closing' # "none" => locked'
  BY <1>2 DEF IInv, LockIsHeld
<1>4. tx[w] \in TxState
  BY <1>1 DEF IInv, TypeOK
<1>5. Own[w] \in Companies /\ Companies \subseteq Names
  BY OntologyAssumption
<1>6. tx' \in [Sessions -> TxState] /\ LockIsHeld' /\ SourceIsSet'
  <2>1. \E new \in TxState : /\ tx' = [tx EXCEPT ![w] = new]
                             /\ new.at = "write" => new.src \in Companies
    <3>1. ASSUME NEW m \in SUBSET Names, Begin(w, m)
          PROVE  tx' = [tx EXCEPT ![w] = Tx("ensure", None, m, None)]
      BY <3>1 DEF Begin
    <3>2. CASE Ensure(w)
      <4>1. CASE \E c \in Companies : tx' = [tx EXCEPT ![w] = Tx("write", c, tx[w].todo, None)]
        <5>1. PICK c \in Companies : tx' = [tx EXCEPT ![w] = Tx("write", c, tx[w].todo, None)]
          BY <4>1
        <5>2. Tx("write", c, tx[w].todo, None) \in TxState
          BY <1>4, TxTypes DEF TxState
        <5>3. Tx("write", c, tx[w].todo, None).src = c
          BY DEF Tx
        <5>4. QED
          BY <5>1, <5>2, <5>3
      <4>2. CASE tx' = [tx EXCEPT ![w] = Tx("write", Own[w], tx[w].todo \cup {Own[w]}, Own[w])]
        <5> DEFINE new == Tx("write", Own[w], tx[w].todo \cup {Own[w]}, Own[w])
        <5>a. tx[w].todo \cup {Own[w]} \in SUBSET Names /\ Own[w] \in Names
          BY <1>4, <1>5 DEF TxState
        <5>1. new \in TxState
          BY <1>5, <5>a, TxTypes
        <5>2. new.src = Own[w]
          BY DEF Tx
        <5>3. QED
          BY <1>5, <4>2, <5>1, <5>2
      <4>3. QED
        BY <3>2, <4>1, <4>2 DEF Ensure
    <3>a. \A at \in {"store", "broken", "idle"} :
            Tx(at, None, {}, None) \in TxState /\ Tx(at, None, {}, None).at # "write"
      BY TxTypes
    <3>3. CASE Commit(w)
      BY <3>3, <3>a DEF Commit
    <3>4. CASE StatementFails(w)
      BY <3>4, <3>a DEF StatementFails
    <3>5. CASE Store(w)
      BY <3>5, <3>a DEF Store, Idle
    <3>6. QED
      BY <3>1, <3>2, <3>3, <3>4, <3>5, TxTypes
  <2>2. QED
    BY <1>1, <1>2, <1>3, <2>1, SetTx
<1>7. /\ wrote' \in [Sessions -> [Names -> Nodes]]
      /\ \A k \in Sessions, n \in Names : Sound(wrote'[k][n])
  <2>1. CASE wrote' = wrote
    BY <2>1 DEF IInv, TypeOK, RowsAreSound
  <2>2. CASE wrote' = [wrote EXCEPT ![w] = Nothing]
    BY <1>1, <2>2, NothingRows, SetWrote
  <2>3. QED
    BY <2>1, <2>2 DEF Begin, Ensure, Commit, StatementFails, Store
<1>8. nodes' \in [Names -> Nodes] /\ \A n \in Names : Sound(nodes'[n])
  <2>1. CASE nodes' = nodes
    BY <2>1 DEF IInv, TypeOK, RowsAreSound
  <2>2. CASE nodes' = Merged(w)
    BY <1>1, <2>2, MergedRows DEF IInv
  <2>3. QED
    BY <2>1, <2>2 DEF Begin, Ensure, Commit, StatementFails, Store
<1>9. sources' \in SUBSET Companies
  <2>1. CASE Commit(w)
    <3>1. CASE sources' = sources
      BY <3>1 DEF IInv, TypeOK
    <3>2. CASE sources' = sources \cup {tx[w].src}
      <4>1. tx[w].src \in Companies
        BY <2>1 DEF Commit, IInv, SourceIsSet
      <4>2. QED
        BY <3>2, <4>1 DEF IInv, TypeOK
    <3>3. QED
      BY <2>1, <3>1, <3>2 DEF Commit
  <2>2. CASE sources' = sources
    BY <2>2 DEF IInv, TypeOK
  <2>3. QED
    BY <2>1, <2>2 DEF Begin, Ensure, StatementFails, Store
<1>10. QED
  BY <1>2, <1>6, <1>7, <1>8, <1>9 DEF IInv, TypeOK, RowsAreSound

\* A step of the review keeps it.
LEMMA ReviewInv ==
  ASSUME IInv,
         \/ \E n \in Names, accept \in BOOLEAN : ReviewLoad(n, accept)
         \/ ReviewWrite
  PROVE  IInv'
<1>1. UNCHANGED <<wrote, tx, sources, locked, running, closing>>
  BY DEF ReviewLoad, ReviewWrite
<1>2. nodes' \in [Names -> Nodes] /\ \A n \in Names : Sound(nodes'[n])
  <2>1. CASE \E n \in Names, accept \in BOOLEAN : ReviewLoad(n, accept)
    BY <2>1 DEF ReviewLoad, IInv, TypeOK, RowsAreSound
  <2>2. CASE ReviewWrite
    <3> DEFINE n == review.name
               row == IF review.accept THEN Node("canonical", "person")
                                       ELSE Node("rejected", nodes[n].id)
    <3>1. nodes' = [nodes EXCEPT ![n] = row]
      BY <2>2 DEF ReviewWrite
    <3>2. CASE n \in Names
      <4>1. row \in Nodes /\ Sound(row)
        BY <3>2 DEF IInv, TypeOK, Nodes, Node, Sound, Statuses
      <4>2. QED
        BY <3>1, <4>1 DEF IInv, TypeOK, RowsAreSound
    <3>3. CASE n \notin Names
      <4>1. nodes' = nodes
        BY <3>1, <3>3 DEF IInv, TypeOK
      <4>2. QED
        BY <4>1 DEF IInv, TypeOK, RowsAreSound
    <3>4. QED
      BY <3>2, <3>3
  <2>3. QED
    BY <2>1, <2>2
<1>3. review' \in [name : Names \cup {None}, accept : BOOLEAN]
  <2>1. ASSUME NEW n \in Names, NEW accept \in BOOLEAN, ReviewLoad(n, accept)
        PROVE  review' \in [name : Names \cup {None}, accept : BOOLEAN]
    <3>1. review' = [name |-> n, accept |-> accept]
      BY <2>1 DEF ReviewLoad
    <3>2. QED
      BY <3>1
  <2>2. CASE ReviewWrite
    <3>1. review' = [name |-> None, accept |-> FALSE]
      BY <2>2 DEF ReviewWrite, NoReview
    <3>2. QED
      BY <3>1
  <2>3. QED
    BY <2>1, <2>2
<1>4. QED
  BY <1>1, <1>2, <1>3 DEF IInv, TypeOK, RowsAreSound, LockIsHeld, SourceIsSet

\* A step of the thread, its start or its end keeps it.
LEMMA ThreadInv ==
  ASSUME IInv,
         Start \/ Load \/ Reprocessed \/ Close \/ \E keep \in SUBSET Names : Judge(keep)
  PROVE  IInv'
<1>1. "reprocess" \in Sessions
  BY DEF Sessions
<1>2. CASE Close
  BY <1>2 DEF Close, IInv, TypeOK, RowsAreSound, LockIsHeld, SourceIsSet
<1>3. CASE ~Close
  <2>1. tx["reprocess"] \in TxState
    BY <1>1 DEF IInv, TypeOK
  <2>2. UNCHANGED <<sources, review>>
    BY <1>3 DEF Start, Load, Reprocessed, Judge
  <2>3. tx' \in [Sessions -> TxState] /\ LockIsHeld' /\ SourceIsSet'
    <3>1. CASE Start
      <4>1. tx' = [tx EXCEPT !["reprocess"] = Tx("ensure", None, {}, None)]
        BY <3>1 DEF Start
      <4>2. locked' /\ running' /\ closing' = "none"
        BY <3>1 DEF Start, IInv, LockIsHeld, TypeOK
      <4>3. QED
        BY <1>1, <4>1, <4>2, TxTypes, SetTx
    <3>2. CASE Load
      <4> DEFINE waiting == {n \in Names : nodes[n].status = "pending_review"}
      <4>1. tx' = [tx EXCEPT !["reprocess"] = Tx("judge", None, waiting, None)]
        BY <3>2 DEF Load
      <4>2. locked' /\ running' /\ closing' = "none"
        BY <3>2 DEF Load, IInv, LockIsHeld
      <4>3. waiting \in SUBSET Names
        OBVIOUS
      <4>4. Tx("judge", None, waiting, None) \in TxState
        BY <4>3, TxTypes
      <4>5. QED
        BY <1>1, <4>1, <4>2, <4>4, SetTx
    <3>3. ASSUME NEW keep \in SUBSET Names, Judge(keep)
          PROVE  tx' \in [Sessions -> TxState] /\ LockIsHeld' /\ SourceIsSet'
      <4>1. tx' = [tx EXCEPT !["reprocess"] = Tx("write", None, tx["reprocess"].todo \ keep, None)]
        BY <3>3 DEF Judge
      <4>2. locked' /\ running' /\ closing' = "none"
        BY <3>3 DEF Judge, IInv, LockIsHeld
      <4>3. tx["reprocess"].todo \ keep \in SUBSET Names
        BY <2>1 DEF TxState
      <4>4. Tx("write", None, tx["reprocess"].todo \ keep, None) \in TxState
        BY <4>3, TxTypes
      <4>5. QED
        BY <1>1, <4>1, <4>2, <4>4, SetTx
    <3>4. CASE Reprocessed
      <4>1. tx' = [tx EXCEPT !["reprocess"] = Idle]
        BY <3>4 DEF Reprocessed
      <4>2. Idle \in TxState /\ Idle.at = "idle"
        BY TxTypes DEF Idle
      <4>3. tx["reprocess"].at # "idle" /\ UNCHANGED locked
        BY <3>4 DEF Reprocessed
      <4>4. closing' # "none" => locked'
        BY <4>3 DEF IInv, LockIsHeld
      <4>5. tx' \in [Sessions -> TxState]
        BY <4>1, <4>2 DEF IInv, TypeOK
      <4>6. LockIsHeld'
        <5>1. tx'["reprocess"].at = "idle"
          BY <1>1, <4>1, <4>2 DEF IInv, TypeOK
        <5>2. QED
          BY <4>4, <5>1 DEF LockIsHeld
      <4>7. ASSUME NEW w \in Writers, tx'[w].at = "write"
            PROVE  tx'[w].src \in Companies
        <5>1. w \in Sessions /\ w # "reprocess"
          BY OntologyAssumption DEF Sessions
        <5>2. tx'[w] = tx[w]
          BY <4>1, <5>1 DEF IInv, TypeOK
        <5>3. QED
          BY <4>7, <5>2 DEF IInv, SourceIsSet
      <4>8. QED
        BY <4>5, <4>6, <4>7 DEF SourceIsSet
    <3>5. QED
      BY <1>3, <3>1, <3>2, <3>3, <3>4
  <2>4. /\ wrote' \in [Sessions -> [Names -> Nodes]]
        /\ \A k \in Sessions, n \in Names : Sound(wrote'[k][n])
    <3>1. CASE wrote' = wrote
      BY <3>1 DEF IInv, TypeOK, RowsAreSound
    <3>2. CASE wrote' = [wrote EXCEPT !["reprocess"] = Nothing]
      BY <1>1, <3>2, NothingRows, SetWrote
    <3>3. QED
      BY <1>3, <3>1, <3>2 DEF Start, Load, Reprocessed, Judge
  <2>5. nodes' \in [Names -> Nodes] /\ \A n \in Names : Sound(nodes'[n])
    <3>1. CASE nodes' = nodes
      BY <3>1 DEF IInv, TypeOK, RowsAreSound
    <3>2. CASE nodes' = Merged("reprocess")
      BY <1>1, <3>2, MergedRows DEF IInv
    <3>3. QED
      BY <1>3, <3>1, <3>2 DEF Start, Load, Reprocessed, Judge
  <2>6. locked' \in BOOLEAN /\ running' \in BOOLEAN /\ closing' \in {"none", "clear", "release"}
    BY <1>3 DEF Start, Load, Reprocessed, Judge, IInv, TypeOK
  <2>7. QED
    BY <2>2, <2>3, <2>4, <2>5, <2>6 DEF IInv, TypeOK, RowsAreSound
<1>4. QED
  BY <1>2, <1>3

THEOREM NextInv == IInv /\ [Next]_vars => IInv'
<1> SUFFICES ASSUME IInv, [Next]_vars PROVE IInv'
  OBVIOUS
<1>1. ASSUME NEW w \in Writers,
             StatementFails(w) \/ Goes(w) \/ \E m \in SUBSET Names : Begin(w, m)
      PROVE  IInv'
  <2>1. w \in Sessions
    BY DEF Sessions
  <2>2. ASSUME NEW n \in Names, Upsert(w, n)
        PROVE  IInv'
    <3>1. Resolved(n) \in Nodes /\ Sound(Resolved(n))
      BY WrittenRows DEF IInv
    <3>2. QED
      BY <2>1, <2>2, <3>1, WriteInv DEF Upsert
  <2>3. ASSUME NEW n \in Names, Wait(w, n)
        PROVE  IInv'
    BY <2>1, <2>3, WaitInv
  <2>4. QED
    BY <1>1, <2>2, <2>3, WriterInv DEF Goes
<1>2. CASE ReviewWrite \/ \E n \in Names, accept \in BOOLEAN : ReviewLoad(n, accept)
  BY <1>2, ReviewInv
<1>3. CASE Start \/ Reprocess
  <2>1. "reprocess" \in Sessions
    BY DEF Sessions
  <2>2. ASSUME NEW n \in Names, Rewrite(n)
        PROVE  IInv'
    <3>1. Rejudged(n) \in Nodes /\ Sound(Rejudged(n))
      BY WrittenRows DEF IInv
    <3>2. QED
      BY <2>1, <2>2, <3>1, WriteInv DEF Rewrite
  <2>3. ASSUME NEW n \in Names, Wait("reprocess", n)
        PROVE  IInv'
    BY <2>1, <2>3, WaitInv
  <2>4. QED
    BY <1>3, <2>2, <2>3, ThreadInv DEF Reprocess
<1>4. CASE UNCHANGED vars
  BY <1>4 DEF vars, IInv, TypeOK, RowsAreSound, LockIsHeld, SourceIsSet
<1>5. QED
  BY <1>1, <1>2, <1>3, <1>4 DEF Next

\* The strengthened invariant.
THEOREM AlwaysInv == Spec => []IInv
<1>1. QED
  BY InitInv, NextInv, PTL DEF Spec

\* Sessions, rows, the lock and the flag keep their types (TypeOK).
THEOREM TypeCorrect == Spec => []TypeOK
<1>1. IInv => TypeOK
  BY DEF IInv
<1>2. QED
  BY <1>1, AlwaysInv, PTL

\* However many sessions write a row, with whichever of its columns, a canonical
\* row has an id and a pending one has none (IdIsOfStatus).
THEOREM IdsFollowStatus == Spec => []IdIsOfStatus
<1>1. IInv => IdIsOfStatus
  BY DEF IInv, RowsAreSound, Sound, IdIsOfStatus
<1>2. QED
  BY <1>1, AlwaysInv, PTL

\* A thread at work is shown as running, because it holds the lock
\* (RunningIsShown).
THEOREM WorkIsShown == Spec => []RunningIsShown
<1>1. IInv => RunningIsShown
  BY DEF IInv, LockIsHeld, RunningIsShown
<1>2. QED
  BY <1>1, AlwaysInv, PTL


-------------------------------------------------------------------------------
(***************************************************************************)
(* The graphs as they are read.  A row is of one of the types, with an id  *)
(* if it is canonical and without one if not; a link leads from its        *)
(* company's own row to a row that is there.                               *)
(***************************************************************************)
RowSound(r) ==
  /\ r = Row(r.issuer, r.type, r.text, Verdict(r.id, r.status)) /\ r.type \in Types
  /\ r.status = "canonical" => IsId(r.id)
  /\ r.status # "canonical" => r.id = NoId
LinkSound(l, R) == OwnRow(l.issuer) \in R /\ \E r \in R : KeyOf(r) = l.to
GraphInv == (\A r \in rows : RowSound(r)) /\ (\A l \in links : LinkSound(l, rows))

\* An id is neither the missing one nor the reference of a row without one.
LEMMA IdsApart ==
  ASSUME NEW id, IsId(id)
  PROVE  id # NoId /\ \A type \in Types : \A text : id # <<type, text>>
<1>1. IdPrefixes \subseteq {"CMP_KRX", "IND_GICS", "PRD", "PRD_AUTO", "MAT", "MAT_AUTO", "SEG", "SEG_AUTO", "CMP_GLOBAL"}
  <2> SUFFICES ASSUME NEW p \in IdPrefixes
               PROVE  p \in {"CMP_KRX", "IND_GICS", "PRD", "PRD_AUTO", "MAT", "MAT_AUTO", "SEG", "SEG_AUTO", "CMP_GLOBAL"}
    OBVIOUS
  <2>1. CASE p = "CMP_GLOBAL"
    BY <2>1
  <2>2. CASE \E type \in Types : p \in PrefixOf[type]
    BY <2>2 DEF Types, PrefixOf
  <2> QED BY <2>1, <2>2 DEF IdPrefixes
<1>2. id[1] \notin Types \union {"none"}
  BY <1>1 DEF IsId, Types
<1>3. \A type, text : <<type, text>>[1] = type
  OBVIOUS
<1> QED BY <1>2, <1>3 DEF NoId, Id

LEMMA PrefixesAreIds ==
  /\ \A key : IsId(Id("CMP_KRX", key)) /\ IsId(Id("CMP_GLOBAL", key)) /\ IsId(Id("PRD_AUTO", key))
              /\ IsId(Id("MAT_AUTO", key)) /\ IsId(Id("SEG_AUTO", key))
<1>1. "CMP_GLOBAL" \in IdPrefixes
  BY DEF IdPrefixes
<1>2. \A type \in Types : PrefixOf[type] \subseteq IdPrefixes
  BY DEF IdPrefixes
<1>3. {"company", "product", "raw_material", "segment"} \subseteq Types
  BY DEF Types
<1>4. /\ "CMP_KRX" \in PrefixOf["company"] /\ "PRD_AUTO" \in PrefixOf["product"]
      /\ "MAT_AUTO" \in PrefixOf["raw_material"] /\ "SEG_AUTO" \in PrefixOf["segment"]
  BY DEF PrefixOf
<1>5. {"CMP_GLOBAL", "CMP_KRX", "PRD_AUTO", "MAT_AUTO", "SEG_AUTO"} \subseteq IdPrefixes
  BY <1>1, <1>2, <1>3, <1>4
<1>6. \A p, key : Id(p, key)[1] = p
  BY DEF Id
<1> QED BY <1>5, <1>6 DEF IsId

LEMMA OwnIsSound ==
  ASSUME NEW i
  PROVE  RowSound(OwnRow(i)) /\ OwnRow(i).status = "canonical" /\ OwnRow(i).id = Id("CMP_KRX", i) /\ OwnRow(i).issuer = i
<1>1. PICK r : r = OwnRow(i)
  OBVIOUS
<1>2. /\ r.issuer = i /\ r.type = "company" /\ r.text = i /\ r.id = Id("CMP_KRX", i) /\ r.status = "canonical"
      /\ r = Row(r.issuer, r.type, r.text, Verdict(r.id, r.status))
  BY <1>1 DEF OwnRow, Canonical, Row, Verdict
<1>3. "company" \in Types
  BY DEF Types
<1> QED BY <1>1, <1>2, <1>3, PrefixesAreIds DEF RowSound

\* What a name resolves to has an id exactly if it is canonical.
LEMMA ResolveIsSound ==
  ASSUME NEW t \in Terms, NEW type \in Types, NEW v \in Resolve(t, type)
  PROVE  /\ v = Verdict(v.id, v.status)
         /\ v.status = "canonical" => IsId(v.id)
         /\ v.status # "canonical" => v.id = NoId
<1> DEFINE Fine(x) == x = Pending \/ x = Rejected \/ \E id : IsId(id) /\ x = Canonical(id)
<1>1. ASSUME NEW x \in Types, Known(t, x) PROVE IsId(Entry(t, x))
  BY <1>1, GraphAssumption DEF Known, Entry
<1>2. \A x \in {"company", "product", "raw_material", "segment"} : Fine(AutoNew(t, x))
  <2>1. \A x \in {"company", "product", "raw_material", "segment"} : IsId(Id(AutoPrefix[x], Slug(t)))
    <3> HIDE DEF Slug
    <3> QED BY PrefixesAreIds DEF AutoPrefix
  <2> QED BY <2>1 DEF AutoNew
<1>3. {"company", "product", "raw_material", "segment", "industry"} \subseteq Types
  BY DEF Types
<1>4. Fine(v)
  <2>1. CASE type = "company"
    <3>1. v = ResolveCompany(t)
      BY <2>1 DEF Resolve
    <3>2. Fine(ResolveCompany(t))
      BY <1>1, <1>2, <1>3, PrefixesAreIds DEF ResolveCompany
    <3> QED BY <3>1, <3>2
  <2>2. CASE type = "raw_material"
    <3>1. v = ResolveMaterial(t)
      BY <2>2 DEF Resolve
    <3>2. Fine(ResolveMaterial(t))
      BY <1>1, <1>2, <1>3, GraphAssumption DEF ResolveMaterial
    <3> QED BY <3>1, <3>2
  <2>3. CASE type = "industry"
    <3>1. v \in ResolveIndustry(t)
      BY <2>3 DEF Resolve
    <3>2. \A x \in ResolveIndustry(t) : Fine(x)
      BY <1>1, <1>3, GraphAssumption DEF ResolveIndustry
    <3> QED BY <3>1, <3>2
  <2>4. CASE type \in {"product", "segment"}
    <3>1. v = IF Known(t, type) THEN Canonical(Entry(t, type)) ELSE AutoNew(t, type)
      BY <2>4 DEF Resolve
    <3>2. Fine(AutoNew(t, type)) /\ (Known(t, type) => Fine(Canonical(Entry(t, type))))
      BY <1>1, <1>2, <2>4
    <3> HIDE DEF Fine
    <3> QED BY <3>1, <3>2
  <2> QED BY <2>1, <2>2, <2>3, <2>4 DEF Types
<1> QED BY <1>4 DEF Pending, Rejected, Canonical, Verdict

\* The row of a name is made of what the name resolves to.
LEMMA MentionedRow ==
  ASSUME NEW i, NEW type, NEW text, NEW v, NEW id, NEW status, v = Verdict(id, status), NEW r, r = Row(i, type, text, v)
  PROVE  /\ r.type = type /\ r.id = id /\ r.status = status
         /\ r = Row(r.issuer, r.type, r.text, Verdict(r.id, r.status))
BY DEF Row, Verdict

LEMMA MentionInv ==
  ASSUME GraphInv, NEW i \in Issuers, NEW type \in Types, NEW t \in Terms, Mention(i, type, t)
  PROVE  GraphInv'
<1>1. PICK v \in Resolve(t, type) :
        /\ rows' = rows \union {OwnRow(i), Row(i, type, t.text, v)}
        /\ links' = links \union {Link(i, KeyOf(Row(i, type, t.text, v)), KindOf[type])}
  BY DEF Mention
<1>2. PICK r : r = Row(i, type, t.text, v)
  OBVIOUS
<1>3. RowSound(r)
  <2>1. PICK id, status : v = Verdict(id, status) /\ id = v.id /\ status = v.status
    BY ResolveIsSound
  <2>2. /\ r.type = type /\ r.id = id /\ r.status = status
        /\ r = Row(r.issuer, r.type, r.text, Verdict(r.id, r.status))
    BY <1>2, <2>1, MentionedRow
  <2> QED BY <2>1, <2>2, ResolveIsSound DEF RowSound
<1>4. PICK l : l = Link(i, KeyOf(r), KindOf[type]) /\ l.issuer = i /\ l.to = KeyOf(r)
  <2>1. PICK l : l = Link(i, KeyOf(r), KindOf[type])
    OBVIOUS
  <2> HIDE DEF KeyOf, KindOf
  <2> QED BY <2>1 DEF Link
<1>5. rows' = rows \union {OwnRow(i), r} /\ links' = links \union {l}
  BY <1>1, <1>2, <1>4
<1>6. LinkSound(l, rows')
  BY <1>4, <1>5 DEF LinkSound
<1>7. \A k \in links : LinkSound(k, rows')
  BY <1>5 DEF GraphInv, LinkSound
<1>8. RowSound(OwnRow(i))
  BY OwnIsSound
<1> HIDE DEF RowSound, LinkSound
<1> QED BY <1>3, <1>5, <1>6, <1>7, <1>8 DEF GraphInv

\* A review changes the id and the status of a row that is not canonical.
LEMMA JudgedInv ==
  ASSUME GraphInv, NEW r \in rows,
         (\E id \in Industries, action \in {"merge", "new"} : Promote(r, id, action)) \/ Reject(r)
  PROVE  GraphInv'
<1>1. r.status = "pending_review" /\ links' = links
  BY DEF Promote, Reject
<1>2. RowSound(r)
  BY DEF GraphInv
<1>3. PICK q : rows' = (rows \ {r}) \union {q} /\ RowSound(q) /\ KeyOf(q) = KeyOf(r)
  <2>1. PICK i, type, text, id, status : r = Row(i, type, text, Verdict(id, status))
                                         /\ type = r.type /\ id = r.id /\ status = r.status
    BY <1>2 DEF RowSound
  <2>2. PICK newId, newStatus :
          /\ rows' = (rows \ {r}) \union {[r EXCEPT !.id = newId, !.status = newStatus]}
          /\ newStatus = "canonical" => IsId(newId)
          /\ newStatus # "canonical" => newId = NoId
    <3>1. CASE \E x \in Industries, action \in {"merge", "new"} : Promote(r, x, action)
      BY <3>1, GraphAssumption DEF Promote
    <3>2. CASE Reject(r)
      <4>1. [r EXCEPT !.status = "rejected"] = [r EXCEPT !.id = r.id, !.status = "rejected"]
        BY <2>1 DEF Row, Verdict
      <4>2. r.id = NoId
        BY <1>1, <1>2 DEF RowSound
      <4> QED BY <3>2, <4>1, <4>2 DEF Reject
    <3> QED BY <3>1, <3>2
  <2>3. [r EXCEPT !.id = newId, !.status = newStatus] = Row(i, type, text, Verdict(newId, newStatus))
    <3>1. r = [issuer |-> i, type |-> type, text |-> text, id |-> id, status |-> status]
      BY <2>1 DEF Row, Verdict
    <3>2. Row(i, type, text, Verdict(newId, newStatus))
            = [issuer |-> i, type |-> type, text |-> text, id |-> newId, status |-> newStatus]
      BY DEF Row, Verdict
    <3>3. [r EXCEPT !.id = newId, !.status = newStatus]
            = [issuer |-> i, type |-> type, text |-> text, id |-> newId, status |-> newStatus]
      <4>1. r \in [issuer : {i}, type : {type}, text : {text}, id : {id}, status : {status}]
        BY <3>1
      <4>2. [r EXCEPT !.id = newId, !.status = newStatus]
              \in [issuer : {i}, type : {type}, text : {text}, id : {newId}, status : {newStatus}]
        BY <4>1
      <4>3. \A s : s \in [issuer : {i}, type : {type}, text : {text}, id : {newId}, status : {newStatus}]
                => s = [issuer |-> i, type |-> type, text |-> text, id |-> newId, status |-> newStatus]
        OBVIOUS
      <4> QED BY <4>2, <4>3, Zenon
    <3> QED BY <3>2, <3>3
  <2>4. PICK q : q = Row(i, type, text, Verdict(newId, newStatus))
    OBVIOUS
  <2>5. /\ q.issuer = i /\ q.type = type /\ q.text = text /\ q.id = newId /\ q.status = newStatus
        /\ q = Row(q.issuer, q.type, q.text, Verdict(q.id, q.status))
    BY <2>4 DEF Row, Verdict
  <2>6. r.issuer = i /\ r.type = type /\ r.text = text
    <3>1. r = [issuer |-> i, type |-> type, text |-> text, id |-> id, status |-> status]
      BY <2>1 DEF Row, Verdict
    <3> QED BY <3>1
  <2>7. rows' = (rows \ {r}) \union {q}
    BY ONLY <2>2, <2>3, <2>4
  <2>8. RowSound(q)
    BY ONLY <1>2, <2>1, <2>2, <2>5, Zenon DEF RowSound
  <2>9. KeyOf(q) = KeyOf(r)
    BY ONLY <2>5, <2>6 DEF KeyOf
  <2> QED BY ONLY <2>7, <2>8, <2>9
<1>4. ASSUME NEW l \in links PROVE LinkSound(l, rows')
  <2>1. OwnRow(l.issuer) # r
    BY <1>1, OwnIsSound
  <2>2. LinkSound(l, rows)
    BY DEF GraphInv
  <2> QED BY <1>3, <2>1, <2>2 DEF LinkSound
<1> HIDE DEF RowSound, LinkSound
<1> QED BY <1>1, <1>3, <1>4 DEF GraphInv

LEMMA GraphInductive ==
  ASSUME GraphInv, [GraphNext]_graphVars
  PROVE  GraphInv'
<1>1. CASE UNCHANGED <<rows, links>>
  BY <1>1 DEF GraphInv, LinkSound, RowSound
<1>2. ASSUME NEW r \in Readers, FirstCall(r) \/ SetDictionary(r) \/ SetNormalizer(r)
      PROVE  UNCHANGED <<rows, links>>
  BY <1>2 DEF FirstCall, SetDictionary, SetNormalizer
<1>3. Read \/ UNCHANGED graphVars => UNCHANGED <<rows, links>>
  BY DEF Read, graphVars
<1> HIDE DEF GraphInv
<1> QED BY <1>1, <1>2, <1>3, MentionInv, JudgedInv DEF GraphNext

\* The row of a link is there.
LEMMA LinkedRow ==
  ASSUME GraphInv, NEW l \in links
  PROVE  RowAt(l.to) \in rows /\ RowSound(RowAt(l.to)) /\ OwnRow(l.issuer) \in rows
<1>1. PICK r \in rows : KeyOf(r) = l.to
  BY DEF GraphInv, LinkSound
<1>2. \E q \in rows : SameRow(q, [issuer |-> l.to[1], type |-> l.to[2], text |-> l.to[3]])
  BY <1>1 DEF KeyOf, SameRow
<1>3. RowAt(l.to) \in rows
  BY <1>2 DEF RowAt
<1> HIDE DEF RowAt
<1> QED BY <1>3 DEF GraphInv, LinkSound

LEMMA MutualLemma ==
  ASSUME GraphInv
  PROVE  NeighboursAreMutual
<1> SUFFICES ASSUME NEW i \in Issuers, NEW e \in CompanyGraph(i).edges, e.to # e.from
             PROVE  /\ \E n \in Explore(e.from) : n.id = e.to /\ n.kind = e.kind
                    /\ InstancesOf(e.to) # {} => \E n \in Explore(e.to) : n.id = e.from /\ n.kind = e.kind
  BY DEF NeighboursAreMutual
<1>1. PICK l \in links : l.issuer = i /\ e = [from |-> RefOf(OwnRow(i)), to |-> RefOf(RowAt(l.to)), kind |-> l.kind]
  BY DEF CompanyGraph
<1>2. PICK own, row : own = OwnRow(i) /\ row = RowAt(l.to) /\ e.from = RefOf(own) /\ e.to = RefOf(row) /\ e.kind = l.kind
  BY <1>1
<1>3. own \in rows /\ row \in rows /\ RowSound(row)
  BY <1>1, <1>2, LinkedRow
<1>4. own.status = "canonical" /\ IsId(own.id)
  BY <1>2, OwnIsSound, PrefixesAreIds
<1>5. e.from = own.id
  BY <1>2, <1>4, IdsApart DEF RefOf
<1>6. own \in InstancesOf(e.from)
  BY <1>3, <1>4, <1>5 DEF InstancesOf
<1>7. \A q : RowSound(q) /\ q.status = "canonical" => RefOf(q) = q.id
  BY IdsApart DEF RefOf, RowSound
<1>8. \E n \in Explore(e.from) : n.id = e.to /\ n.kind = e.kind
  <2>1. row \notin InstancesOf(e.from)
    BY <1>2, <1>3, <1>7 DEF InstancesOf
  <2>2. PICK n : n = Neighbour(RefOf(RowAt(l.to)), RowAt(l.to).type, l.kind, "out")
    OBVIOUS
  <2>3. n \in Stored(e.from)
    BY <1>1, <1>2, <1>6, <2>1, <2>2 DEF Stored
  <2>4. IsNode(e.from)
    BY <1>3, <1>5 DEF IsNode
  <2>5. n.id = e.to /\ n.kind = e.kind
    BY <1>2, <2>2 DEF Neighbour
  <2> QED BY <2>3, <2>4, <2>5 DEF Explore
<1>9. ASSUME InstancesOf(e.to) # {} PROVE \E n \in Explore(e.to) : n.id = e.from /\ n.kind = e.kind
  <2>1. PICK q \in rows : q.id = e.to /\ q.status = "canonical" /\ IsId(e.to)
    BY <1>9 DEF InstancesOf, GraphInv, RowSound
  <2>2. row.status = "canonical" /\ row.id = e.to
    <3>1. CASE row.status = "canonical"
      BY <1>2, <1>3, <1>7, <3>1
    <3>2. CASE row.status # "canonical"
      <4>1. e.to = <<row.type, row.text>> /\ row.type \in Types
        BY <1>2, <1>3, <3>2 DEF RefOf, RowSound
      <4> QED BY <2>1, <4>1, IdsApart
    <3> QED BY <3>1, <3>2
  <2>3. row \in InstancesOf(e.to) /\ own \notin InstancesOf(e.to)
    BY <1>3, <1>5, <2>2 DEF InstancesOf
  <2>4. PICK n : n = Neighbour(RefOf(OwnRow(l.issuer)), "company", l.kind, "in")
    OBVIOUS
  <2>5. n \in Stored(e.to)
    BY <1>1, <1>2, <2>3, <2>4 DEF Stored
  <2>6. IsNode(e.to)
    BY <1>3, <2>2 DEF IsNode
  <2>7. n.id = e.from /\ n.kind = e.kind
    BY <1>1, <1>2, <2>4 DEF Neighbour
  <2> QED BY <2>5, <2>6, <2>7 DEF Explore
<1> QED BY <1>8, <1>9

\* What a company's graph shows leads there and back, for any companies, names
\* and dictionary, also after reviews (business_ontology.py: explore_node).
THEOREM EdgesAreMutual == GraphSpec => []NeighboursAreMutual
<1>1. GraphInit => GraphInv
  BY DEF GraphInit, GraphInv
<1> HIDE DEF GraphInit, GraphInv, NeighboursAreMutual
<1> QED BY <1>1, GraphInductive, MutualLemma, PTL DEF GraphSpec

===============================================================================
