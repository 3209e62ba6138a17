--------------------------- MODULE AnalysisComments ---------------------------
(***************************************************************************)
(* The comment an LLM writes on a company's analysis: kept in one row per  *)
(* company under a hash of what it was asked from, shown while the hash is *)
(* that of the present scores and of the present note of the deep dive,    *)
(* written in the background otherwise.                                    *)
(***************************************************************************)
EXTENDS Integers, FiniteSets

CONSTANTS
  Marks,     \* what the scores of the axes may be, together
  Writers,   \* background tasks at once
  MaxNotes   \* bound: deep dives that end

ASSUME CommentAssumption == Marks # {} /\ MaxNotes \in Nat

VARIABLES
  marks,     \* the scores as they are
  note,      \* the note of the last deep dive, a number of its own
  comment,   \* the row: its hash and what the comment was written from
  writer,    \* the background tasks
  writing    \* hashes a comment is being written for (_inflight)

commentVars == <<marks, note, comment, writer, writing>>

From(m, n) == [marks |-> m, note |-> n]
NoComment == [hash |-> {}, from |-> {}]
Comment(hash, from) == [hash |-> {hash}, from |-> {from}]

Task(at, hash, read) == [at |-> at, hash |-> hash, read |-> read]
NoTask == Task("free", From(CHOOSE m \in Marks : TRUE, 0), 0)

\* Faulty variant: the deep dive's note is left out.
Hash_ScoresOnly(m, n) == From(m, 0)
\* The scores and the note; the facts of the day are taken for constant.
Hash(m, n) == From(m, n)

CommentInit ==
  /\ marks \in Marks /\ note = 0
  /\ comment = NoComment
  /\ writer = [w \in Writers |-> NoTask]
  /\ writing = {}

Shown == comment.hash = {Hash(marks, note)}

\* The page: a comment of another hash is not shown, and one is asked for.
AsksComment ==
  /\ ~Shown
  /\ \E w \in Writers : /\ writer[w].at = "free"
                        /\ writer' = [writer EXCEPT ![w] = Task("asked", Hash(marks, note), 0)]
  /\ UNCHANGED <<marks, note, comment, writing>>

\* A second task of the hash ends at once; the note is read again.
BeginsComment(w) ==
  /\ writer[w].at = "asked"
  /\ IF writer[w].hash \in writing
       THEN writer' = [writer EXCEPT ![w] = NoTask] /\ writing' = writing
       ELSE /\ writer' = [writer EXCEPT ![w] = Task("writes", writer[w].hash, note)]
            /\ writing' = writing \union {writer[w].hash}
  /\ UNCHANGED <<marks, note, comment>>

\* The LLM answered and the row is upserted, or nothing is kept.
EndsComment(w) ==
  /\ writer[w].at = "writes"
  /\ comment' \in {comment, Comment(writer[w].hash, From(writer[w].hash.marks, writer[w].read))}
  /\ writer' = [writer EXCEPT ![w] = NoTask]
  /\ writing' = writing \ {writer[w].hash}
  /\ UNCHANGED <<marks, note>>

MarksMove ==
  /\ marks' \in Marks
  /\ UNCHANGED <<note, comment, writer, writing>>

\* A deep dive ends: its line replaces the last one's.
DeepDiveEnds ==
  /\ note < MaxNotes
  /\ note' = note + 1
  /\ UNCHANGED <<marks, comment, writer, writing>>

\* The process is replaced: its tasks and its guard are gone.
PageRestarts ==
  /\ writing # {} \/ \E w \in Writers : writer[w].at # "free"
  /\ writer' = [w \in Writers |-> NoTask] /\ writing' = {}
  /\ UNCHANGED <<marks, note, comment>>

CommentNext ==
  \/ AsksComment \/ MarksMove \/ DeepDiveEnds \/ PageRestarts
  \/ \E w \in Writers : BeginsComment(w) \/ EndsComment(w)

CommentSpec == CommentInit /\ [][CommentNext]_commentVars

-----------------------------------------------------------------------------

Asked == [marks : Marks, note : Nat]

CommentTypeOK ==
  /\ marks \in Marks /\ note \in 0..MaxNotes
  /\ comment \in [hash : SUBSET Asked, from : SUBSET Asked]
  /\ writer \in [Writers -> [at : {"free", "asked", "writes"}, hash : Asked, read : Nat]]
  /\ writing \subseteq Asked

\* A comment that is shown was written from the scores and the note beside it,
\* although the writer reads the note again and another may have ended before.
ShownIsOfItsScores == Shown => comment.from = {From(marks, note)}

\* One comment is written at a time for one hash (_inflight).
WrittenOnce ==
  \A v, w \in Writers :
    (v # w /\ writer[v].at = "writes" /\ writer[w].at = "writes") => writer[v].hash # writer[w].hash
=============================================================================
