---------------------------- MODULE BusinessOntology ----------------------------
(***************************************************************************)
(* The ontology graph of one company: rows of nodes, identified by their    *)
(* name, that three kinds of sessions write.                               *)
(*                                                                         *)
(*   - writers: an assembly or a research puts the names it found into the  *)
(*     graph, in one transaction, as the normalizer resolves them;          *)
(*   - a person reviews names the normalizer could not resolve;             *)
(*   - a thread of the API resolves all of them again, with an LLM.         *)
(*                                                                         *)
(* Transactions are PostgreSQL's at READ COMMITTED: what another one wrote  *)
(* is not read before it commits, and a row it wrote is waited for.  Edges  *)
(* all start at one node; of them, only where they start is kept.           *)
(***************************************************************************)
EXTENDS Integers, FiniteSets

CONSTANTS
  Writers,     \* sessions that assemble or merge research
  Names,       \* names of nodes
  Companies,   \* names of company nodes, the company's own and others
  Own,         \* per writer: the name it knows the company by
  Resolution,  \* per name: what the normalizer says
  None         \* no name

Statuses == {"canonical", "pending_review", "rejected"}

ASSUME OntologyAssumption ==
  /\ Companies \subseteq Names
  /\ Own \in [Writers -> Companies]
  /\ Resolution \in [Names -> Statuses]
  /\ \A c \in Companies : Resolution[c] = "canonical"
  /\ None \notin Names
  /\ "reprocess" \notin Writers

Sessions == Writers \cup {"reprocess"}

VARIABLES
  nodes,    \* the committed row of each name
  wrote,    \* per session: the rows it wrote and has not committed
  tx,       \* per session: what it is at
  sources,  \* nodes some edge starts from
  review,   \* the request of the person reviewing
  locked,   \* _REPROCESS_LOCK
  running,  \* _REPROCESS_STATE["running"]
  closing   \* what a thread that has finished has still to do

vars == <<nodes, wrote, tx, sources, review, locked, running, closing>>

\* A row: its status, and where its canonical id is from.
Node(status, id) == [status |-> status, id |-> id]
Absent == Node("absent", "none")
Nodes == [status : Statuses \cup {"absent"}, id : {"none", "normalizer", "llm", "person"}]

\* A session: the source of its edges, the names it has still to write and the
\* one it waits for.
Tx(at, src, todo, want) == [at |-> at, src |-> src, todo |-> todo, want |-> want]
Idle == Tx("idle", None, {}, None)

TxState == [at : {"idle", "ensure", "judge", "write", "store", "broken"},
            src : Companies \cup {None}, todo : SUBSET Names, want : Names \cup {None}]

NoReview == [name |-> None, accept |-> FALSE]

TypeOK ==
  /\ nodes \in [Names -> Nodes]
  /\ wrote \in [Sessions -> [Names -> Nodes]]
  /\ tx \in [Sessions -> TxState]
  /\ sources \in SUBSET Companies
  /\ review \in [name : Names \cup {None}, accept : BOOLEAN]
  /\ locked \in BOOLEAN /\ running \in BOOLEAN
  /\ closing \in {"none", "clear", "release"}

Nothing == [n \in Names |-> Absent]

\* An empty graph, or names a poorer normalizer of earlier days left pending.
Init ==
  /\ nodes \in [Names -> {Absent, Node("pending_review", "none")}]
  /\ \A c \in Companies : nodes[c] = Absent
  /\ wrote = [s \in Sessions |-> Nothing]
  /\ tx = [s \in Sessions |-> Idle]
  /\ sources = {}
  /\ review = NoReview
  /\ locked = FALSE /\ running = FALSE /\ closing = "none"

-------------------------------------------------------------------------------
(***************************************************************************)
(* Rows and transactions.                                                  *)
(***************************************************************************)

Free(s, n) == \A k \in Sessions \ {s} : wrote[k][n] = Absent

Merged(s) == [n \in Names |-> IF wrote[s][n] = Absent THEN nodes[n] ELSE wrote[s][n]]

\* The names the session may turn to: any, or the one it waits for.
Turn(s) == IF tx[s].want = None THEN tx[s].todo ELSE {tx[s].want}

\* Faulty variant for a mutant: the id of the row is left as it is.
Resolved_StatusOnly(n) == Node(Resolution[n], nodes[n].id)

\* What an upsert writes, over anything that is there.
Resolved(n) ==
  Node(Resolution[n], IF Resolution[n] = "canonical" THEN "normalizer" ELSE "none")

\* Faulty variant for a mutant: a status of the LLM's own.
Rejudged_Matched(n) ==
  IF Resolution[n] = "pending_review" THEN Node("llm_classify", "llm") ELSE Resolved(n)

\* What the thread writes of a row it found pending: both columns when the name
\* is resolved, by the normalizer or the LLM, the status alone when it is not.
Rejudged(n) ==
  CASE Resolution[n] = "canonical" -> Node("canonical", "normalizer")
    [] Resolution[n] = "pending_review" -> Node("canonical", "llm")
    [] OTHER -> Node("rejected", nodes[n].id)

Write(s, n, row) ==
  /\ tx[s].at = "write" /\ n \in Turn(s) /\ Free(s, n)
  /\ wrote' = [wrote EXCEPT ![s][n] = row]
  /\ tx' = [tx EXCEPT ![s] = Tx("write", @.src, @.todo \ {n}, None)]
  /\ UNCHANGED <<nodes, sources, review, locked, running, closing>>

\* A row another transaction wrote is waited for.
Wait(s, n) ==
  /\ tx[s].at = "write" /\ tx[s].want = None /\ n \in tx[s].todo /\ ~Free(s, n)
  /\ tx' = [tx EXCEPT ![s] = Tx("write", @.src, @.todo, n)]
  /\ UNCHANGED <<nodes, wrote, sources, review, locked, running, closing>>

Awaits(s, k) == tx[s].want # None /\ k # s /\ wrote[k][tx[s].want] # Absent

\* Sessions that wait for one another.
Deadlocked(s) ==
  \E C \in SUBSET Sessions : s \in C /\ \A k \in C : \E j \in C : Awaits(k, j)

-------------------------------------------------------------------------------
(***************************************************************************)
(* persist_ontology() and promote_research_to_ontology().                  *)
(***************************************************************************)

\* A run has found the names m.
Begin(w, m) ==
  /\ tx[w].at = "idle"
  /\ tx' = [tx EXCEPT ![w] = Tx("ensure", None, m, None)]
  /\ UNCHANGED <<nodes, wrote, sources, review, locked, running, closing>>

\* _ensure_company_node(): any company node of the code, or a new one.
Ensure(w) ==
  /\ tx[w].at = "ensure"
  /\ LET found == {c \in Companies : nodes[c] # Absent} IN
       \/ \E c \in found : tx' = [tx EXCEPT ![w] = Tx("write", c, @.todo, None)]
       \/ /\ found = {}
          /\ tx' = [tx EXCEPT ![w] = Tx("write", Own[w], @.todo \cup {Own[w]}, Own[w])]
  /\ UNCHANGED <<nodes, wrote, sources, review, locked, running, closing>>

Upsert(w, n) == Write(w, n, Resolved(n))

\* Faulty variant for a mutant: the transaction is left open.
Commit_Open(w) ==
  /\ tx[w].at = "write" /\ tx[w].todo = {}
  /\ sources' = sources \cup {tx[w].src}
  /\ tx' = [tx EXCEPT ![w] = Tx("store", @.src, {}, None)]
  /\ UNCHANGED <<nodes, wrote, review, locked, running, closing>>

\* The commit at the end, or, if anything but the database raises, the one of
\* the cache row: what was written so far stays.
Commit(w) ==
  /\ tx[w].at = "write" /\ tx[w].want = None
  /\ nodes' = Merged(w)
  /\ wrote' = [wrote EXCEPT ![w] = Nothing]
  /\ sources' = IF wrote[w] = Nothing THEN sources ELSE sources \cup {tx[w].src}
  /\ tx' = [tx EXCEPT ![w] = Tx("store", None, {}, None)]
  /\ UNCHANGED <<review, locked, running, closing>>

\* The database refuses a statement, of a deadlock or for other reasons: the
\* transaction is gone, the caller logs and goes on without a rollback,
StatementFails(w) ==
  /\ tx[w].at = "write"
  /\ wrote' = [wrote EXCEPT ![w] = Nothing]
  /\ tx' = [tx EXCEPT ![w] = Tx("broken", None, {}, None)]
  /\ UNCHANGED <<nodes, sources, review, locked, running, closing>>

\* so the cache row is refused too, and the run fails instead of storing it.
Store(w) ==
  /\ tx[w].at \in {"store", "broken"}
  /\ tx' = [tx EXCEPT ![w] = Idle]
  /\ UNCHANGED <<nodes, wrote, sources, review, locked, running, closing>>

-------------------------------------------------------------------------------
(***************************************************************************)
(* Review by a person: promote_pending() and reject_pending().             *)
(***************************************************************************)

\* The row is loaded and is pending.
ReviewLoad(n, accept) ==
  /\ review = NoReview
  /\ nodes[n].status = "pending_review"
  /\ review' = [name |-> n, accept |-> accept]
  /\ UNCHANGED <<nodes, wrote, tx, sources, locked, running, closing>>

\* It is written, whatever it is by now; of a rejected row only the status.
ReviewWrite ==
  /\ review # NoReview
  /\ LET n == review.name IN
       /\ \A k \in Sessions : wrote[k][n] = Absent
       /\ nodes' = [nodes EXCEPT ![n] = IF review.accept THEN Node("canonical", "person")
                                       ELSE Node("rejected", @.id)]
  /\ review' = NoReview
  /\ UNCHANGED <<wrote, tx, sources, locked, running, closing>>

-------------------------------------------------------------------------------
(***************************************************************************)
(* start_reprocess_background() and its thread.                            *)
(***************************************************************************)

Start ==
  /\ ~locked
  /\ locked' = TRUE /\ running' = TRUE
  /\ tx' = [tx EXCEPT !["reprocess"] = Tx("ensure", None, {}, None)]
  /\ UNCHANGED <<nodes, wrote, sources, review, closing>>

\* All pending rows are loaded.
Load ==
  /\ tx["reprocess"].at = "ensure"
  /\ tx' = [tx EXCEPT !["reprocess"] =
              Tx("judge", None, {n \in Names : nodes[n].status = "pending_review"}, None)]
  /\ UNCHANGED <<nodes, wrote, sources, review, locked, running, closing>>

\* Minutes later the LLM has judged those the normalizer does not know; the rows
\* that stay pending are not written.
Judge(keep) ==
  /\ tx["reprocess"].at = "judge"
  /\ keep \subseteq {n \in tx["reprocess"].todo : Resolution[n] = "pending_review"}
  /\ tx' = [tx EXCEPT !["reprocess"] = Tx("write", None, @.todo \ keep, None)]
  /\ UNCHANGED <<nodes, wrote, sources, review, locked, running, closing>>

Rewrite(n) == Write("reprocess", n, Rejudged(n))

\* The thread commits, or the database refuses it, and nothing is changed.
Reprocessed ==
  /\ tx["reprocess"].at = "write"
  /\ \/ tx["reprocess"].todo = {} /\ nodes' = Merged("reprocess")
     \/ nodes' = nodes
  /\ wrote' = [wrote EXCEPT !["reprocess"] = Nothing]
  /\ tx' = [tx EXCEPT !["reprocess"] = Idle]
  /\ closing' = "clear"
  /\ UNCHANGED <<sources, review, locked, running>>

\* Faulty variant for a mutant: the lock is released before the flag is cleared.
Close_Swapped ==
  /\ \/ closing = "clear" /\ locked' = FALSE /\ closing' = "release" /\ running' = running
     \/ closing = "release" /\ running' = FALSE /\ closing' = "none" /\ locked' = locked
  /\ UNCHANGED <<nodes, wrote, tx, sources, review>>

\* The flag is cleared, then the lock is released.
Close ==
  /\ \/ closing = "clear" /\ running' = FALSE /\ closing' = "release" /\ locked' = locked
     \/ closing = "release" /\ locked' = FALSE /\ closing' = "none" /\ running' = running
  /\ UNCHANGED <<nodes, wrote, tx, sources, review>>

-------------------------------------------------------------------------------

Goes(w) ==
  \/ Ensure(w) \/ Commit(w) \/ Store(w)
  \/ \E n \in Names : Upsert(w, n) \/ Wait(w, n)

Reprocess ==
  \/ Load \/ Reprocessed \/ Close
  \/ \E keep \in SUBSET Names : Judge(keep)
  \/ \E n \in Names : Rewrite(n) \/ Wait("reprocess", n)

Next ==
  \/ \E w \in Writers : StatementFails(w) \/ Goes(w) \/ \E m \in SUBSET Names : Begin(w, m)
  \/ \E n \in Names, accept \in BOOLEAN : ReviewLoad(n, accept)
  \/ ReviewWrite
  \/ Start \/ Reprocess

Spec == Init /\ [][Next]_vars

(***************************************************************************)
(* Sessions go on; a row that comes free again and again is given to who   *)
(* waits for it (PostgreSQL queues them), and a deadlock is ended.         *)
(***************************************************************************)
Fairness ==
  /\ \A w \in Writers : /\ WF_vars(Goes(w)) /\ SF_vars(\E n \in Names : Upsert(w, n))
                        /\ WF_vars(Deadlocked(w) /\ StatementFails(w))
  /\ WF_vars(Reprocess)

FairSpec == Spec /\ Fairness

-------------------------------------------------------------------------------
(***************************************************************************)
(* Properties.                                                             *)
(***************************************************************************)

\* A row is canonical only with an id and pending only without one, although
\* sessions write one column or both of rows they loaded in other states:
\* list_pending and explore_node go by either column.
IdIsOfStatus ==
  \A n \in Names : /\ nodes[n].status = "canonical" => nodes[n].id # "none"
                   /\ nodes[n].status = "pending_review" => nodes[n].id = "none"

\* While a thread works the status says it is running, also when it was started
\* the moment the one before it gave the lock back (start_reprocess_background).
RunningIsShown == tx["reprocess"].at # "idle" => running

\* Every run of an assembly or a research gets past the ontology, whatever rows
\* it has to wait for.
EveryRunEnds == \A w \in Writers : tx[w].at # "idle" ~> tx[w].at = "idle"

\* What was decided stays: a rejected name is not shown again, a name a person
\* accepted keeps the id given to it (promote_pending, reject_pending).
DecisionStands ==
  [][\A n \in Names : nodes[n].status = "rejected" \/ nodes[n].id = "person" =>
       nodes'[n] = nodes[n]]_vars

\* Edges start at the company itself, one node (persist_ontology,
\* _ensure_company_node).
EdgesStartAtCompany ==
  Cardinality(sources) <= 1 /\ sources \subseteq {Own[w] : w \in Writers}

\* The ontology adds to a run and never makes it fail (assemble_overview,
\* _merge_research_into_cache).
OntologyIsOptional == \A w \in Writers : tx[w].at # "broken"

===============================================================================
