----------------------------- MODULE Disclosures -----------------------------
(***************************************************************************)
(* The disclosures of the Korean stocks: dart_ingest.py and the timeline   *)
(* of company_service.py.  A morning batch goes round the universe, the    *)
(* stocks whose last synchronisation is the oldest first; a page that      *)
(* shows a timeline synchronises its stock as well, with a range of its    *)
(* own, and both note it in the same DisclosureSyncState.  Every stock     *)
(* files one disclosure a day, before or after it has been asked for.      *)
(***************************************************************************)
EXTENDS Integers, Sequences, FiniteSets

CONSTANTS
  Listed,        \* the stocks of the universe
  PerMorning,    \* stocks the batch takes (_BATCH_PER_RUN)
  BatchWindow,   \* days back it asks for (_BATCH_WINDOW_DAYS)
  PageWindow,    \* days back a page asks for at the most (sync_disclosures_safe)
  Viewed,        \* the stocks somebody opens the page of
  NamedFrom,     \* stock -> the day since when it has a corp_code here
  LastDay,       \* the last day of a run
  MaxBroken,     \* synchronisations that fail, in whichever way
  Nobody         \* no request runs

ASSUME DisclosureAssumption ==
  /\ {PerMorning, BatchWindow, PageWindow, LastDay, MaxBroken} \subseteq Nat
  /\ IsFiniteSet(Listed) /\ Viewed \subseteq Listed /\ PerMorning > 0
  /\ NamedFrom \in [Listed -> Nat]
  /\ \A r \in [of : Listed, begin : 0..LastDay, new : SUBSET (0..LastDay), judges : BOOLEAN] : r # Nobody

Askers == {"batch", "page"}      \* the worker, and one thread of the API

VARIABLES
  day,      \* the day
  filed,    \* today's disclosures are out
  rows,     \* stock -> day of a stored disclosure -> "judged" by the LLM, or "hold"
  place,    \* stock -> its place by synced_at, the oldest (or never) first
  synced,   \* stock -> [on, from] of DisclosureSyncState: the day and the depth
  fresh,    \* the stocks synchronised in the last six hours (_SYNC_TTL)
  llm,      \* process -> whether it has been configured with a language model
  ask,      \* process -> the synchronisation it runs, or Nobody
  todo,     \* the stocks the batch still has to take this morning
  morning,  \* the batch of the day has begun
  broken,   \* failures so far
  exempt    \* history: the stocks that a page, a failed list, a missing
            \* corp_code or a missing language model have touched

disclosureVars == <<day, filed, rows, place, synced, fresh, llm, ask, todo, morning, broken, exempt>>

Never == [on |-> -1, from |-> 0]
StoredOf(s) == DOMAIN rows[s]
Earliest(S) == CHOOSE d \in S : \A e \in S : d <= e
Later(a, b) == IF a < b THEN b ELSE a
Rankings == {p \in [Listed -> 1..Cardinality(Listed)] : \A s, t \in Listed : s # t => p[s] # p[t]}

DisclosureInit ==
  /\ day = 0 /\ filed = FALSE
  /\ rows = [s \in Listed |-> <<>>]
  /\ place \in Rankings
  /\ synced = [s \in Listed |-> Never]
  /\ fresh = {} /\ llm \in [Askers -> BOOLEAN]
  /\ ask = [a \in Askers |-> Nobody] /\ todo = <<>>
  /\ morning = FALSE /\ broken = 0 /\ exempt = {}

---------------------------------------------------------------------------
\* What DART lists for a range of days.
Listing(begin) == {d \in 0..day : begin <= d /\ (d < day \/ filed)}

\* ON CONFLICT (rcept_no) DO NOTHING: what is stored stays as it is.
Insert(s, d, how) == IF d \in StoredOf(s) THEN rows[s] ELSE [e \in StoredOf(s) \union {d} |-> IF e = d THEN how ELSE rows[s][e]]

\* sync_disclosures reads the list, and what of it is stored already; a request
\* that ends before the day of a recent synchronisation of that depth is skipped.
Skips(s, begin, end) == s \in fresh /\ begin >= synced[s].from /\ end < synced[s].on

\* A new listing has no corp_code before the weekly refresh_corp_mappings: nothing
\* is listed then, and the stock is marked whether there is a model or not.
Named(s) == day >= NamedFrom[s]
Asks(a, s, begin, listed) ==
  ask' = [ask EXCEPT ![a] = [of |-> s, begin |-> begin, new |-> IF Named(s) THEN listed \ StoredOf(s) ELSE {},
                             judges |-> Named(s) => llm[a]]]

\* The stocks of S that stand before s.
Before(s, S) == {t \in S : place[t] < place[s]}
InOrder(q) == \A i, j \in DOMAIN q : i < j => place[q[i]] < place[q[j]]

\* Faulty variant: the stocks synchronised last are taken.
BatchBegins_NewestFirst ==
  /\ ~morning /\ morning' = TRUE
  /\ LET pending == Listed \ fresh
         batch == {s \in pending : Cardinality(pending \ Before(s, pending)) <= PerMorning}
     IN  \E q \in [1..Cardinality(batch) -> batch] : InOrder(q) /\ todo' = q
  /\ UNCHANGED <<day, filed, rows, place, synced, fresh, llm, ask, broken, exempt>>

BatchBegins ==                          \* run_disclosure_batch: pending, sorted, cut
  /\ ~morning /\ morning' = TRUE
  /\ LET pending == Listed \ fresh
         batch == {s \in pending : Cardinality(Before(s, pending)) < PerMorning}
     IN  \E q \in [1..Cardinality(batch) -> batch] : InOrder(q) /\ todo' = q
  /\ UNCHANGED <<day, filed, rows, place, synced, fresh, llm, ask, broken, exempt>>

BatchTakes ==
  /\ ask["batch"] = Nobody /\ todo # <<>> /\ todo' = Tail(todo)
  /\ LET s == Head(todo)  begin == Later(0, day - BatchWindow)
     IN  IF Skips(s, begin, day)
           THEN UNCHANGED <<ask, exempt>>
           ELSE /\ Asks("batch", s, begin, Listing(begin))
                /\ exempt' = IF ~Named(s) THEN exempt \union {s}
                             ELSE IF llm["batch"] THEN exempt ELSE Listed  \* it stays first, and is in the way
  /\ UNCHANGED <<day, filed, rows, place, synced, fresh, llm, morning, broken>>

\* sync_disclosures_safe: seven days before the end of the range a page asks for
\* (company_timeline), or since the last disclosure it knows (refresh_timeline_cache).
PageTakes(s) ==
  /\ ask["page"] = Nobody
  /\ \E end \in {day - 1, day} :
       LET begin == Later(0, end - PageWindow)
       IN  /\ end >= 0 /\ ~Skips(s, begin, end)
           /\ Asks("page", s, begin, {d \in Listing(begin) : d <= end})
  /\ exempt' = exempt \union {s}
  /\ UNCHANGED <<day, filed, rows, place, synced, fresh, llm, todo, morning, broken>>

\* No connection: the list is empty or ends early, and is taken for the whole.
ListIsCut(a) ==
  /\ ask[a] # Nobody /\ ask[a].new # {} /\ broken < MaxBroken /\ broken' = broken + 1
  /\ ask' = [ask EXCEPT ![a].new = {}]
  /\ exempt' = exempt \union {ask[a].of}
  /\ UNCHANGED <<day, filed, rows, place, synced, fresh, llm, todo, morning>>

StoresNext(a) ==                        \* one disclosure, judged or held, and its commit
  /\ ask[a] # Nobody /\ ask[a].new # {}
  /\ LET s == ask[a].of  d == Earliest(ask[a].new)
     IN  /\ rows' = [rows EXCEPT ![s] = Insert(s, d, IF ask[a].judges THEN "judged" ELSE "hold")]
         /\ ask' = [ask EXCEPT ![a].new = @ \ {d}]
  /\ UNCHANGED <<day, filed, place, synced, fresh, llm, todo, morning, broken, exempt>>

Ends(a) == ask' = [ask EXCEPT ![a] = Nobody]

\* _mark_synced: now, and the deeper of the two ranges.
MarkSynced(a) ==
  /\ ask[a] # Nobody /\ ask[a].new = {} /\ ask[a].judges
  /\ LET s == ask[a].of
     IN  /\ synced' = [synced EXCEPT ![s] = [on |-> day,
                         from |-> IF @ = Never \/ ask[a].begin < @.from THEN ask[a].begin ELSE @.from]]
         /\ place' = [t \in Listed |-> IF t = s THEN Cardinality(Listed) ELSE IF place[t] > place[s] THEN place[t] - 1 ELSE place[t]]
         /\ fresh' = fresh \union {s}
  /\ Ends(a)
  /\ UNCHANGED <<day, filed, rows, llm, todo, morning, broken, exempt>>

EndsUnmarked(a) ==                      \* without a language model nothing is marked
  /\ ask[a] # Nobody /\ ask[a].new = {} /\ ~ask[a].judges
  /\ Ends(a)
  /\ UNCHANGED <<day, filed, rows, place, synced, fresh, llm, todo, morning, broken, exempt>>

\* DART's quota, the database, the model: the stock is rolled back and passed over.
Raises(a) ==
  /\ ask[a] # Nobody /\ broken < MaxBroken /\ broken' = broken + 1
  /\ Ends(a)
  /\ UNCHANGED <<day, filed, rows, place, synced, fresh, llm, todo, morning, exempt>>

\* A process is started again, with the key it lacked.
Restarts(a) ==
  /\ ~llm[a] /\ llm' = [llm EXCEPT ![a] = TRUE]
  /\ Ends(a)
  /\ IF a = "batch" THEN todo' = <<>> /\ exempt' = Listed ELSE UNCHANGED <<todo, exempt>>
  /\ UNCHANGED <<day, filed, rows, place, synced, fresh, morning, broken>>

Filings ==
  /\ ~filed /\ filed' = TRUE
  /\ UNCHANGED <<day, rows, place, synced, fresh, llm, ask, todo, morning, broken, exempt>>

HoursPass ==                            \* more than the six of _SYNC_TTL
  /\ fresh # {} /\ \A a \in Askers : ask[a] = Nobody
  /\ fresh' = {}
  /\ UNCHANGED <<day, filed, rows, place, synced, llm, ask, todo, morning, broken, exempt>>

NextMorning ==
  /\ day < LastDay /\ filed /\ morning /\ todo = <<>> /\ \A a \in Askers : ask[a] = Nobody
  /\ day' = day + 1 /\ filed' = FALSE /\ fresh' = {} /\ morning' = FALSE
  /\ UNCHANGED <<rows, place, synced, llm, ask, todo, broken, exempt>>

DisclosureNext ==
  \/ BatchBegins \/ BatchTakes
  \/ \E s \in Viewed : PageTakes(s)
  \/ \E a \in Askers : ListIsCut(a) \/ StoresNext(a) \/ MarkSynced(a) \/ EndsUnmarked(a) \/ Raises(a) \/ Restarts(a)
  \/ Filings \/ HoursPass \/ NextMorning

---------------------------------------------------------------------------
(* The batch alone misses nothing: what a stock filed more than a window ago *)
(* is stored, unless a page, a list that was cut, a missing corp_code or a   *)
(* missing language model has come between; the window must be wide enough   *)
(* for a round of the universe and for the mornings that fail.  And a        *)
(* disclosure the model has judged keeps its judgement, whoever else stores  *)
(* it at the same time.                                                      *)
DisclosuresStand ==
  /\ [](day > 0 => \A s \in Listed \ exempt : 0..(day - BatchWindow - 1) \subseteq StoredOf(s))
  /\ [][\A s \in Listed : \A d \in StoredOf(s) :
         rows[s][d] = "judged" => d \in DOMAIN rows'[s] /\ rows'[s][d] = "judged"]_disclosureVars

(* What the comment on _BATCH_WINDOW_DAYS says: fourteen days are enough to *)
(* catch every disclosure, also of the stocks whose page is opened.         *)
NothingIsMissed == \A s \in Listed : 0..(day - BatchWindow - 1) \subseteq StoredOf(s)

(* What the comment on the missing language model says: a stock that has   *)
(* been synchronised with one has no disclosure left on HOLD.              *)
HoldIsJudged ==
  \A s \in Listed : synced[s] # Never => \A d \in StoredOf(s) : d >= synced[s].from /\ d < synced[s].on => rows[s][d] = "judged"
=============================================================================
