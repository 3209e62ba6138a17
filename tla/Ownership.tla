----------------------------- MODULE Ownership -----------------------------
(***************************************************************************)
(* Who owns a company, of late (services/ownership_service, the requests   *)
(* of adapters/dart/client, OwnershipStructure.tsx).  The page shows three *)
(* answers of DART beside the rows the night has collected; each is kept   *)
(* for half a day, and the page asks again while the first of them could   *)
(* not be renewed.                                                         *)
(***************************************************************************)
EXTENDS Naturals, Sequences, FiniteSets

CONSTANTS
  Kinds,       \* the answers of DART in the order a request gets them, the changes first
  Pages,       \* pages of the company that are open
  Nothing,     \* an answer without entries
  NoAnswer,    \* a cache without a row
  KeepFor,     \* ticks an answer is kept
  LeapDays,    \* ticks of a day that was not there three years before
  MaxNow,      \* bound: ticks
  MaxFiled,    \* bound: filings
  MaxOpens     \* bound: requests

ASSUME OwnershipAssumption ==
  /\ Len(Kinds) \in Nat \ {0} /\ DOMAIN Kinds = 1..Len(Kinds) /\ Kinds[1] = "changes"
  /\ KeepFor \in Nat \ {0} /\ LeapDays \subseteq Nat /\ {MaxNow, MaxFiled, MaxOpens} \subseteq Nat

VARIABLES
  now,       \* the time
  filed,     \* the times of the filings of each kind
  quota,     \* DART still answers today
  mapped,    \* the company has a code of DART
  kept,      \* the row of each cache
  opens,     \* requests so far
  page       \* what each page is doing and shows

ownershipVars == <<now, filed, quota, mapped, kept, opens, page>>

Closed == [at |-> "closed", step |-> 1, row |-> NoAnswer, got |-> Nothing, answer |-> << >>, stale |-> FALSE, began |-> 0]
KindOf(p) == Kinds[page[p].step]

OwnershipInit ==
  /\ now = 0
  /\ filed = [k \in {Kinds[i] : i \in DOMAIN Kinds} |-> << >>]
  /\ quota \in BOOLEAN
  /\ mapped \in BOOLEAN
  /\ kept = [k \in DOMAIN filed |-> NoAnswer]
  /\ opens = 0
  /\ page = [p \in Pages |-> Closed]

\* A request is over within a tick.  The quota is DART's of a day.
Tick ==
  /\ now < MaxNow
  /\ \A p \in Pages : page[p].at \in {"closed", "shown", "failed"} \/ page[p].began = now
  /\ now' = now + 1
  /\ quota' \in BOOLEAN
  /\ UNCHANGED <<filed, mapped, kept, opens, page>>

File(k) ==
  /\ Cardinality({f \in (DOMAIN filed) \X (1..MaxFiled) : f[2] \in DOMAIN filed[f[1]]}) < MaxFiled
  /\ filed' = [filed EXCEPT ![k] = Append(@, now)]
  /\ UNCHANGED <<now, quota, mapped, kept, opens, page>>

(* A request.  The page asks when it is opened or loaded again, by itself    *)
(* while it is stale.                                                        *)
OpenPage(p) ==
  /\ page[p].at \in {"closed", "failed", "shown"} /\ opens < MaxOpens
  /\ opens' = opens + 1
  /\ page' = [page EXCEPT ![p] = [Closed EXCEPT !.at = "look", !.began = now]]
  /\ UNCHANGED <<now, filed, quota, mapped, kept>>

Answered(p, entries, stale) ==
  [page[p] EXCEPT !.answer = Append(@, entries), !.stale = @ \/ (stale /\ KindOf(p) = "changes"),
                  !.row = NoAnswer,
                  !.step = @ + 1, !.at = IF page[p].step = Len(Kinds) THEN "shown" ELSE "look"]
Entries(row) == IF row = NoAnswer THEN Nothing ELSE row.entries

\* Faulty variant: an answer is kept for good.
IsKept_Always(row) == row # NoAnswer
IsKept(row) == row # NoAnswer /\ now - row.at < KeepFor

Look(p) ==
  LET row == kept[KindOf(p)] IN
  /\ page[p].at = "look"
  /\ page' = [page EXCEPT ![p] =
       IF IsKept(row) THEN Answered(p, row.entries, FALSE)
       ELSE IF ~mapped THEN Answered(p, Entries(row), TRUE)
       ELSE [page[p] EXCEPT !.at = "ask", !.row = row]]
  /\ UNCHANGED <<now, filed, quota, mapped, kept, opens>>

\* Faulty variant: what is left is not said to be stale.
OutOfQuota_Fresh(p) == Answered(p, Entries(page[p].row), FALSE)
\* What was kept is shown when the quota is used up.
OutOfQuota(p) == Answered(p, Entries(page[p].row), TRUE)

Latest(k) == IF filed[k] = << >> THEN Nothing ELSE Len(filed[k])

Ask(p) ==
  /\ page[p].at = "ask"
  /\ \/ ~quota /\ page' = [page EXCEPT ![p] = OutOfQuota(p)]
     \/ quota /\ page' = [page EXCEPT ![p].at = "keep", ![p].got = Latest(KindOf(p))]
     \/ page' = [page EXCEPT ![p].at = "keep", ![p].got = Nothing]                        \* the line is down
     \/ KindOf(p) = "bonds" /\ now \in LeapDays /\ page' = [page EXCEPT ![p].at = "failed"] \* no such day three years ago
  /\ UNCHANGED <<now, filed, quota, mapped, kept, opens>>

\* A row that was there is written over; one that came meanwhile fails the request.
Keep(p) ==
  /\ page[p].at = "keep"
  /\ IF page[p].row = NoAnswer /\ kept[KindOf(p)] # NoAnswer
     THEN page' = [page EXCEPT ![p].at = "failed"] /\ UNCHANGED kept
     ELSE /\ kept' = [kept EXCEPT ![KindOf(p)] = [entries |-> page[p].got, at |-> now]]
          /\ page' = [page EXCEPT ![p] = Answered(p, page[p].got, FALSE)]
  /\ UNCHANGED <<now, filed, quota, mapped, opens>>

OwnershipNext ==
  \/ Tick
  \/ \E k \in DOMAIN filed : File(k)
  \/ \E p \in Pages : OpenPage(p)
  \/ \E p \in Pages : Look(p)
  \/ \E p \in Pages : Ask(p)
  \/ \E p \in Pages : Keep(p)

OwnershipSpec == OwnershipInit /\ [][OwnershipNext]_ownershipVars

-----------------------------------------------------------------------------
Shown(p) == page[p].at = "shown"
\* Filings of a kind before a time that lies the life of an answer and a request back.
FiledBefore(k, t) == {n \in DOMAIN filed[k] : filed[k][n] + KeepFor + 1 <= t}
Covers(p, i) == page[p].answer[i] # Nothing => FiledBefore(Kinds[i], page[p].began) \subseteq 1..page[p].answer[i]

(* A page that does not say that it is stale shows the changes as they were *)
(* less than half a day and a request before, whoever renewed the answer it *)
(* found, unless DART has answered with nothing.                            *)
FreshIsRecent == \A p \in Pages : Shown(p) /\ ~page[p].stale => Covers(p, 1)

(* What the code's words promise and it does not keep.  What could not be  *)
(* asked for is said to be stale, and the page tries again.                *)
StaleIsSaid ==
  \A p \in Pages : Shown(p) /\ ~page[p].stale =>
    \A i \in DOMAIN Kinds : Covers(p, i) /\ (page[p].answer[i] = Nothing => FiledBefore(Kinds[i], page[p].began) = {})
\* A request is answered.
RequestsAreAnswered == \A p \in Pages : page[p].at # "failed"
=============================================================================
