------------------------------ MODULE Screening ------------------------------
(***************************************************************************)
(* The screener of one API process: five strategies over the last snapshot *)
(* of the market, read page by page, the flows of the sectors it caches    *)
(* for ten minutes and the scores of peers it caches for an hour.  A stock *)
(* is its code, a number; the scores of the axes come with its row (module *)
(* AxisScores); one sector stands for all.                                 *)
(***************************************************************************)
EXTENDS Integers, Sequences, FiniteSets, FiniteSetsExt, SequencesExt

CONSTANTS
  Missing,   \* a figure that is not there
  Stocks,    \* codes
  Rows,      \* what the snapshot and the figures joined to it say of a stock
  FlowMarks, \* what the flow of the sector may be
  PageLimit, \* rows of a page
  MaxNights, \* bound: nightly batches
  MaxWarms   \* bound: rounds of five minutes

(* A figure of a row is a number or is missing, its capitalisation always  *)
(* there.                                                                  *)
Figures == Int \union {Missing}
RowsThere ==
  [cap : Int, change : Figures, momentum : Figures, turnover : Figures, priced : BOOLEAN, growth : Figures,
   value : Figures, trend : Figures, per : Figures, sector : BOOLEAN, rs : Figures]
ASSUME ScreenAssumption ==
  /\ Stocks \subseteq Int /\ IsFiniteSet(Stocks)
  /\ Rows \subseteq RowsThere /\ FlowMarks \subseteq Figures
  /\ PageLimit \in Nat \ {0}

VARIABLES
  snapshot,  \* stock |-> row
  market,    \* the flow of the sector as the ETF's bars have it
  flowCache, \* key |-> the flow computed and its age, in rounds of five minutes
  peer,      \* stock |-> the scores cached for it as a peer
  reader,    \* who turns the pages
  nights, rounds

screenVars == <<snapshot, market, flowCache, peer, reader, nights, rounds>>

HasIt(x) == x # Missing

(* The caches of flows.  What the warmer and the lists ask for is kept     *)
(* under the default lookback; the page of a company passes its session in *)
(* the lookback's place.                                                   *)
FlowKeys == {"KR:3m", "KR:None"}
Ttl == 2
Cached(flow, age) == [flow |-> flow, age |-> age]
NoFlow == Cached(Missing, 0)
Fresh(key) == flowCache[key] # NoFlow /\ flowCache[key].age < Ttl

\* A fresh flow is answered, another computed and cached.
FlowOf(key) == IF Fresh(key) THEN flowCache[key].flow ELSE market
Filled(key) == IF Fresh(key) THEN flowCache ELSE [flowCache EXCEPT ![key] = Cached(market, 0)]

(* The scores of a row.                                                    *)
Middle(scores) ==
  LET S == {a \in DOMAIN scores : HasIt(scores[a])} IN
  IF S = {} THEN Missing ELSE (12 * MapThenSumSet(LAMBDA a : scores[a], S)) \div Cardinality(S)
TopDown(r, flow) == Middle(<<IF r.sector THEN flow ELSE Missing, r.rs>>)
Overall(r, flow) ==
  LET top == TopDown(r, flow) IN Middle(<<r.growth, r.value, r.trend, IF HasIt(top) THEN top \div 12 ELSE Missing>>)
ScoreOf(strategy, r, flow) ==
  CASE strategy = "growth" -> r.growth
    [] strategy = "value" -> r.value
    [] strategy = "trend" -> r.trend
    [] strategy = "topdown" -> TopDown(r, flow)
    [] OTHER -> Overall(r, flow)

(* The universe, and who stays in a strategy's list.  A turnover that was  *)
(* not collected passes.                                                   *)
InUniverse(r, liqMin) == r.priced /\ (HasIt(r.turnover) /\ r.turnover > 0 => r.turnover >= liqMin)
Cheap(r, perMax) == HasIt(perMax) => HasIt(r.per) /\ 0 < r.per /\ r.per <= perMax
StaysIn(q, r, flow) ==
  /\ InUniverse(r, q.liqMin)
  /\ CASE q.strategy = "growth" -> TRUE
       [] q.strategy = "value" -> Cheap(r, q.perMax) /\ (HasIt(q.perMax) \/ HasIt(r.per))
       [] OTHER -> HasIt(ScoreOf(q.strategy, r, flow))
Listed(q, flow) == {s \in Stocks : StaysIn(q, snapshot[s], flow)}

(* The order.  The database puts a missing change last, the lists sorted   *)
(* in memory take it for none; a sort a strategy does not know is another. *)
InMemory(strategy) == strategy \in {"value", "topdown", "overall"}
SortOf(q) ==
  IF q.sort \in {"market_cap", "change", "turnover"} \/ (q.strategy = "growth" /\ q.sort = "momentum") THEN q.sort
  ELSE IF q.strategy = "growth" /\ q.sort # "score" THEN "market_cap" ELSE "score"
Falling(x, none) == IF HasIt(x) THEN -x ELSE none
SortKey(q, r, flow) ==
  CASE SortOf(q) = "market_cap" -> r.cap
    [] SortOf(q) \in {"change", "turnover", "momentum"} -> Falling(r[SortOf(q)], IF InMemory(q.strategy) THEN 0 ELSE 1000)
    [] OTHER -> Falling(ScoreOf(q.strategy, r, flow), 1)

\* Faulty variant: ties come as the plan of the query has them.
Ahead_KeyOnly(q, flow, a, b) ==
  LET ka == SortKey(q, snapshot[a], flow)
      kb == SortKey(q, snapshot[b], flow) IN ka < kb \/ (ka = kb /\ (IF q.offset = 0 THEN a < b ELSE a > b))
Ahead(q, flow, a, b) ==
  LET ka == SortKey(q, snapshot[a], flow)
      kb == SortKey(q, snapshot[b], flow) IN ka < kb \/ (ka = kb /\ a < b)

Listing(q, flow) ==
  CHOOSE all \in SetToSeqs(Listed(q, flow)) : \A i, j \in DOMAIN all : i < j => Ahead(q, flow, all[i], all[j])
Page(q, flow) ==
  LET all == Listing(q, flow) IN SubSeq(all, q.offset + 1, Min({Len(all), q.offset + PageLimit}))

(* A reader asks for page after page.                                      *)
Query == [strategy : {"growth", "value", "trend", "topdown", "overall"},
          sort : {"score", "market_cap", "change", "momentum"},
          liqMin : {1}, perMax : {Missing}, offset : {0}]
Queries == Query \union {[q EXCEPT !.perMax = 10] : q \in {p \in Query : p.strategy = "value"}}
Reader(q, seen, total, stirred, more) ==
  [query |-> q, seen |-> seen, total |-> total, stirred |-> stirred, more |-> more]

ScreenInit ==
  /\ snapshot \in [Stocks -> Rows]
  /\ market \in FlowMarks
  /\ flowCache = [k \in FlowKeys |-> NoFlow]
  /\ peer = [s \in Stocks |-> Missing]
  /\ reader \in {Reader(q, << >>, 0, FALSE, TRUE) : q \in Queries}
  /\ nights = 0 /\ rounds = 0

UsesFlow(strategy) == strategy \in {"topdown", "overall"}

TurnsPage ==
  LET q == reader.query
      flow == FlowOf("KR:3m")
      page == Page(q, flow)
      total == Cardinality(Listed(q, flow))
      next == q.offset + PageLimit IN
  /\ reader.more
  /\ flowCache' = IF UsesFlow(q.strategy) THEN Filled("KR:3m") ELSE flowCache
  /\ reader' = Reader([q EXCEPT !.offset = next], reader.seen \o page, total, reader.stirred, next < total)
  /\ UNCHANGED <<snapshot, market, peer, nights, rounds>>

(* The companies of a trade: a cached answer stays for an hour.            *)
AsksPeers ==
  /\ \E s \in Stocks : ~HasIt(peer[s])
  /\ peer' = [s \in Stocks |-> IF HasIt(peer[s]) THEN peer[s] ELSE Overall(snapshot[s], FlowOf("KR:3m"))]
  /\ flowCache' = Filled("KR:3m")
  /\ UNCHANGED <<snapshot, market, reader, nights, rounds>>

\* The analysis of a company.
AsksAnalysis ==
  /\ flowCache' = Filled("KR:None")
  /\ UNCHANGED <<snapshot, market, peer, reader, nights, rounds>>

(* What changes the lists between two pages, for a reader who has begun.   *)
Stirs(moved) == reader' = [reader EXCEPT !.stirred = @ \/ (moved /\ reader.query.offset > 0)]

\* Five minutes: the bars of the ETF may move; the warmer asks for what it warms,
\* which a fresh cache answers.
WarmRound ==
  LET older == [k \in FlowKeys |-> IF flowCache[k] = NoFlow THEN NoFlow ELSE Cached(flowCache[k].flow, Min({Ttl, flowCache[k].age + 1}))]
      warm == older["KR:3m"] # NoFlow /\ older["KR:3m"].age < Ttl IN
  /\ rounds < MaxWarms
  /\ rounds' = rounds + 1
  /\ market' \in FlowMarks
  /\ flowCache' = IF warm THEN older ELSE [older EXCEPT !["KR:3m"] = Cached(market', 0)]
  /\ Stirs(flowCache'["KR:3m"].flow # flowCache["KR:3m"].flow /\ UsesFlow(reader.query.strategy))
  /\ UNCHANGED <<snapshot, peer, nights>>

\* An hour is over for the scores of a peer.
PeerExpires ==
  /\ \E s \in Stocks : HasIt(peer[s]) /\ peer' = [peer EXCEPT ![s] = Missing]
  /\ UNCHANGED <<snapshot, market, flowCache, reader, nights, rounds>>

\* The batches of a night make the snapshot of another day.
Night ==
  /\ nights < MaxNights
  /\ nights' = nights + 1
  /\ \E s \in Stocks, r \in Rows : snapshot' = [snapshot EXCEPT ![s] = r]
  /\ Stirs(TRUE)
  /\ UNCHANGED <<market, flowCache, peer, rounds>>

ScreenNext ==
  \/ TurnsPage \/ AsksPeers \/ AsksAnalysis
  \/ WarmRound \/ PeerExpires \/ Night

ScreenSpec == ScreenInit /\ [][ScreenNext]_screenVars

-----------------------------------------------------------------------------

\* Who turns all the pages of a list has seen every stock of it once, in order,
\* as long as neither a batch nor another flow came between two pages.
PagesMakeTheList ==
  LET q == [reader.query EXCEPT !.offset = 0]
      flow == FlowOf("KR:3m") IN
  (~reader.more /\ ~reader.stirred)
     => /\ ToSet(reader.seen) = Listed(q, flow) /\ Len(reader.seen) = reader.total
        /\ \A i, j \in DOMAIN reader.seen : i < j => Ahead(q, flow, reader.seen[i], reader.seen[j])

\* "종목분석 build_topdown 과 동일": the page and the lists take one flow for one
\* sector (analysis.build_topdown caches it under a key of its own).
SameFlowForBoth == FlowOf("KR:3m") = FlowOf("KR:None")

\* "같은 점수를 낸다": a peer's scores are those of the lists (peer_scores).
PeersAgree ==
  \A s \in Stocks : HasIt(peer[s]) => peer[s] = Overall(snapshot[s], FlowOf("KR:3m"))
=============================================================================
