---------------------------- MODULE MCCollection ----------------------------
(***************************************************************************)
(* What the nightly and daily jobs collect: the daily bars, the values     *)
(* rated across the universe, the disclosures, the messages that were sent,*)
(* the calendar of the economy and the events made of news.  They share no *)
(* state here, so a run works one bench and leaves the others as they      *)
(* began.                                                                  *)
(***************************************************************************)
EXTENDS CandleStore, UniverseSnapshot, Disclosures, Broadcasts, MarketCalendar, NewsEvents, TLC

CONSTANTS entity, digest

VARIABLE bench

\* The stocks with one message each in a topic of the forum, and a digest.
StyleOf == [j \in Briefs |-> IF j = digest THEN "plain" ELSE "topic"]
KindOf == [j \in Briefs |-> IF j = digest THEN "market_news" ELSE "company"]
TextsOf == [j \in Briefs |-> IF j = digest THEN {"digest"} ELSE {"first", "second"}]

\* The stock whose page is opened is a new listing on the first day.
NewListing == [s \in Listed |-> IF s \in Viewed THEN 1 ELSE 0]

\* Two releases a day apart, and a theme that is too wide.
TwoReleases == <<2, 3>>
CodesOfTheme == [t \in Themes |-> IF t = "wide" THEN {"maker", "dealer"} ELSE {"maker"}]

collectionVars == <<candleVars, universeVars, disclosureVars, broadcastVars>>
dailyVars == <<calendarVars, newsVars>>
benches == <<bench, collectionVars, dailyVars>>

CollectionInit ==
  /\ bench \in {"candles", "universe", "disclosures", "broadcasts", "calendar", "news"}
  /\ CandleInit /\ UniverseInit /\ DisclosureInit /\ BroadcastInit /\ CalendarInit /\ NewsInit
  /\ llm["batch"] /\ (bench = "disclosures" \/ (llm["page"] /\ place = CHOOSE p \in Rankings : TRUE))

Candles == bench = "candles" /\ CandleNext /\ UNCHANGED <<bench, universeVars, disclosureVars, broadcastVars, dailyVars>>
Universe == bench = "universe" /\ UniverseNext /\ UNCHANGED <<bench, candleVars, disclosureVars, broadcastVars, dailyVars>>
Notices == bench = "disclosures" /\ DisclosureNext /\ UNCHANGED <<bench, candleVars, universeVars, broadcastVars, dailyVars>>
Messaging == bench = "broadcasts" /\ BroadcastNext /\ UNCHANGED <<bench, candleVars, universeVars, disclosureVars, dailyVars>>

Economy == bench = "calendar" /\ CalendarNext /\ UNCHANGED <<bench, collectionVars, newsVars>>
News == bench = "news" /\ NewsNext /\ UNCHANGED <<bench, collectionVars, calendarVars>>

CollectionNext == Candles \/ Universe \/ Notices \/ Messaging \/ Economy \/ News

CollectionSpec == CollectionInit /\ [][CollectionNext]_benches

Alike == Permutations(Stocks)
=============================================================================
