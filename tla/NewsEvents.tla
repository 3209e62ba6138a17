----------------------------- MODULE NewsEvents -----------------------------
(***************************************************************************)
(* News and the events made of it (services/news_events).  A run has the   *)
(* model name the theme of each article that is not classified yet, puts   *)
(* an event at every company of the theme, and deletes what is past the    *)
(* time it is kept.                                                        *)
(***************************************************************************)
EXTENDS Naturals, FiniteSets

CONSTANTS
  Links,      \* the articles of the feed
  Themes,     \* the themes
  ThemeCodes,    \* the companies of each theme
  NoTheme,    \* an article that concerns no theme
  TooWide,    \* more companies than this get no event
  Kept,       \* days that articles and events are kept
  NoArticle,  \* an article that is not stored
  LastDate,   \* bound: days
  MaxMissed   \* bound: articles the model does not answer for

ASSUME NewsAssumption ==
  /\ {TooWide, Kept, LastDate, MaxMissed} \subseteq Nat /\ NoTheme \notin Themes
  /\ \A r \in [published : 0..LastDate, theme : Themes \union {NoTheme}, classified : BOOLEAN] : r # NoArticle

VARIABLES
  newsDay,     \* the day
  feed,      \* what the news site lists
  articles,  \* the row of each link
  events,    \* the events of the companies
  teller,    \* the run: where it is, the articles it has left
  missed     \* articles the model did not answer for

newsVars == <<newsDay, feed, articles, events, teller, missed>>

Stopped == [at |-> "idle", left |-> {}]
StoredLinks == {l \in Links : articles[l] # NoArticle}

NewsInit ==
  /\ newsDay = 0 /\ feed = {} /\ events = {} /\ missed = 0
  /\ articles = [l \in Links |-> NoArticle]
  /\ teller = Stopped

DayEnds ==
  /\ newsDay < LastDate /\ teller.at # "tell"
  /\ newsDay' = newsDay + 1
  /\ UNCHANGED <<feed, articles, events, teller, missed>>

\* The site lists an article, or no longer does.
FeedTurns ==
  /\ \E l \in Links : feed' = IF l \in feed THEN feed \ {l} ELSE feed \union {l}
  /\ UNCHANGED <<newsDay, articles, events, teller, missed>>

\* The articles to classify: a failed one is tried again.  Without any news
\* the run ends and deletes nothing.
\* Faulty variant: all of them.
Unclassified_All(links) == links
Unclassified(links) == {l \in links : articles[l] = NoArticle \/ ~articles[l].classified}

Collect ==
  /\ teller.at # "tell" /\ feed # {}
  /\ teller' = [at |-> "tell", left |-> Unclassified(feed)]
  /\ UNCHANGED <<newsDay, feed, articles, events, missed>>

Propagated(theme) ==
  IF theme = NoTheme \/ Cardinality(ThemeCodes[theme]) > TooWide THEN {} ELSE ThemeCodes[theme]

\* The row keeps the day it was stored first.
UpsertArticle(l, theme, classified) ==
  [articles EXCEPT ![l] = [published |-> IF @ = NoArticle THEN newsDay ELSE @.published,
                           theme |-> theme, classified |-> classified]]

\* An event that is there stays as it is.
UpsertEvents(l, theme) ==
  events \union {[link |-> l, code |-> c, theme |-> theme, date |-> newsDay] :
                   c \in {d \in Propagated(theme) : ~\E e \in events : e.link = l /\ e.code = d}}

\* What the model may answer: a theme of the list, or none that is in it.
Answers == Themes \union {NoTheme}

\* The article and its events are one transaction.
Classify ==
  /\ teller.at = "tell"
  /\ \E l \in teller.left :
       /\ teller' = [teller EXCEPT !.left = @ \ {l}]
       /\ \/ \E theme \in Answers :
               /\ articles' = UpsertArticle(l, theme, TRUE)
               /\ events' = UpsertEvents(l, theme)
               /\ UNCHANGED missed
          \/ /\ missed < MaxMissed  \* no answer, or none that can be read
             /\ missed' = missed + 1
             /\ articles' = UpsertArticle(l, NoTheme, FALSE)
             /\ UNCHANGED events
  /\ UNCHANGED <<newsDay, feed>>

(* What is past its time.  An article is stored with the hour, an event    *)
(* with the day: those of the last day go or stay by the hour of the run.  *)
\* Faulty variant: events go by their own day only.
EventsToDrop_ByDay(old) == {e \in events : e.date + Kept < newsDay}
EventsToDrop(old) == {e \in events : e.link \in old \/ e.date + Kept < newsDay}

Purge ==
  /\ teller.at = "tell" /\ teller.left = {}
  /\ \E old \in SUBSET {l \in StoredLinks : articles[l].published + Kept <= newsDay} :
       LET left == events \ EventsToDrop(old) IN
       /\ \A l \in StoredLinks : articles[l].published + Kept < newsDay => l \in old
       /\ IF \E e \in left : e.link \in old
          THEN /\ teller' = [Stopped EXCEPT !.at = "failed"]  \* the foreign key: all of it is undone
               /\ UNCHANGED <<articles, events>>
          ELSE /\ teller' = Stopped
               /\ events' = left
               /\ articles' = [l \in Links |-> IF l \in old THEN NoArticle ELSE articles[l]]
  /\ UNCHANGED <<newsDay, feed, missed>>

NewsKilled ==
  /\ teller.at = "tell"
  /\ teller' = Stopped
  /\ UNCHANGED <<newsDay, feed, articles, events, missed>>

NewsNext == DayEnds \/ FeedTurns \/ Collect \/ Classify \/ Purge \/ NewsKilled

NewsSpec == NewsInit /\ [][NewsNext]_newsVars

-----------------------------------------------------------------------------
(* A company's event is of an article that is stored and of the theme it   *)
(* was given, an article that was given a theme has its events, unless     *)
(* they are past their time, and deleting never fails on an event that     *)
(* still needs its article.                                                *)
NewsStands ==
  /\ teller.at # "failed"
  /\ \A e \in events : e.link \in StoredLinks /\ articles[e.link].theme = e.theme
  /\ \A l \in StoredLinks : articles[l].published + Kept >= newsDay /\ articles[l].classified =>
       {e.code : e \in {f \in events : f.link = l}} = Propagated(articles[l].theme)

(* What the code's words promise and it does not keep.  An event has the   *)
(* day its news came out.                                                  *)
EventHasDayOfNews == \A e \in events : e.date = articles[e.link].published
=============================================================================
