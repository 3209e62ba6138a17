----------------------------- MODULE Broadcasts -----------------------------
(***************************************************************************)
(* The messages of the Telegram command line and their way into the        *)
(* database: pipeline.py, archive.py, telegram.py and forum.py of          *)
(* src/reporter, broadcast_ingest.py of the API.  A job of the command     *)
(* line sends its messages, some of them into the day's topic of a forum,  *)
(* and appends each to a spool file; an ingest takes the spool away under  *)
(* another name, stores its lines and removes it.  Jobs and ingests are    *)
(* processes of their own, and any of them may die between two steps.      *)
(***************************************************************************)
EXTENDS Integers, FiniteSets

CONSTANTS
  Briefs,       \* jobs of the command line, each run once
  Style,        \* job -> "plain", or "topic" (a forum topic of its kind)
  Kind,         \* job -> the kind of topic it writes to
  Messages,     \* what is sent
  MessagesOf,   \* job -> its messages
  Ingesters,    \* the callers of ingest_broadcasts
  MaxErrors,    \* requests to Telegram or transactions that fail
  MaxKills,     \* processes that die
  Absent        \* a file that is not there, a topic not made, a lock not held

ASSUME BroadcastAssumption ==
  /\ MaxErrors \in Nat /\ MaxKills \in Nat /\ IsFiniteSet(Messages)
  /\ \A j \in Briefs : MessagesOf[j] \subseteq Messages
  /\ \A j \in Briefs : Style[j] = "topic" \/ (Style[j] = "plain" /\ Cardinality(MessagesOf[j]) = 1)
  /\ Absent \notin Nat /\ Absent \notin Ingesters /\ Absent \notin {"spool", "working", "gone"}
  /\ \A S \in SUBSET Messages : S # Absent

VARIABLES
  brief,     \* job -> [at, left: what it has to send, log: what it has to archive]
  held,      \* job -> the topics as it read them (ForumPublisher._state), or Absent
  topics,    \* forum_topics.json: kind -> the thread it names, or Absent
  threads,   \* topics made on Telegram: kind -> how many
  sent,      \* the messages that have reached the chat
  spool,     \* broadcasts.jsonl, or Absent
  working,   \* broadcasts.jsonl.processing, or Absent
  writing,   \* job -> the file its open append goes to: spool, working, or gone
  holder,    \* the ingest that holds the lock, or Absent
  at,        \* where it is
  lines,     \* what it has read
  stored,    \* the broadcast table
  late,      \* history: messages written to a file an ingest had taken already
  errors, kills

broadcastVars == <<brief, held, topics, threads, sent, spool, working, writing, holder, at, lines, stored, late, errors, kills>>
files == <<spool, working, writing, holder, at, lines, stored, late>>
forum == <<held, topics, threads>>

Content(f) == IF f = Absent THEN {} ELSE f
Kinds == {Kind[j] : j \in Briefs}

BroadcastInit ==
  /\ brief = [j \in Briefs |-> [at |-> "ready", left |-> MessagesOf[j], log |-> MessagesOf[j]]]
  /\ held = [j \in Briefs |-> Absent]
  /\ topics = [k \in Kinds |-> Absent] /\ threads = [k \in Kinds |-> 0]
  /\ sent = {} /\ spool = Absent /\ working = Absent
  /\ writing = [j \in Briefs |-> Absent]
  /\ holder = Absent /\ at = "free" /\ lines = {} /\ stored = {} /\ late = {}
  /\ errors = 0 /\ kills = 0

---------------------------------------------------------------------------
\* A job of the command line.
JobAt(j, step) == brief[j].at = step
Moves(j, step) == brief' = [brief EXCEPT ![j].at = step]

\* run_per_entity_briefing archives each message as it has made it and sends
\* them all at the end; the other jobs archive what they have sent.
Starts(j) ==
  /\ JobAt(j, "ready")
  /\ Moves(j, IF Style[j] = "topic" /\ Cardinality(MessagesOf[j]) > 1 THEN "archive" ELSE "send")
  /\ UNCHANGED <<forum, files, sent, errors, kills>>

\* archive.record: open for append ...
Opens(j) ==
  /\ JobAt(j, "archive") /\ brief[j].log # {} /\ writing[j] = Absent
  /\ spool' = Content(spool) /\ writing' = [writing EXCEPT ![j] = "spool"]
  /\ UNCHANGED <<brief, forum, sent, working, holder, at, lines, stored, late, errors, kills>>

\* ... and the line is written when the file is closed, wherever it is by then.
Appends(j) ==
  /\ writing[j] # Absent
  /\ \E m \in brief[j].log :
       /\ brief' = [brief EXCEPT ![j].log = @ \ {m}]
       /\ spool' = IF writing[j] = "spool" THEN spool \union {m} ELSE spool
       /\ working' = IF writing[j] = "working" THEN working \union {m} ELSE working
       /\ late' = IF writing[j] # "spool" \/ at = "unlink" THEN late \union {m} ELSE late
  /\ writing' = [writing EXCEPT ![j] = Absent]
  /\ UNCHANGED <<forum, sent, holder, at, lines, stored, errors, kills>>

Archived(j) ==
  /\ JobAt(j, "archive") /\ brief[j].log = {} /\ writing[j] = Absent
  /\ Moves(j, IF brief[j].left = {} THEN "done" ELSE "send")
  /\ UNCHANGED <<forum, files, sent, errors, kills>>

\* TelegramSender.send to the chat, in pieces.
SendsPlain(j) ==
  /\ (JobAt(j, "send") /\ Style[j] = "plain") \/ JobAt(j, "fallback")
  /\ \E m \in brief[j].left :
       /\ sent' = sent \union {m}
       /\ brief' = [brief EXCEPT ![j].left = @ \ {m},
                                 ![j].at = IF brief[j].left # {m} THEN @ ELSE IF brief[j].log = {} THEN "done" ELSE "archive"]
  /\ UNCHANGED <<forum, files, errors, kills>>

\* ForumPublisher: the state file is read ...
Loads(j) ==
  /\ JobAt(j, "send") /\ Style[j] = "topic" /\ held[j] = Absent
  /\ held' = [held EXCEPT ![j] = topics]
  /\ UNCHANGED <<brief, topics, threads, files, sent, errors, kills>>

\* ... a topic is made for the day if it names none, and the file written at once.
MakesTopic(j) ==
  /\ JobAt(j, "send") /\ held[j] # Absent /\ held[j][Kind[j]] = Absent
  /\ threads' = [threads EXCEPT ![Kind[j]] = @ + 1]
  /\ held' = [held EXCEPT ![j][Kind[j]] = threads[Kind[j]] + 1]
  /\ topics' = [held[j] EXCEPT ![Kind[j]] = threads[Kind[j]] + 1]
  /\ UNCHANGED <<brief, files, sent, errors, kills>>

SendsToTopic(j) ==
  /\ JobAt(j, "send") /\ held[j] # Absent /\ held[j][Kind[j]] # Absent
  /\ \E m \in brief[j].left :
       /\ sent' = sent \union {m}
       /\ brief' = [brief EXCEPT ![j].left = @ \ {m}, ![j].at = IF brief[j].left = {m} THEN "header" ELSE @]
  /\ UNCHANGED <<forum, files, errors, kills>>

\* The count is saved, the header posted, the state saved.
PostsHeader(j) ==
  /\ JobAt(j, "header") /\ topics' = held[j]
  /\ Moves(j, IF brief[j].log = {} THEN "done" ELSE "archive")
  /\ UNCHANGED <<held, threads, files, sent, errors, kills>>

\* TelegramError.  In a topic every message is sent again to the chat; outside
\* one the job ends.
TelegramFails(j) ==
  /\ brief[j].at \in {"send", "header", "fallback"} /\ errors < MaxErrors /\ errors' = errors + 1
  /\ Style[j] = "topic" /\ ~JobAt(j, "fallback") => held[j] # Absent
  /\ IF Style[j] = "topic" /\ ~JobAt(j, "fallback")
       THEN brief' = [brief EXCEPT ![j].at = "fallback", ![j].left = MessagesOf[j]]
       ELSE Moves(j, "died")
  /\ UNCHANGED <<forum, files, sent, kills>>

Killed(j) ==
  /\ brief[j].at \notin {"ready", "done", "died"} /\ kills < MaxKills /\ kills' = kills + 1
  /\ Moves(j, "died") /\ writing' = [writing EXCEPT ![j] = Absent]
  /\ UNCHANGED <<forum, sent, spool, working, holder, at, lines, stored, late, errors>>

BriefStep(j) ==
  \/ Starts(j) \/ Opens(j) \/ Appends(j) \/ Archived(j) \/ SendsPlain(j)
  \/ Loads(j) \/ MakesTopic(j) \/ SendsToTopic(j) \/ PostsHeader(j)

---------------------------------------------------------------------------
\* An ingest: _ingest_lock, _ingest_locked.
Locks(i) ==
  /\ holder = Absent /\ holder' = i /\ at' = "claim"
  /\ UNCHANGED <<brief, forum, sent, spool, working, writing, lines, stored, late, errors, kills>>

Follow(old, new) == [j \in Briefs |-> IF writing[j] = old THEN new ELSE writing[j]]
Releases == holder' = Absent /\ at' = "free" /\ lines' = {}

Claims ==
  /\ at = "claim"
  /\ CASE working # Absent /\ spool # Absent ->     \* left by a run that died: the spool is added to it
            at' = "unlink" /\ working' = working \union spool /\ UNCHANGED <<spool, writing, holder, lines>>
       [] working # Absent /\ spool = Absent ->
            at' = "read" /\ UNCHANGED <<spool, working, writing, holder, lines>>
       [] working = Absent /\ Content(spool) # {} -> \* rename
            at' = "read" /\ working' = spool /\ spool' = Absent /\ writing' = Follow("spool", "working")
            /\ UNCHANGED <<holder, lines>>
       [] working = Absent /\ Content(spool) = {} -> Releases /\ UNCHANGED <<spool, working, writing>>
  /\ UNCHANGED <<brief, forum, sent, stored, late, errors, kills>>

UnlinksSpool ==
  /\ at = "unlink" /\ at' = "read" /\ spool' = Absent /\ writing' = Follow("spool", "gone")
  /\ UNCHANGED <<brief, forum, sent, working, holder, lines, stored, late, errors, kills>>

Reads ==
  /\ at = "read" /\ at' = "commit" /\ lines' = working
  /\ UNCHANGED <<brief, forum, sent, spool, working, writing, holder, stored, late, errors, kills>>

Commits ==                               \* ON CONFLICT (dedup_key) DO NOTHING
  /\ at = "commit" /\ at' = "remove" /\ stored' = stored \union lines
  /\ UNCHANGED <<brief, forum, sent, spool, working, writing, holder, lines, late, errors, kills>>

\* Faulty variant: what has been read is removed, stored or not.
CommitFails_Removes ==
  /\ at = "commit" /\ errors < MaxErrors /\ errors' = errors + 1 /\ Releases
  /\ working' = Absent /\ writing' = Follow("working", "gone")
  /\ UNCHANGED <<brief, forum, sent, spool, stored, late, kills>>

\* The transaction fails: the file is kept for the next run.
CommitFails ==
  /\ at = "commit" /\ errors < MaxErrors /\ errors' = errors + 1 /\ Releases
  /\ UNCHANGED <<brief, forum, sent, spool, working, writing, stored, late, kills>>

Removes ==
  /\ at = "remove" /\ working' = Absent /\ writing' = Follow("working", "gone") /\ Releases
  /\ UNCHANGED <<brief, forum, sent, spool, stored, late, errors, kills>>

IngestDies ==                            \* the lock goes with the process
  /\ holder # Absent /\ kills < MaxKills /\ kills' = kills + 1 /\ Releases
  /\ UNCHANGED <<brief, forum, sent, spool, working, writing, stored, late, errors>>

IngestStep == (\E i \in Ingesters : Locks(i)) \/ Claims \/ UnlinksSpool \/ Reads \/ Commits \/ CommitFails \/ Removes

BroadcastNext ==
  \/ \E j \in Briefs : BriefStep(j) \/ TelegramFails(j) \/ Killed(j)
  \/ IngestStep \/ IngestDies

---------------------------------------------------------------------------
Written == {m \in Messages : \E j \in Briefs : m \in MessagesOf[j] \ brief[j].log}

(* Safety.  A message that was archived is stored, or still in one of the    *)
(* two files the next ingest reads, whichever process died or failed where;  *)
(* but for a line that is written to a file an ingest has taken in hand.     *)
ArchivedIsKept == Written \ late \subseteq stored \union Content(spool) \union Content(working)

(* What the head of broadcast_ingest.py says: what is appended after the *)
(* rename goes to a new spool, so that nothing is lost.                  *)
NothingIsLost == Written \subseteq stored \union Content(spool) \union Content(working)

(* What the head of archive.py says: the sending is the truth, and what is *)
(* archived has been sent.                                                 *)
ArchivedWasSent == stored \subseteq sent

(* What ForumPublisher.publish says: a kind has one topic a day. *)
OneTopicADay == \A k \in Kinds : threads[k] <= 1
=============================================================================
