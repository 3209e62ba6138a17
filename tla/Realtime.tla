-------------------------------- MODULE Realtime --------------------------------
(***************************************************************************)
(* The API's one websocket connection to the broker KIS and the streams of  *)
(* browsers that share it: streams acquire and release codes, two asyncio   *)
(* tasks bring the registrations at KIS in line with what is desired.  The  *)
(* task that runs the connection does so after it connected, the reconcile  *)
(* loop whenever an event wakes it.                                         *)
(*                                                                         *)
(* Tasks interleave where one of them waits, which in a reconciliation is   *)
(* at a send, for the socket or for the lock: a step takes a task from one  *)
(* send to the next.  Prices are left out: a code is registered or not.     *)
(***************************************************************************)
EXTENDS Integers, Sequences, FiniteSets

CONSTANTS
  Quoted,            \* stock codes
  Streams,           \* streams of browsers
  MaxSubscriptions,  \* codes the manager desires at most
  KisLimit,          \* codes KIS registers at most
  MaxWire,           \* bound: streams come and go while fewer frames are on their way
  MaxBreaks          \* bound: lost connections

ASSUME RealtimeAssumption ==
  /\ IsFiniteSet(Streams)
  /\ MaxSubscriptions \in Nat /\ KisLimit \in Nat
  /\ MaxWire \in Nat \ {0} /\ MaxBreaks \in Nat

Tasks == {"run", "loop"}

VARIABLES
  stream,      \* the codes each stream holds: none or one
  desired,     \* refcount of each code, 0: not desired
  event,       \* the reconcile loop is to wake up
  subscribed,  \* the codes the manager believes registered
  task,        \* the reconciliation each task is at
  link,        \* the connection: no socket, alive, or dead and not noticed
  approval,    \* an approval key is there
  wire,        \* frames on their way to KIS
  registered,  \* the codes registered at KIS on this connection
  refused,     \* the codes whose registration KIS refused on it
  wanted,      \* history: the codes the reconciliation works for that began last
  crossing,    \* history: when it began while the other task was in one, the codes those two differ in
  breaks

manager == <<stream, desired, event>>
atKis == <<registered, refused>>
begun == <<wanted, crossing>>
realtimeVars == <<manager, subscribed, task, link, approval, wire, atKis, begun, breaks>>

Frame(c, on) == [code |-> c, on |-> on]
Reconciling(at, want, todo) == [at |-> at, want |-> want, todo |-> todo, sending |-> {}]
Idle == Reconciling("idle", {}, {})

RealtimeTypeOK ==
  /\ stream \in [Streams -> SUBSET Quoted]
  /\ desired \in [Quoted -> Nat]
  /\ event \in BOOLEAN
  /\ subscribed \in SUBSET Quoted
  /\ task \in [Tasks -> [at : {"idle", "sub", "unsub"}, want : SUBSET Quoted,
                         todo : SUBSET Quoted, sending : SUBSET Quoted]]
  /\ link \in {"down", "up", "broken"}
  /\ approval \in BOOLEAN
  /\ wire \in Seq([code : Quoted, on : BOOLEAN])
  /\ registered \in SUBSET Quoted /\ refused \in SUBSET Quoted
  /\ wanted \in SUBSET Quoted /\ crossing \in SUBSET Quoted
  /\ breaks \in 0..MaxBreaks

RealtimeInit ==
  /\ stream = [s \in Streams |-> {}]
  /\ desired = [c \in Quoted |-> 0]
  /\ event = FALSE
  /\ subscribed = {}
  /\ task = [t \in Tasks |-> Idle]
  /\ link = "down"
  /\ approval = FALSE
  /\ wire = <<>>
  /\ registered = {} /\ refused = {}
  /\ wanted = {} /\ crossing = {}
  /\ breaks = 0

Desired == {c \in Quoted : desired[c] > 0}

SymDiff(a, b) == (a \ b) \cup (b \ a)

-------------------------------------------------------------------------------
(***************************************************************************)
(* Streams.                                                                *)
(***************************************************************************)

\* Faulty variant for a mutant: the loop is left asleep.
Acquire_NoEvent(s, c) ==
  /\ Len(wire) < MaxWire
  /\ stream[s] = {}
  /\ desired[c] > 0 \/ Cardinality(Desired) < MaxSubscriptions
  /\ stream' = [stream EXCEPT ![s] = {c}]
  /\ desired' = [desired EXCEPT ![c] = @ + 1]
  /\ UNCHANGED <<event, subscribed, task, link, approval, wire, atKis, begun, breaks>>

\* A stream opens: its code is counted, a new one within the limit only.
Acquire(s, c) ==
  /\ Len(wire) < MaxWire
  /\ stream[s] = {}
  /\ desired[c] > 0 \/ Cardinality(Desired) < MaxSubscriptions
  /\ stream' = [stream EXCEPT ![s] = {c}]
  /\ desired' = [desired EXCEPT ![c] = @ + 1]
  /\ event' = (event \/ desired[c] = 0)
  /\ UNCHANGED <<subscribed, task, link, approval, wire, atKis, begun, breaks>>

\* Faulty variant for a mutant: cancelled and closed, a stream releases twice.
Release_Twice(s, c) ==
  /\ Len(wire) < MaxWire
  /\ stream[s] = {c}
  /\ stream' = [stream EXCEPT ![s] = {}]
  /\ \E n \in {1, 2} : desired' = [desired EXCEPT ![c] = @ - n]
  /\ event' = (event \/ desired[c] = 1)
  /\ UNCHANGED <<subscribed, task, link, approval, wire, atKis, begun, breaks>>

\* It ends, however it does, and the code is released.
Release(s, c) ==
  /\ Len(wire) < MaxWire
  /\ stream[s] = {c}
  /\ stream' = [stream EXCEPT ![s] = {}]
  /\ desired' = [desired EXCEPT ![c] = @ - 1]
  /\ event' = (event \/ desired[c] = 1)
  /\ UNCHANGED <<subscribed, task, link, approval, wire, atKis, begun, breaks>>

-------------------------------------------------------------------------------
(***************************************************************************)
(* Reconciliation.                                                         *)
(***************************************************************************)

\* A send: the code is marked as it shall be, have being the marks before, and its frame goes on its way; the
\* lock keeps the frames in the order of the marks.
Sends(t, socket, at, want, todo, have) ==
  \E c \in todo :
    /\ task' = [task EXCEPT ![t] = [Reconciling(at, want, todo \ {c}) EXCEPT !.sending = {c}]]
    /\ subscribed' = IF at = "sub" THEN have \cup {c} ELSE have \ {c}
    /\ wire' = IF socket = "up" THEN Append(wire, Frame(c, at = "sub")) ELSE wire

\* On to the next send: after the missing codes come those that are not in the copy.  Without a socket there is
\* nothing to be done.
GoesOn(t, socket, at, want, todo, have) ==
  \/ socket # "down" /\ Sends(t, socket, at, want, todo, have)
  \/ socket # "down" /\ at = "sub" /\ todo = {} /\ Sends(t, socket, "unsub", want, have \ want, have)
  \/ /\ socket = "down" \/ (todo = {} /\ (at = "unsub" \/ have \subseteq want))
     /\ task' = [task EXCEPT ![t] = Idle]
     /\ subscribed' = have
     /\ UNCHANGED wire

\* It works on a copy of the desired codes; the missing ones come first.
Begins(t, socket, have) ==
  /\ GoesOn(t, socket, "sub", Desired, Desired \ have, have)
  /\ wanted' = Desired
  /\ crossing' = UNION {SymDiff(task[u].want, Desired) : u \in {v \in Tasks \ {t} : task[v].at # "idle"}}

\* The loop wakes up; without a socket there is nothing to do.
LoopWake ==
  /\ task["loop"].at = "idle"
  /\ event
  /\ event' = FALSE
  /\ IF link = "down" THEN UNCHANGED <<task, subscribed, wire, begun>> ELSE Begins("loop", link, subscribed)
  /\ UNCHANGED <<stream, desired, link, approval, atKis, breaks>>

\* The frame is written,
SendEnd(t) ==
  /\ task[t].sending # {}
  /\ GoesOn(t, link, task[t].at, task[t].want, task[t].todo, subscribed)
  /\ UNCHANGED <<manager, link, approval, atKis, begun, breaks>>

\* or the connection is lost, the send raises and the mark is taken back.
SendFails(t) ==
  /\ task[t].sending # {} /\ link # "up"
  /\ GoesOn(t, link, task[t].at, task[t].want, task[t].todo,
            IF task[t].at = "sub" THEN subscribed \ task[t].sending ELSE subscribed \cup task[t].sending)
  /\ UNCHANGED <<manager, link, approval, atKis, begun, breaks>>

-------------------------------------------------------------------------------
(***************************************************************************)
(* The connection.                                                         *)
(***************************************************************************)

\* A key is issued, at the first try or a later one.
Approve ==
  /\ link = "down" /\ ~approval
  /\ approval' = TRUE
  /\ UNCHANGED <<manager, subscribed, task, link, wire, atKis, begun, breaks>>

\* Faulty variant for a mutant: the marks of the last connection are kept.
Connect_KeepsMarks ==
  /\ link = "down" /\ approval
  /\ task["loop"].at = "idle"
  /\ link' = "up"
  /\ Begins("run", "up", subscribed)
  /\ UNCHANGED <<manager, approval, atKis, breaks>>

\* The connection is there: nothing is registered on it, what is desired is
\* registered first of all.  The delay before a new try outlasts the sends of
\* the loop that fail on the old connection.
Connect ==
  /\ link = "down" /\ approval
  /\ task["loop"].at = "idle"
  /\ link' = "up"
  /\ Begins("run", "up", {})
  /\ UNCHANGED <<manager, approval, atKis, breaks>>

\* The reader sees the end of the connection: on an error the key is dropped,
\* on a normal close it is kept.
Notice ==
  /\ link = "broken" /\ task["run"].at = "idle"
  /\ link' = "down"
  /\ approval' \in {approval, FALSE}
  /\ UNCHANGED <<manager, subscribed, task, wire, atKis, begun, breaks>>

\* KIS takes a frame: beyond its limit a registration is refused, of which the
\* manager only logs the answer.
KisReceive ==
  /\ wire # <<>>
  /\ wire' = Tail(wire)
  /\ LET c == Head(wire).code IN
       IF ~Head(wire).on
         THEN registered' = registered \ {c} /\ refused' = refused \ {c}
         ELSE IF c \in registered \/ Cardinality(registered) < KisLimit
           THEN registered' = registered \cup {c} /\ refused' = refused \ {c}
           ELSE refused' = refused \cup {c} /\ UNCHANGED registered
  /\ UNCHANGED <<manager, subscribed, task, link, approval, begun, breaks>>

Break ==
  /\ link = "up"
  /\ breaks < MaxBreaks
  /\ breaks' = breaks + 1
  /\ link' = "broken"
  /\ wire' = <<>>
  /\ registered' = {} /\ refused' = {}
  /\ UNCHANGED <<manager, subscribed, task, approval, begun>>

TaskStep(t) == SendEnd(t) \/ SendFails(t)

RealtimeNext ==
  \/ \E s \in Streams, c \in Quoted : Acquire(s, c) \/ Release(s, c)
  \/ LoopWake
  \/ \E t \in Tasks : SendEnd(t) \/ SendFails(t)
  \/ Approve \/ Connect \/ Notice
  \/ KisReceive \/ Break

RealtimeSpec == RealtimeInit /\ [][RealtimeNext]_realtimeVars

\* Tasks that can run do, frames arrive, a key is issued at last.  Streams come
\* and go as they like.
RealtimeFairSpec ==
  /\ RealtimeSpec
  /\ \A t \in Tasks : WF_realtimeVars(TaskStep(t))
  /\ WF_realtimeVars(LoopWake) /\ WF_realtimeVars(Approve) /\ WF_realtimeVars(Connect) /\ WF_realtimeVars(Notice)
  /\ WF_realtimeVars(KisReceive)

-------------------------------------------------------------------------------
(***************************************************************************)
(* Properties.                                                             *)
(***************************************************************************)

Holders(c) == {s \in Streams : stream[s] = {c}}

\* A code is counted once for each stream that holds it.
CountsAreStreams == \A c \in Quoted : desired[c] = Cardinality(Holders(c))

Settled ==
  /\ link = "up" /\ wire = <<>> /\ ~event
  /\ \A t \in Tasks : task[t].at = "idle"

\* When all is quiet, KIS has exactly the desired codes but those it refused: neither a stream without ticks
\* nor a registration nobody wants (_reconcile_loop, kis_ws.py 216-236).  A code may be wrong only if the
\* reconciliation that began last began while the other task was in one, and the copies of the desired codes
\* those two work with differ in it.
QuietIsDesired ==
  Settled => \A c \in Quoted \ crossing : c \in registered <=> c \in Desired \ refused

\* A stream that stays open gets its code registered, across lost connections, or KIS refuses it, or two
\* reconciliations at once differ in it.
EveryStreamIsServed ==
  \A s \in Streams, c \in Quoted :
    stream[s] = {c} ~> stream[s] # {c} \/ c \in registered \cup refused \cup crossing

(***************************************************************************)
(* What the code promises and does not keep.                               *)
(***************************************************************************)

\* The two tasks bring KIS in line with what is desired (kis_ws.py 154, 217).
\* Broken by a code that is released or acquired while _run waits in a send: the loop sees the change, and
\* then _run goes on with its older copy.
SettledIsDesired == Settled => registered = Desired

\* What the manager accepts, KIS accepts (_MAX_SUBSCRIPTIONS keeps a margin, kis_ws.py 32).  Broken by a
\* change-over: new codes are registered before the old ones are released.
NeverRefused == refused = {}

===============================================================================
