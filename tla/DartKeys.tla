-------------------------------- MODULE DartKeys --------------------------------
(***************************************************************************)
(* The gate all requests to DART pass: a ring of API keys, a budget per key *)
(* and day, and the failover to the next key when DART refuses one.  One    *)
(* process, whose threads share the ring under a lock.                      *)
(*                                                                         *)
(* Other processes use the same keys, and DART's day need not be that of    *)
(* the process: DART may refuse a key, and take it again, at any time.  The *)
(* interval between two requests of a key is left out.                      *)
(***************************************************************************)
EXTENDS Integers

CONSTANTS
  Threads,       \* threads that send requests
  RingSize,      \* keys configured: the primary and the backup
  Budget,        \* _KEY_BUDGET
  Reconfigures,  \* the process configures the ring again, as a worker does
  MaxDays        \* bound: midnights

ASSUME DartAssumption ==
  /\ RingSize \in Nat \ {0} /\ Budget \in Nat \ {0} /\ MaxDays \in Nat
  /\ Reconfigures \in BOOLEAN

Keys == 1..RingSize
NoKey == RingSize + 1

VARIABLES
  active,   \* position in the ring, NoKey: past its end
  entry,    \* per key: what is left of a budget, and if it is today's
  req,      \* the request of each thread
  charged,  \* per key: requests of today sent through the ring
  refused,  \* keys DART has refused since the ring was configured
  full,     \* keys DART refuses
  days

keyVars == <<active, entry, req, charged, refused, full, days>>

Entry(today, left) == [today |-> today, left |-> left]

\* A request: the next thing to do, and the key it was last sent with.
KeyRequest(at, key) == [at |-> at, key |-> key]
Idle == KeyRequest("idle", 1)

KeysTypeOK ==
  /\ active \in Keys \cup {NoKey}
  /\ entry \in [Keys -> [today : BOOLEAN, left : 0..Budget]]
  /\ req \in [Threads -> [at : {"idle", "pick", "send", "mark", "rotate", "bare"}, key : Keys]]
  /\ charged \in [Keys -> Nat]
  /\ refused \in SUBSET Keys
  /\ full \in SUBSET Keys
  /\ days \in 0..MaxDays

\* A key that was never asked for has all of today's budget.
KeysInit ==
  /\ active = 1
  /\ entry = [k \in Keys |-> Entry(TRUE, Budget)]
  /\ req = [t \in Threads |-> Idle]
  /\ charged = [k \in Keys |-> 0]
  /\ refused = {}
  /\ full = {}
  /\ days = 0

KeyAt(t, step) == req[t].at = step
Go(t, step) == req' = [req EXCEPT ![t] = KeyRequest(step, @.key)]
GoWith(t, step, k) == req' = [req EXCEPT ![t] = KeyRequest(step, k)]

-------------------------------------------------------------------------------
(***************************************************************************)
(* The ring.                                                               *)
(***************************************************************************)

\* Faulty variant for a mutant: a budget of nothing still counts.
Usable_OffByOne(k) == ~entry[k].today \/ entry[k].left >= 0

\* _budget_check(): the budget of another day is renewed.
Usable(k) == ~entry[k].today \/ entry[k].left > 0

\* active_key() steps over exhausted keys to a usable one, none: past the end,
Found == {k \in Keys : active <= k /\ Usable(k) /\ \A i \in active..(k - 1) : ~Usable(i)}

\* and the check takes one from its budget, unless it renewed it.
Taken(k) ==
  /\ active' = k
  /\ entry' = [entry EXCEPT ![k] = IF @.today THEN Entry(TRUE, @.left - 1) ELSE Entry(TRUE, Budget)]

NoneTaken ==
  /\ \A k \in active..RingSize : ~Usable(k)
  /\ active' = NoKey /\ entry' = entry

\* A request that carries no key, or a batch that asks if the budget is used up:
\* active_key() is called all the same.
Probe ==
  /\ NoneTaken \/ \E k \in Found : Taken(k)
  /\ UNCHANGED <<req, charged, refused, full, days>>

\* Faulty variant for a mutant: the budgets are renewed as well.
Configure_Renews ==
  /\ Reconfigures
  /\ active' = 1
  /\ entry' = [k \in Keys |-> Entry(TRUE, Budget)]
  /\ refused' = {req[t].key : t \in {u \in Threads : KeyAt(u, "mark") \/ KeyAt(u, "rotate")}}
  /\ UNCHANGED <<req, charged, full, days>>

\* A batch begins, possibly next to others: the ring starts from the primary.
\* Only the answers still being worked on keep a key refused.
Configure ==
  /\ Reconfigures
  /\ active' = 1
  /\ refused' = {req[t].key : t \in {u \in Threads : KeyAt(u, "mark") \/ KeyAt(u, "rotate")}}
  /\ UNCHANGED <<entry, req, charged, full, days>>

-------------------------------------------------------------------------------
(***************************************************************************)
(* get().                                                                  *)
(***************************************************************************)

\* Is the ring usable at all?  The question takes a usable key.
Begin(t) ==
  /\ KeyAt(t, "idle")
  /\ \/ NoneTaken /\ GoWith(t, "bare", 1)
     \/ \E k \in Found : Taken(k) /\ Go(t, "pick")
  /\ UNCHANGED <<charged, refused, full, days>>

\* Faulty variant for a mutant: an exhausted key is not stepped over.
Pick_Waits(t) ==
  /\ KeyAt(t, "pick")
  /\ \E k \in Found \cap {active} : /\ Taken(k)
                                    /\ GoWith(t, "send", k)
                                    /\ charged' = [charged EXCEPT ![k] = @ + 1]
  /\ UNCHANGED <<refused, full, days>>

\* The loop: the active key is taken, if there still is one.
Pick(t) ==
  /\ KeyAt(t, "pick")
  /\ \/ NoneTaken /\ Go(t, "bare") /\ charged' = charged
     \/ \E k \in Found : /\ Taken(k)
                         /\ GoWith(t, "send", k)
                         /\ charged' = [charged EXCEPT ![k] = @ + 1]
  /\ UNCHANGED <<refused, full, days>>

\* DART answers: with a result, or with status 020.
Send(t) ==
  /\ KeyAt(t, "send")
  /\ IF req[t].key \in full
       THEN Go(t, "mark") /\ refused' = refused \cup {req[t].key}
       ELSE Go(t, "idle") /\ refused' = refused
  /\ UNCHANGED <<active, entry, charged, full, days>>

\* The refused key has no budget left today.
Mark(t) ==
  /\ KeyAt(t, "mark")
  /\ entry' = [entry EXCEPT ![req[t].key] = Entry(TRUE, 0)]
  /\ Go(t, "rotate")
  /\ UNCHANGED <<active, charged, refused, full, days>>

\* Faulty variant for a mutant: the ring goes on, whichever key is active.
Rotate_Unchecked(t) ==
  /\ KeyAt(t, "rotate")
  /\ active' = IF active \in Keys THEN active + 1 ELSE active
  /\ Go(t, IF active' \in Keys THEN "pick" ELSE "idle")
  /\ UNCHANGED <<entry, charged, refused, full, days>>

\* The ring goes on if the refused key is still the active one; at its end the
\* refusal is the answer.
Rotate(t) ==
  /\ KeyAt(t, "rotate")
  /\ active' = IF active = req[t].key THEN active + 1 ELSE active
  /\ Go(t, IF active' \in Keys THEN "pick" ELSE "idle")
  /\ UNCHANGED <<entry, charged, refused, full, days>>

\* Without a key of the ring the request is sent as it is, with the key of the
\* caller or of the last try.
Bare(t) ==
  /\ KeyAt(t, "bare")
  /\ Go(t, "idle")
  /\ UNCHANGED <<active, entry, charged, refused, full, days>>

-------------------------------------------------------------------------------

\* Midnight UTC: every budget is yesterday's.
Midnight ==
  /\ days < MaxDays
  /\ days' = days + 1
  /\ entry' = [k \in Keys |-> Entry(FALSE, entry[k].left)]
  /\ charged' = [k \in Keys |-> 0]
  /\ UNCHANGED <<active, req, refused, full>>

\* DART begins to refuse a key, or a new day of its own.
Refuse(k) ==
  /\ full' = full \cup {k}
  /\ UNCHANGED <<active, entry, req, charged, refused, days>>

Renew ==
  /\ full' = {}
  /\ UNCHANGED <<active, entry, req, charged, refused, days>>

Step(t) == Pick(t) \/ Send(t) \/ Mark(t) \/ Rotate(t) \/ Bare(t)

KeysNext ==
  \/ \E t \in Threads : Begin(t) \/ Pick(t) \/ Send(t) \/ Mark(t) \/ Rotate(t) \/ Bare(t)
  \/ Probe \/ Configure
  \/ Midnight \/ Renew \/ \E k \in Keys : Refuse(k)

KeysSpec == KeysInit /\ [][KeysNext]_keyVars

\* A request that has begun goes on; locks are held for a moment only.
KeysFairSpec == KeysSpec /\ \A t \in Threads : WF_keyVars(Step(t))

-------------------------------------------------------------------------------
(***************************************************************************)
(* Properties.                                                             *)
(***************************************************************************)

\* No day's requests through the ring take more of a key than its budget and the
\* one check that renews it, however often batches configure the ring
\* (configure_keys does not renew budgets).
RingKeepsBudget == \A k \in Keys : charged[k] <= Budget + 1

\* A key the ring has passed was exhausted or refused by DART: threads that are
\* refused together do not skip the key after it (_rotate_on_quota).
PassedIsEarned ==
  \A k \in Keys : k < active => entry[k].left = 0 \/ k \in refused

\* Both: the ring serves its keys in turn, each up to its budget.
KeysServeInTurn == RingKeepsBudget /\ PassedIsEarned

\* Every request ends, with a result, a refusal or past the ring: refusals,
\* failovers and new configurations do not send it round for ever.
EveryRequestEnds == \A t \in Threads : ~KeyAt(t, "idle") ~> KeyAt(t, "idle")

\* A key is passed after all of its budget was used for requests, or a refusal
\* (throttle.py: failover at 18,000 requests).
FailoverIsLate ==
  [][\A k \in Keys : active <= k /\ k < active' => k \in refused \/ charged[k] >= Budget]_keyVars

\* Budgets end at midnight: a request goes past the ring only when the keys are
\* exhausted today (throttle.py: a budget expires every midnight).
BudgetExpires ==
  [][\A t \in Threads : ~KeyAt(t, "bare") /\ req'[t].at = "bare" =>
       \A k \in Keys : entry[k] = Entry(TRUE, 0)]_keyVars

===============================================================================
