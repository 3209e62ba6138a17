-------------------------- MODULE ReleaseControl --------------------------
(***************************************************************************)
(* Deployment and rollback of the branch release from the console          *)
(* (services/server_control.py).  Both run git in the one clone of the     *)
(* project, step by step, while others push to the remote; what a step     *)
(* knows of the remote are the tracking refs the last fetch left.  The     *)
(* workers are threads, which a second start does not stop.                *)
(*                                                                         *)
(* A commit is a number; its record holds its first parent and all that it *)
(* reaches.                                                                *)
(***************************************************************************)
EXTENDS Naturals, Sequences

CONSTANTS Threads,      \* workers of the group "prod"
          NoCommit,
          MaxCommits    \* bound: commits ever made

ASSUME ReleaseAssumption == MaxCommits \in Nat \ {0} /\ NoCommit \notin Nat

VARIABLES commits,   \* the commits made, with their history
          main, release,             \* the branches of the remote
          trackMain, trackRelease,   \* origin/main and origin/release of the clone
          op,        \* thread: the command it runs, and what it has read
          meta       \* the release branch as of the last_deploy files

remoteVars == <<commits, main, release>>
trackVars == <<trackMain, trackRelease>>
releaseVars == <<commits, main, release, trackMain, trackRelease, op, meta>>

Idle == [do |-> "none", at |-> "idle", old |-> NoCommit, new |-> NoCommit]

ReleaseInit ==
  /\ commits = <<[first |-> NoCommit, has |-> {1}]>>
  /\ main = 1 /\ release = 1 /\ trackMain = 1 /\ trackRelease = 1
  /\ op = [t \in Threads |-> Idle]
  /\ meta = NoCommit

IsAncestor(a, b) == a \in commits[b].has

\* What "git log a..b" lists.
Pending(a, b) == commits[b].has \ commits[a].has

(***************************************************************************)
(* The remote, used by others.                                             *)
(***************************************************************************)
NewCommit(first, others) ==
  /\ Len(commits) < MaxCommits
  /\ commits' = Append(commits, [first |-> first,
       has |-> {Len(commits) + 1} \union UNION {commits[p].has : p \in {first} \union others}])

PushMain ==
  /\ NewCommit(main, {})
  /\ main' = Len(commits) + 1
  /\ UNCHANGED <<release, trackVars, op, meta>>

\* A fix straight onto release, which main does not have.
PushHotfix ==
  /\ NewCommit(release, {})
  /\ release' = Len(commits) + 1
  /\ UNCHANGED <<main, trackVars, op, meta>>

MergeBack ==
  /\ ~IsAncestor(release, main)
  /\ NewCommit(main, {release})
  /\ main' = Len(commits) + 1
  /\ UNCHANGED <<release, trackVars, op, meta>>

(***************************************************************************)
(* deploy() and rollback().                                                *)
(***************************************************************************)

At(t, do, at) == op[t].do = do /\ op[t].at = at
Goto(t, at) == op' = [op EXCEPT ![t].at = at]
Finish(t) == op' = [op EXCEPT ![t] = Idle]

\* The operator confirms; an earlier command of the other thread may still run.
Command(t) ==
  /\ op[t] = Idle
  /\ \E do \in {"deploy", "rollback"} : op' = [op EXCEPT ![t] = [Idle EXCEPT !.do = do, !.at = "fetch"]]
  /\ UNCHANGED <<remoteVars, trackVars, meta>>

\* git fetch: both branches for a deployment, release for a rollback; it may fail.
Fetch(t) ==
  /\ op[t].at = "fetch"
  /\ \/ /\ trackRelease' = release
        /\ trackMain' = IF op[t].do = "deploy" THEN main ELSE trackMain
        /\ Goto(t, "check")
     \/ Finish(t) /\ UNCHANGED trackVars
  /\ UNCHANGED <<remoteVars, meta>>

\* release has to be behind main, and main to have something new.
CheckDeploy(t) ==
  /\ At(t, "deploy", "check")
  /\ IF IsAncestor(trackRelease, trackMain) /\ Pending(trackRelease, trackMain) # {}
     THEN Goto(t, "push") ELSE Finish(t)
  /\ UNCHANGED <<remoteVars, trackVars, meta>>

\* Faulty variant: a forced push.
PushDeploy_Forced(t) ==
  /\ At(t, "deploy", "push")
  /\ release' = trackMain /\ trackRelease' = trackMain
  /\ Goto(t, "meta")
  /\ UNCHANGED <<commits, main, trackMain, meta>>

\* A plain push of origin/main: the remote takes it as a fast-forward or not at all.
PushDeploy(t) ==
  /\ At(t, "deploy", "push")
  /\ IF IsAncestor(release, trackMain)
     THEN /\ release' = trackMain /\ trackRelease' = trackMain
          /\ Goto(t, "meta")
     ELSE Finish(t) /\ UNCHANGED <<release, trackRelease>>
  /\ UNCHANGED <<commits, main, trackMain, meta>>

\* release~1 has to exist; old and new are read for the message.
CheckRollback(t) ==
  /\ At(t, "rollback", "check")
  /\ IF commits[trackRelease].first = NoCommit
     THEN Finish(t)
     ELSE op' = [op EXCEPT ![t] = [@ EXCEPT !.at = "push", !.old = trackRelease,
                                            !.new = commits[trackRelease].first]]
  /\ UNCHANGED <<remoteVars, trackVars, meta>>

\* Faulty variant: forced without the lease.
PushRollback_Forced(t) ==
  /\ At(t, "rollback", "push")
  /\ release' = op[t].new /\ trackRelease' = op[t].new
  /\ Goto(t, "meta")
  /\ UNCHANGED <<commits, main, trackMain, meta>>

\* A push of origin/release~1 with the lease that the remote still is at origin/release.  Both are looked up
\* now, so another thread's fetch since the check moves them.
PushRollback(t) ==
  /\ At(t, "rollback", "push")
  /\ IF release = trackRelease /\ commits[trackRelease].first # NoCommit
     THEN /\ release' = commits[trackRelease].first /\ trackRelease' = release'
          /\ Goto(t, "meta")
     ELSE Finish(t) /\ UNCHANGED <<release, trackRelease>>
  /\ UNCHANGED <<commits, main, trackMain, meta>>

\* The files of the last deployment: origin/release as it is by now.
WriteMeta(t) ==
  /\ op[t].at = "meta"
  /\ meta' = trackRelease
  /\ Finish(t)
  /\ UNCHANGED <<remoteVars, trackVars>>

ReleaseNext ==
  \/ PushMain \/ PushHotfix \/ MergeBack
  \/ \E t \in Threads :
       \/ Command(t) \/ Fetch(t) \/ CheckDeploy(t) \/ PushDeploy(t)
       \/ CheckRollback(t) \/ PushRollback(t) \/ WriteMeta(t)

(***************************************************************************)
(* Properties.                                                             *)
(***************************************************************************)

\* The console moves release forward to a commit of main that has all of release in it, or back by one
\* commit; never past a commit that came in meanwhile, whoever fetches in between (server_control.py
\* 312-371).
ReleaseMovesSafely ==
  [][ release' # release /\ commits' = commits =>
        \/ IsAncestor(release, release') /\ IsAncestor(release', main)
        \/ release' = commits[release].first ]_releaseVars

\* What the message of a rollback says: the commit taken back is the one read before the push.  The code
\* does not keep it when another thread fetches in between.
RollbackIsOfOld ==
  [][ \A t \in Threads : At(t, "rollback", "push") /\ op'[t].at = "meta" => release = op[t].old ]_releaseVars
=============================================================================
