------------------------------ MODULE Deploys ------------------------------
(***************************************************************************)
(* Continuous delivery of main: the workflow of ci.yml, which checks a      *)
(* commit, builds its image, applies its migrations with dbmate and points  *)
(* Cloud Run at the image, as runs that supersede, fail and are cancelled.  *)
(*                                                                         *)
(* Runs for main form one concurrency group: one is in progress, one waits. *)
(* A cancelled run stops some time after it was told to, and what it was    *)
(* doing when it stopped may have happened or not.  Runs of pull requests   *)
(* have groups of their own and never deploy; they are left out.            *)
(***************************************************************************)
EXTENDS Integers, Sequences

CONSTANTS
  MaxPush,    \* pushes to main ever made: the bound on the length of a history
  Migration,  \* versions of db/migrations, applied in their order
  Tree        \* contents of db/migrations that commits have

Content == {"absent", "sound", "broken"}

ASSUME MaxPushAssumption   == MaxPush \in Nat
ASSUME MigrationAssumption == Migration \subseteq Int
ASSUME TreeAssumption      == Tree \subseteq [Migration -> Content]

VARIABLES
  main,     \* the pushes to main, first to last
  stage,    \* how far each run is
  asked,    \* the runs in progress that were told to stop
  applied,  \* external: schema_migrations
  served    \* external: the push whose image Cloud Run serves, 0 for none

vars == <<main, stage, asked, applied, served>>

-----------------------------------------------------------------------------
\* A push has its files, what the checkout knows of github.event.before (all
\* zero, a commit it has, or one a forced push has removed), and, as history,
\* the push that last changed the migrations.
PushType == [tree : Tree, before : {"zero", "known", "gone"}, origin : 1..MaxPush]

Run == [event : {"push", "dispatch"}, sha : 1..MaxPush]

PushOf(p) == [event |-> "push", sha |-> p]

Underway == {"prepare", "migrate", "deploy"}
Ended    == {"success", "failure", "cancelled"}

InProgress(x) == stage[x] \in Underway

TypeOK ==
  /\ main \in Seq(PushType) /\ Len(main) <= MaxPush
  /\ \A p \in DOMAIN main : main[p].origin <= p
  /\ stage \in [Run -> {"none", "pending"} \cup Underway \cup Ended]
  /\ \A x \in Run : stage[x] # "none" => x.sha <= Len(main)
  /\ asked \subseteq {x \in Run : InProgress(x)}
  /\ applied \subseteq Migration
  /\ served \in 0..Len(main)

Init ==
  /\ main = << >>
  /\ stage = [x \in Run |-> "none"]
  /\ asked = {}
  /\ applied = {}
  /\ served = 0

-----------------------------------------------------------------------------
(* Triggers.                                                                *)

\* Mutant: the run that waits keeps its place, the new one gives way.
Enqueue_KeepsWaiting(x) ==
  /\ stage' = [stage EXCEPT ![x] =
                 IF \E y \in Run : stage[y] = "pending" THEN "cancelled" ELSE "pending"]
  /\ asked' = {y \in Run : InProgress(y)}

\* concurrency: a new run takes the place of the one that waits and has the
\* one in progress told to stop.
Enqueue(x) ==
  /\ stage' = [y \in Run |-> IF y = x THEN "pending"
                             ELSE IF stage[y] = "pending" THEN "cancelled" ELSE stage[y]]
  /\ asked' = {y \in Run : InProgress(y)}

\* The first push creates the branch; a forced one may remove the commit before
\* it (one that leaves the migrations as they were is like any other).
Push(tree, before) ==
  LET p == Len(main) + 1 IN
  /\ p <= MaxPush
  /\ before = "zero" <=> p = 1
  /\ before = "gone" => main[p - 1].tree # tree
  /\ main' = Append(main, [tree |-> tree, before |-> before,
                           origin |-> IF p > 1 /\ main[p - 1].tree = tree
                                        THEN main[p - 1].origin ELSE p])
  /\ Enqueue(PushOf(p))
  /\ UNCHANGED <<applied, served>>

\* workflow_dispatch on main, once for a commit.
Dispatch ==
  LET x == [event |-> "dispatch", sha |-> Len(main)] IN
  /\ main # << >> /\ stage[x] = "none"
  /\ Enqueue(x)
  /\ UNCHANGED <<main, applied, served>>

-----------------------------------------------------------------------------
(* A run.                                                                   *)

Goto(x, label) == stage' = [stage EXCEPT ![x] = label]

\* Mutant: a run is still asked to stop once it has ended.
Finish_StillAsked(x, result) == Goto(x, result) /\ UNCHANGED asked

Finish(x, result) == Goto(x, result) /\ asked' = asked \ {x}

\* Mutant: no concurrency group.
Start_Unserialised(x) ==
  /\ stage[x] = "pending"
  /\ Goto(x, "prepare")
  /\ UNCHANGED <<main, asked, applied, served>>

Start(x) ==
  /\ stage[x] = "pending" /\ \A y \in Run : ~InProgress(y)
  /\ Goto(x, "prepare")
  /\ UNCHANGED <<main, asked, applied, served>>

\* The `if` of the job deploy.
Deploys(x) == x.event = "push"

\* Detect migration changes.  A diff with a commit the checkout does not have
\* prints nothing, which reads as no change.
Changed(p) ==
  \/ main[p].before = "zero"
  \/ main[p].before = "known" /\ main[p].tree # main[p - 1].tree

\* lint to all-checks-pass and, in a run that deploys, the steps up to the
\* image: what fails here has changed nothing.
Prepare(x) ==
  /\ stage[x] = "prepare"
  /\ \/ Finish(x, "failure")
     \/ ~Deploys(x) /\ Finish(x, "success")
     \/ Deploys(x) /\ Goto(x, IF Changed(x.sha) THEN "migrate" ELSE "deploy") /\ UNCHANGED asked
  /\ UNCHANGED <<main, applied, served>>

Files(p)       == {m \in Migration : main[p].tree[m] # "absent"}
Outstanding(x) == Files(x.sha) \ applied

\* dbmate takes the next file; one without an up section, or whose SQL does
\* not run, is not taken.
ApplyNext(x) ==
  \E m \in Outstanding(x) :
    /\ \A n \in Outstanding(x) : m <= n
    /\ main[x.sha].tree[m] = "sound"
    /\ applied' = applied \cup {m}

\* Mutant: a migration that fails does not fail the job.
Migrate_Tolerant(x) ==
  /\ stage[x] = "migrate"
  /\ \/ ApplyNext(x) /\ UNCHANGED <<stage, asked>>
     \/ Goto(x, "deploy") /\ UNCHANGED <<asked, applied>>
  /\ UNCHANGED <<main, served>>

\* dbmate up: the outstanding files of the checkout in order, a transaction
\* each, up to the first that fails, of which it may be in doubt whether it
\* committed.
Migrate(x) ==
  /\ stage[x] = "migrate"
  /\ \/ Outstanding(x) = {} /\ Goto(x, "deploy") /\ UNCHANGED <<asked, applied>>
     \/ ApplyNext(x) /\ UNCHANGED <<stage, asked>>
     \/ /\ UNCHANGED applied \/ ApplyNext(x)
        /\ Finish(x, "failure")
  /\ UNCHANGED <<main, served>>

\* gcloud run deploy, behind the check of BUCKET_NAME; a call that fails may
\* have been accepted.
Deploy(x) ==
  /\ stage[x] = "deploy"
  /\ \/ served' = x.sha /\ Finish(x, "success")
     \/ served' \in {served, x.sha} /\ Finish(x, "failure")
  /\ UNCHANGED <<main, applied>>

\* The run in progress stops where it is, as it was told to.
Stopped(x) ==
  /\ x \in asked
  /\ Finish(x, "cancelled")
  /\ \/ UNCHANGED <<applied, served>>
     \/ stage[x] = "migrate" /\ ApplyNext(x) /\ UNCHANGED served
     \/ stage[x] = "deploy" /\ served' = x.sha /\ UNCHANGED applied
  /\ UNCHANGED main

-----------------------------------------------------------------------------
Step(x) == Start(x) \/ Prepare(x) \/ Migrate(x) \/ Deploy(x) \/ Stopped(x)

Next ==
  \/ \E tree \in Tree, before \in {"zero", "known", "gone"} : Push(tree, before)
  \/ Dispatch
  \/ \E x \in Run : Step(x)

Spec == Init /\ [][Next]_vars

\* A run that may start is started, and a job ends: its steps return, or a
\* timeout of the runner ends them.  Nobody owes a push.
Fairness == \A x \in Run : WF_vars(Step(x))

FairSpec == Spec /\ Fairness

-----------------------------------------------------------------------------
\* What production serves never goes back to an earlier push, however runs
\* overtake, stop and fail.
ServedMovesForward == [][served' >= served]_vars

\* The steps are skipped when the push itself changes no migration, whatever
\* became of earlier ones.  Code is served without a migration of its commit
\* only if the push that brought it has had its run stopped or failed, or could not
\* be compared with what it replaced.
MissingMigrationHasCause ==
  served > 0 /\ ~(Files(served) \subseteq applied) =>
    LET p == main[served].origin IN
      stage[PushOf(p)] \in {"failure", "cancelled"} \/ main[p].before = "gone"

\* A push is served, itself or in a later one, unless a run that could have
\* done it failed or was displaced by a dispatch for the same commit.
Settled(p) ==
  \/ served >= p
  \/ \E q \in p..Len(main) :
       \/ stage[PushOf(q)] = "failure"
       \/ /\ stage[PushOf(q)] = "cancelled"
          /\ stage[[event |-> "dispatch", sha |-> q]] # "none"

\* No push falls between two runs: when nothing runs and nothing waits, every
\* push is settled, whatever superseded what.
NothingLeftBehind ==
  (\A x \in Run : ~InProgress(x) /\ stage[x] # "pending") =>
    \A p \in 1..Len(main) : Settled(p)

\* Every push settles: the runs come to an end.
EveryPushSettles == \A p \in 1..MaxPush : p <= Len(main) ~> Settled(p)
=============================================================================
