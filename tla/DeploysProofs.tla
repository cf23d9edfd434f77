---------------------------- MODULE DeploysProofs ----------------------------
(* Theorems about Deploys, for any number of pushes, files and trees.       *)
EXTENDS Deploys, TLAPS

Pending(x) == stage[x] = "pending"

\* One run at a time, one that waits, and that is for no earlier commit.
QueueInv ==
  /\ \A x, y \in Run : InProgress(x) /\ InProgress(y) => x = y
  /\ \A x, y \in Run : Pending(x) /\ Pending(y) => x = y
  /\ \A x, y \in Run : InProgress(x) /\ Pending(y) => x.sha <= y.sha
  /\ \A x \in Run : InProgress(x) \/ Pending(x) => served <= x.sha

\* The push that last changed the migrations has the same ones and was seen to
\* change them, unless it could not be compared.
OriginInv ==
  /\ \A p \in DOMAIN main : main[p].before = "zero" <=> p = 1
  /\ \A p \in DOMAIN main :
       /\ main[main[p].origin].tree = main[p].tree
       /\ main[main[p].origin].origin = main[p].origin
  /\ \A p \in DOMAIN main : main[p].origin = p => Changed(p) \/ main[p].before = "gone"

\* Only the newest push waits, those up to the served one have had their run,
\* and a run past its migrations has applied them.
HistoryInv ==
  /\ \A p \in DOMAIN main : stage[PushOf(p)] # "none"
  /\ \A p, q \in DOMAIN main : p < q => stage[PushOf(p)] # "pending"
  /\ \A p \in 1..served : stage[PushOf(p)] \in Ended
  /\ \A p \in DOMAIN main :
       stage[PushOf(p)] \in {"deploy", "success"} /\ Changed(p) => Files(p) \subseteq applied

\* A dispatched run ends with its checks.
PushesDeploy == \A x \in Run : stage[x] \in {"migrate", "deploy"} => x.event = "push"

DispatchOf(p) == [event |-> "dispatch", sha |-> p]

\* Nothing but a dispatch for the same commit can stop the run of the newest
\* push, and once that run has succeeded its push is the one served.
NewestInv ==
  main # << >> =>
    LET x == PushOf(Len(main)) IN
    /\ x \in asked \/ stage[x] = "cancelled" => stage[DispatchOf(Len(main))] # "none"
    /\ stage[x] = "success" => served = Len(main)

Inv == TypeOK /\ PushesDeploy /\ QueueInv /\ OriginInv /\ HistoryInv /\ NewestInv

Stage == {"none", "pending"} \cup Underway \cup Ended

USE MaxPushAssumption, MigrationAssumption, TreeAssumption
-----------------------------------------------------------------------------
LEMMA RunFacts ==
  /\ \A x \in Run : x.sha \in 1..MaxPush /\ x.event \in {"push", "dispatch"}
  /\ \A p \in 1..MaxPush : PushOf(p) \in Run /\ PushOf(p).sha = p /\ PushOf(p).event = "push"
  /\ \A x \in Run : x.event = "push" => x = PushOf(x.sha)
  /\ \A p, q \in 1..MaxPush : PushOf(p) = PushOf(q) => p = q
BY DEF Run, PushOf

LEMMA InitInv == Init => Inv
<1> SUFFICES ASSUME Init PROVE Inv
  OBVIOUS
<1>1. TypeOK
  BY DEF Init, TypeOK, InProgress, Underway
<1>2. \A x \in Run : stage[x] = "none" /\ ~InProgress(x) /\ ~Pending(x)
  BY DEF Init, InProgress, Pending, Underway
<1>3. DOMAIN main = {} /\ 1..served = {}
  BY DEF Init
<1> QED
  BY <1>1, <1>2, <1>3 DEF Inv, QueueInv, OriginInv, HistoryInv, NewestInv, PushesDeploy, Init

\* What is queued: a run for the newest commit, of which nothing ran before.
LEMMA Enqueued ==
  ASSUME TypeOK, NEW x \in Run, Enqueue(x), ~InProgress(x)
  PROVE  /\ stage' \in [Run -> Stage] /\ stage'[x] = "pending"
         /\ \A y \in Run : stage'[y] = "pending" => y = x
         /\ \A y \in Run : y # x => \/ stage'[y] = stage[y]
                                    \/ stage[y] = "pending" /\ stage'[y] = "cancelled"
         /\ \A y \in Run : stage'[y] \in Underway <=> InProgress(y)
         /\ asked' \subseteq {y \in Run : stage'[y] \in Underway}
BY DEF TypeOK, Enqueue, InProgress, Underway, Ended, Stage

\* The pushes already made keep their entries.
LEMMA Pushed ==
  ASSUME TypeOK, NEW e \in PushType, main' = Append(main, e), Len(main) + 1 <= MaxPush
  PROVE  /\ main' \in Seq(PushType) /\ Len(main') = Len(main) + 1
         /\ main'[Len(main) + 1] = e
         /\ DOMAIN main' = DOMAIN main \cup {Len(main) + 1}
         /\ \A p \in DOMAIN main : main'[p] = main[p] /\ p \in 1..Len(main)
BY DEF TypeOK

\* What a step of run x may do, whichever it is: x goes on to label l.
Moves(x, l) ==
  /\ l \in Underway \cup Ended /\ stage' = [stage EXCEPT ![x] = l]
  /\ IF stage[x] = "pending" THEN l = "prepare" /\ \A y \in Run : ~InProgress(y)
                             ELSE InProgress(x)
  /\ asked' = IF l \in Ended THEN asked \ {x} ELSE asked
  /\ main' = main
  /\ applied \subseteq applied' /\ applied' \subseteq Migration
  /\ \/ served' = served
     \/ served' = x.sha /\ stage[x] = "deploy" /\ l \in Ended /\ x.event = "push"
  /\ l \in {"migrate", "deploy"} => x.event = "push"
  /\ x.event = "push" /\ l = "success" => stage[x] = "deploy" /\ served' = x.sha
  /\ l = "cancelled" => x \in asked
  /\ l = "deploy" /\ Changed(x.sha) => Files(x.sha) \subseteq applied

LEMMA StepMoves ==
  ASSUME TypeOK, PushesDeploy, NEW x \in Run, Step(x)
  PROVE  \E l \in Underway \cup Ended : Moves(x, l)
<1> USE DEF Goto, Finish, Underway, Ended, InProgress, PushesDeploy
<1>1. x.sha \in DOMAIN main \/ stage[x] = "none"
  BY RunFacts DEF TypeOK
<1>2. asked \subseteq {y \in Run : InProgress(y)}
  BY DEF TypeOK
<1>3. ApplyNext(x) => applied \subseteq applied' /\ applied' \subseteq Migration
  BY DEF ApplyNext, Outstanding, Files, TypeOK
<1>4. applied \subseteq Migration
  BY DEF TypeOK
<1>5. CASE Start(x)
  <2>1. Moves(x, "prepare")
    BY <1>4, <1>5 DEF Start, Moves
  <2> QED
    BY <2>1
<1>6. CASE Prepare(x)
  <2>1. CASE Finish(x, "failure")
    <3>1. Moves(x, "failure")
      BY <1>4, <1>6, <2>1 DEF Prepare, Moves
    <3> QED
      BY <3>1
  <2>2. CASE ~Deploys(x) /\ Finish(x, "success")
    <3>1. Moves(x, "success")
      BY <1>4, <1>6, <2>2 DEF Prepare, Moves, Deploys
    <3> QED
      BY <3>1
  <2>3. CASE Deploys(x) /\ Goto(x, IF Changed(x.sha) THEN "migrate" ELSE "deploy") /\ UNCHANGED asked
    <3>1. Moves(x, IF Changed(x.sha) THEN "migrate" ELSE "deploy")
      BY <1>4, <1>6, <2>3 DEF Prepare, Moves, Deploys
    <3> QED
      BY <3>1
  <2> QED
    BY <1>6, <2>1, <2>2, <2>3 DEF Prepare
<1>7. CASE Migrate(x)
  <2>1. CASE Outstanding(x) = {} /\ Goto(x, "deploy") /\ UNCHANGED <<asked, applied>>
    <3>1. Files(x.sha) \subseteq applied
      BY <2>1 DEF Outstanding
    <3>2. Moves(x, "deploy")
      BY <2>1, <3>1, <1>4, <1>7 DEF Migrate, Moves
    <3> QED
      BY <3>2
  <2>2. CASE ApplyNext(x) /\ UNCHANGED <<stage, asked>>
    <3>1. stage' = [stage EXCEPT ![x] = "migrate"]
      BY <2>2, <1>7 DEF Migrate, TypeOK
    <3>2. Moves(x, "migrate")
      BY <2>2, <3>1, <1>3, <1>7 DEF Migrate, Moves
    <3> QED
      BY <3>2
  <2>3. CASE (UNCHANGED applied \/ ApplyNext(x)) /\ Finish(x, "failure")
    <3>1. Moves(x, "failure")
      BY <2>3, <1>3, <1>4, <1>7 DEF Migrate, Moves
    <3> QED
      BY <3>1
  <2> QED
    BY <1>7, <2>1, <2>2, <2>3 DEF Migrate
<1>8. CASE Deploy(x)
  <2>1. CASE served' = x.sha /\ Finish(x, "success")
    <3>1. Moves(x, "success")
      BY <1>4, <1>8, <2>1 DEF Deploy, Moves
    <3> QED
      BY <3>1
  <2>2. CASE Finish(x, "failure")
    <3>1. Moves(x, "failure")
      BY <1>4, <1>8, <2>2 DEF Deploy, Moves
    <3> QED
      BY <3>1
  <2> QED
    BY <1>8, <2>1, <2>2 DEF Deploy
<1>9. CASE Stopped(x)
  <2>1. InProgress(x) /\ stage[x] # "pending"
    BY <1>2, <1>9 DEF Stopped
  <2>2. applied \subseteq applied' /\ applied' \subseteq Migration
    BY <1>3, <1>4, <1>9 DEF Stopped
  <2>3. served' = served \/ (served' = x.sha /\ stage[x] = "deploy" /\ x.event = "push")
    BY <1>9 DEF Stopped
  <2>4. /\ stage' = [stage EXCEPT ![x] = "cancelled"] /\ asked' = asked \ {x}
        /\ main' = main /\ x \in asked
    BY <1>9 DEF Stopped
  <2>5. Moves(x, "cancelled")
    BY <2>1, <2>2, <2>3, <2>4 DEF Moves
  <2> QED
    BY <2>5
<1> QED
  BY <1>5, <1>6, <1>7, <1>8, <1>9 DEF Step

\* Where a step leaves the stages.
LEMMA Moved ==
  ASSUME TypeOK, NEW x \in Run, NEW l \in Underway \cup Ended, Moves(x, l)
  PROVE  /\ stage' \in [Run -> Stage] /\ stage'[x] = l
         /\ \A y \in Run \ {x} : stage'[y] = stage[y]
         /\ stage[x] \in {"pending"} \cup Underway
         /\ x.sha \in DOMAIN main
<1>1. stage[x] \in {"pending"} \cup Underway
  BY DEF Moves, InProgress
<1>2. x.sha <= Len(main) /\ x.sha \in 1..MaxPush
  BY <1>1, RunFacts DEF TypeOK, Underway
<1> QED
  BY <1>1, <1>2 DEF TypeOK, Moves, Stage

Triggered ==
  (\E tree \in Tree, before \in {"zero", "known", "gone"} : Push(tree, before)) \/ Dispatch

\* The two triggers, each with the run it queues.
LEMMA Triggers ==
  ASSUME TypeOK, Triggered
  PROVE  \E x \in Run :
           /\ Enqueue(x) /\ stage[x] = "none"
           /\ x.sha = Len(main') /\ UNCHANGED <<applied, served>>
           /\ x.event = "push" => Len(main') = Len(main) + 1
           /\ x.event = "dispatch" => main' = main /\ main # << >>
<1>1. ASSUME NEW tree \in Tree, NEW before \in {"zero", "known", "gone"}, Push(tree, before)
      PROVE  \E x \in Run :
               /\ Enqueue(x) /\ stage[x] = "none"
               /\ x.sha = Len(main') /\ UNCHANGED <<applied, served>>
               /\ x.event = "push" => Len(main') = Len(main) + 1
               /\ x.event = "dispatch" => main' = main /\ main # << >>
  <2> DEFINE p == Len(main) + 1
  <2>1. p \in 1..MaxPush /\ Enqueue(PushOf(p)) /\ Len(main') = p /\ UNCHANGED <<applied, served>>
    BY <1>1 DEF Push, TypeOK
  <2>2. stage[PushOf(p)] = "none"
    BY <2>1, RunFacts DEF TypeOK
  <2> QED
    BY <2>1, <2>2, RunFacts
<1>2. CASE Dispatch
  <2>1. Len(main) \in 1..MaxPush
    BY <1>2 DEF Dispatch, TypeOK
  <2>2. [event |-> "dispatch", sha |-> Len(main)] \in Run
    BY <2>1 DEF Run
  <2> QED
    BY <1>2, <2>2 DEF Dispatch
<1> QED
  BY <1>1, <1>2 DEF Triggered

-----------------------------------------------------------------------------
LEMMA QueueStep == ASSUME Inv, [Next]_vars PROVE QueueInv'
<1> USE DEF QueueInv, InProgress, Pending
<1>0. TypeOK /\ PushesDeploy /\ QueueInv
  BY DEF Inv
<1>1. CASE UNCHANGED vars
  BY <1>0, <1>1 DEF vars
<1>2. CASE Triggered
  <2>1. PICK x \in Run : /\ Enqueue(x) /\ stage[x] = "none" /\ x.sha = Len(main')
                         /\ served' = served
                         /\ x.event = "push" => Len(main') = Len(main) + 1
                         /\ x.event = "dispatch" => main' = main
    BY <1>0, <1>2, Triggers
  <2>2. Len(main) <= x.sha /\ served <= x.sha
    BY <1>0, <2>1, RunFacts DEF TypeOK
  <2>3. \A y \in Run : InProgress(y) => y.sha <= x.sha
    BY <1>0, <2>2, RunFacts DEF TypeOK, Underway
  <2>4. /\ \A y \in Run : Pending(y)' => y = x
        /\ \A y \in Run : InProgress(y)' <=> InProgress(y)
    BY <1>0, <2>1, Enqueued DEF Underway
  <2> QED
    BY <1>0, <2>1, <2>2, <2>3, <2>4
<1>3. ASSUME NEW x \in Run, Step(x) PROVE QueueInv'
  <2>1. PICK l \in Underway \cup Ended : Moves(x, l)
    BY <1>0, <1>3, StepMoves
  <2>2. /\ stage'[x] = l /\ l # "pending"
        /\ \A y \in Run \ {x} : stage'[y] = stage[y]
    BY <1>0, <2>1, Moved DEF Underway, Ended
  <2>3. \A y \in Run : /\ Pending(y)' => Pending(y) /\ y # x
                       /\ InProgress(y)' => InProgress(y) \/ (y = x /\ Pending(x))
    BY <2>1, <2>2 DEF Moves
  <2>4. Pending(x) => \A y \in Run : InProgress(y)' => y = x
    BY <2>1, <2>3 DEF Moves
  <2>5. CASE Pending(x)
    <3>1. \A y \in Run : ~Pending(y)'
      BY <1>0, <2>3, <2>5
    <3>2. served' = served
      BY <2>1, <2>5 DEF Moves
    <3> QED
      BY <1>0, <2>3, <2>4, <2>5, <3>1, <3>2
  <2>6. CASE ~Pending(x)
    <3>1. InProgress(x) /\ \A y \in Run : InProgress(y)' => InProgress(y)
      BY <2>1, <2>3, <2>6 DEF Moves
    <3>2. CASE served' = served
      BY <1>0, <2>3, <3>1, <3>2
    <3>3. CASE served' = x.sha /\ l \in Ended
      <4>1. \A y \in Run : ~InProgress(y)'
        BY <1>0, <2>2, <3>1, <3>3 DEF Underway, Ended
      <4> QED
        BY <1>0, <2>3, <3>1, <3>3, <4>1
    <3> QED
      BY <2>1, <3>2, <3>3 DEF Moves
  <2> QED
    BY <2>5, <2>6
<1> QED
  BY <1>1, <1>2, <1>3 DEF Next, Triggered

\* The entry a push appends.
LEMMA PushEntry ==
  ASSUME TypeOK, NEW tree \in Tree, NEW before \in {"zero", "known", "gone"}, Push(tree, before)
  PROVE  LET p == Len(main) + 1 IN
           /\ p \in 1..MaxPush
           /\ main' \in Seq(PushType) /\ Len(main') = p /\ DOMAIN main' = DOMAIN main \cup {p}
           /\ \A q \in DOMAIN main : main'[q] = main[q] /\ q < p
           /\ main'[p].tree = tree /\ main'[p].before = before
           /\ main'[p].origin = IF p > 1 /\ main[p - 1].tree = tree THEN main[p - 1].origin ELSE p
           /\ main'[p].origin \in 1..p
           /\ p > 1 => p - 1 \in DOMAIN main
<1> DEFINE p == Len(main) + 1
           o == IF p > 1 /\ main[p - 1].tree = tree THEN main[p - 1].origin ELSE p
           e == [tree |-> tree, before |-> before, origin |-> o]
<1>1. p \in 1..MaxPush /\ main' = Append(main, e)
  BY DEF Push, TypeOK
<1>2. p > 1 => p - 1 \in DOMAIN main
  BY <1>1 DEF TypeOK
<1>3. o \in 1..p
  <2>1. ASSUME p > 1 PROVE main[p - 1].origin \in 1..p
    <3>1. main[p - 1] \in PushType /\ main[p - 1].origin <= p - 1
      BY <1>2, <2>1 DEF TypeOK
    <3> QED
      BY <1>1, <3>1 DEF PushType
  <2> QED
    BY <1>1, <2>1
<1>4. e \in PushType
  BY <1>1, <1>3 DEF PushType
<1>5. e.tree = tree /\ e.before = before /\ e.origin = o
  OBVIOUS
<1> HIDE DEF e
<1>6. /\ main' \in Seq(PushType) /\ Len(main') = p /\ main'[p] = e
      /\ \A q \in DOMAIN main : main'[q] = main[q] /\ q < p
      /\ DOMAIN main' = DOMAIN main \cup {p}
  BY <1>1, <1>4, Pushed DEF TypeOK
<1> QED
  BY <1>1, <1>2, <1>3, <1>5, <1>6

LEMMA TypeStep == ASSUME Inv, [Next]_vars PROVE TypeOK' /\ PushesDeploy'
<1>0. TypeOK /\ PushesDeploy /\ QueueInv
  BY DEF Inv
<1>1. CASE UNCHANGED vars
  BY <1>0, <1>1 DEF vars, TypeOK, PushesDeploy, InProgress
<1>2. CASE Triggered
  <2>1. PICK x \in Run : /\ Enqueue(x) /\ stage[x] = "none" /\ x.sha = Len(main')
                         /\ UNCHANGED <<applied, served>>
    BY <1>0, <1>2, Triggers
  <2>2. /\ stage' \in [Run -> Stage] /\ asked' \subseteq {y \in Run : InProgress(y)'}
        /\ \A y \in Run : stage'[y] \in {"migrate", "deploy"} => stage[y] \in {"migrate", "deploy"}
        /\ \A y \in Run : stage'[y] # "none" => y = x \/ stage[y] # "none"
    BY <1>0, <2>1, Enqueued DEF InProgress, Underway
  <2>3. /\ main' \in Seq(PushType) /\ Len(main) <= Len(main') /\ Len(main') <= MaxPush
        /\ \A p \in DOMAIN main' : main'[p].origin <= p
    <3>1. ASSUME NEW tree \in Tree, NEW before \in {"zero", "known", "gone"}, Push(tree, before)
          PROVE  /\ main' \in Seq(PushType) /\ Len(main) <= Len(main') /\ Len(main') <= MaxPush
                 /\ \A p \in DOMAIN main' : main'[p].origin <= p
      <4>1. main'[Len(main) + 1].origin <= Len(main) + 1
        BY <1>0, <3>1, PushEntry DEF TypeOK
      <4> QED
        BY <1>0, <3>1, <4>1, PushEntry DEF TypeOK
    <3>2. CASE Dispatch
      BY <1>0, <3>2 DEF Dispatch, TypeOK
    <3> QED
      BY <1>2, <3>1, <3>2 DEF Triggered
  <2>4. \A y \in Run : stage'[y] # "none" => y.sha <= Len(main')
    BY <1>0, <2>1, <2>2, <2>3, RunFacts DEF TypeOK
  <2>5. served' \in 0..Len(main') /\ applied' \subseteq Migration
    BY <1>0, <2>1, <2>3 DEF TypeOK
  <2> QED
    BY <1>0, <2>2, <2>3, <2>4, <2>5 DEF TypeOK, PushesDeploy, Stage
<1>3. ASSUME NEW x \in Run, Step(x) PROVE TypeOK' /\ PushesDeploy'
  <2>1. PICK l \in Underway \cup Ended : Moves(x, l)
    BY <1>0, <1>3, StepMoves
  <2>2. /\ stage' \in [Run -> Stage] /\ stage'[x] = l /\ x.sha \in DOMAIN main
        /\ \A y \in Run \ {x} : stage'[y] = stage[y]
    BY <1>0, <2>1, Moved
  <2>3. asked' \subseteq {y \in Run : InProgress(y)'}
    BY <1>0, <2>1, <2>2 DEF Moves, TypeOK, InProgress
  <2>4. served' \in 0..Len(main') /\ applied' \subseteq Migration /\ main' = main
    BY <1>0, <2>1, <2>2 DEF Moves, TypeOK
  <2>5. \A y \in Run : stage'[y] # "none" => y.sha <= Len(main')
    BY <1>0, <2>2, <2>4 DEF TypeOK
  <2>6. PushesDeploy'
    BY <1>0, <2>1, <2>2 DEF Moves, PushesDeploy
  <2> QED
    BY <1>0, <2>2, <2>3, <2>4, <2>5, <2>6 DEF TypeOK, Stage
<1> QED
  BY <1>1, <1>2, <1>3 DEF Next, Triggered

\* What was changed by an earlier push stays as it is.
LEMMA ChangedStays ==
  ASSUME TypeOK, OriginInv, NEW tree \in Tree, NEW before \in {"zero", "known", "gone"},
         Push(tree, before), NEW p \in DOMAIN main
  PROVE  Changed(p)' = Changed(p) /\ Files(p)' = Files(p)
<1>1. main'[p] = main[p]
  BY PushEntry
<1>2. Files(p)' = Files(p)
  BY <1>1 DEF Files
<1>3. CASE p = 1
  BY <1>1, <1>2, <1>3 DEF Changed, OriginInv
<1>4. CASE p # 1
  <2>1. p - 1 \in DOMAIN main
    BY <1>4 DEF TypeOK
  <2>2. main'[p - 1] = main[p - 1]
    BY <2>1, PushEntry
  <2> QED
    BY <1>1, <1>2, <2>2 DEF Changed
<1> QED
  BY <1>3, <1>4

LEMMA OriginStep == ASSUME Inv, [Next]_vars PROVE OriginInv'
<1>0. TypeOK /\ PushesDeploy /\ OriginInv
  BY DEF Inv
<1>1. CASE main' = main
  BY <1>0, <1>1 DEF OriginInv, Changed
<1>2. ASSUME NEW tree \in Tree, NEW before \in {"zero", "known", "gone"}, Push(tree, before)
      PROVE  OriginInv'
  <2>0. PICK p \in 1..MaxPush : p = Len(main) + 1
    BY <1>0, <1>2, PushEntry
  <2>1. /\ DOMAIN main' = DOMAIN main \cup {p}
        /\ \A q \in DOMAIN main : main'[q] = main[q] /\ q < p
        /\ main'[p].tree = tree /\ main'[p].before = before
        /\ main'[p].origin = IF p > 1 /\ main[p - 1].tree = tree THEN main[p - 1].origin ELSE p
        /\ p > 1 => p - 1 \in DOMAIN main
    BY <1>0, <1>2, <2>0, PushEntry
  <2>2. (before = "zero" <=> p = 1) /\ (before = "gone" => main[p - 1].tree # tree)
    BY <1>2, <2>0 DEF Push
  <2>3. \A q \in DOMAIN main' : main'[q].before = "zero" <=> q = 1
    BY <1>0, <2>1, <2>2 DEF OriginInv
  <2>4. \A q \in DOMAIN main : main[q].origin \in DOMAIN main
    <3>1. \A q \in DOMAIN main : main[q] \in PushType /\ main[q].origin <= q /\ q \in 1..Len(main)
      BY <1>0 DEF TypeOK
    <3> QED
      BY <3>1 DEF PushType
  <2>5. \A q \in DOMAIN main : /\ main'[main'[q].origin].tree = main'[q].tree
                               /\ main'[main'[q].origin].origin = main'[q].origin
    BY <1>0, <2>1, <2>4 DEF OriginInv
  <2>6. /\ main'[main'[p].origin].tree = main'[p].tree
        /\ main'[main'[p].origin].origin = main'[p].origin
    <3>1. CASE p > 1 /\ main[p - 1].tree = tree
      BY <1>0, <2>1, <2>4, <3>1 DEF OriginInv
    <3>2. CASE ~(p > 1 /\ main[p - 1].tree = tree)
      BY <2>1, <3>2
    <3> QED
      BY <3>1, <3>2
  <2>7. \A q \in DOMAIN main : main'[q].origin = q => Changed(q)' \/ main'[q].before = "gone"
    BY <1>0, <1>2, <2>1, ChangedStays DEF OriginInv
  <2>8. main'[p].origin = p => Changed(p)' \/ main'[p].before = "gone"
    <3>1. CASE p = 1
      BY <2>1, <2>2, <3>1 DEF Changed
    <3>2. CASE p > 1 /\ main[p - 1].tree # tree
      <4>1. main'[p - 1].tree # main'[p].tree
        BY <2>1, <3>2
      <4> QED
        BY <2>1, <2>2, <3>2, <4>1 DEF Changed
    <3>3. CASE p > 1 /\ main[p - 1].tree = tree
      BY <1>0, <2>1, <3>3 DEF TypeOK
    <3> QED
      BY <2>1, <3>1, <3>2, <3>3
  <2> QED
    BY <2>1, <2>3, <2>5, <2>6, <2>7, <2>8 DEF OriginInv
<1>3. CASE Dispatch \/ UNCHANGED vars
  BY <1>1, <1>3 DEF Dispatch, vars
<1>4. ASSUME NEW x \in Run, Step(x) PROVE OriginInv'
  BY <1>0, <1>1, <1>4, StepMoves DEF Moves
<1> QED
  BY <1>2, <1>3, <1>4 DEF Next

LEMMA HistoryStep == ASSUME Inv, [Next]_vars PROVE HistoryInv'
<1>0. TypeOK /\ PushesDeploy /\ QueueInv /\ OriginInv /\ HistoryInv
  BY DEF Inv
<1>a. DOMAIN main \subseteq 1..MaxPush /\ served \in 0..Len(main) /\ DOMAIN main = 1..Len(main)
  BY <1>0 DEF TypeOK
<1>1. CASE UNCHANGED vars
  BY <1>0, <1>1 DEF vars, HistoryInv, Changed, Files
<1>2. ASSUME NEW tree \in Tree, NEW before \in {"zero", "known", "gone"}, Push(tree, before)
      PROVE  HistoryInv'
  <2>0. PICK p \in 1..MaxPush : p = Len(main) + 1
    BY <1>0, <1>2, PushEntry
  <2>1. Enqueue(PushOf(p)) /\ UNCHANGED <<applied, served>>
    BY <1>2, <2>0 DEF Push
  <2>2. PushOf(p) \in Run /\ stage[PushOf(p)] = "none"
    BY <1>0, <2>0, RunFacts DEF TypeOK
  <2>3. /\ stage'[PushOf(p)] = "pending"
        /\ \A q \in DOMAIN main : /\ PushOf(q) \in Run /\ q # p /\ stage'[PushOf(q)] # "pending"
                                  /\ \/ stage'[PushOf(q)] = stage[PushOf(q)]
                                     \/ /\ stage[PushOf(q)] = "pending"
                                        /\ stage'[PushOf(q)] = "cancelled"
    BY <1>0, <1>a, <2>0, <2>1, <2>2, RunFacts, Enqueued DEF InProgress, Underway
  <2>4. DOMAIN main' = DOMAIN main \cup {p} /\ \A q \in DOMAIN main : q < p
    BY <1>0, <1>2, <2>0, PushEntry
  <2>5. \A q \in DOMAIN main' : stage'[PushOf(q)] # "none"
    BY <1>0, <2>3, <2>4 DEF HistoryInv
  <2>6. \A q, q2 \in DOMAIN main' : q < q2 => stage'[PushOf(q)] # "pending"
    BY <1>a, <2>3, <2>4
  <2>7. \A q \in 1..served' : stage'[PushOf(q)] \in Ended
    BY <1>0, <1>a, <2>1, <2>3 DEF HistoryInv, Ended
  <2>8. \A q \in DOMAIN main' : stage'[PushOf(q)] \in {"deploy", "success"} /\ Changed(q)'
                                  => Files(q)' \subseteq applied'
    <3> SUFFICES ASSUME NEW q \in DOMAIN main', stage'[PushOf(q)] \in {"deploy", "success"}, Changed(q)'
                 PROVE  Files(q)' \subseteq applied'
      OBVIOUS
    <3>1. q \in DOMAIN main /\ stage[PushOf(q)] \in {"deploy", "success"}
      BY <2>3, <2>4
    <3>2. Changed(q)' = Changed(q) /\ Files(q)' = Files(q)
      BY <1>0, <1>2, <3>1, ChangedStays
    <3> QED
      BY <1>0, <2>1, <3>1, <3>2 DEF HistoryInv
  <2> QED
    BY <2>5, <2>6, <2>7, <2>8 DEF HistoryInv
<1>3. CASE Dispatch
  <2>1. PICK x \in Run : /\ x.event = "dispatch" /\ Enqueue(x) /\ stage[x] = "none"
                         /\ UNCHANGED <<main, applied, served>>
    <3>1. Len(main) \in 1..MaxPush
      BY <1>0, <1>3 DEF Dispatch, TypeOK
    <3>2. [event |-> "dispatch", sha |-> Len(main)] \in Run
      BY <3>1 DEF Run
    <3> QED
      BY <1>3, <3>2 DEF Dispatch
  <2>2. \A q \in DOMAIN main : /\ PushOf(q) \in Run /\ stage'[PushOf(q)] # "pending"
                               /\ \/ stage'[PushOf(q)] = stage[PushOf(q)]
                                  \/ /\ stage[PushOf(q)] = "pending"
                                     /\ stage'[PushOf(q)] = "cancelled"
    BY <1>0, <1>a, <2>1, RunFacts, Enqueued DEF InProgress, Underway
  <2> QED
    BY <1>0, <1>a, <2>1, <2>2 DEF HistoryInv, Ended, Changed, Files
<1>4. ASSUME NEW x \in Run, Step(x) PROVE HistoryInv'
  <2>1. PICK l \in Underway \cup Ended : Moves(x, l)
    BY <1>0, <1>4, StepMoves
  <2>2. /\ stage'[x] = l /\ \A y \in Run \ {x} : stage'[y] = stage[y]
        /\ stage[x] \in {"pending"} \cup Underway
    BY <1>0, <2>1, Moved
  <2>3. main' = main /\ applied \subseteq applied'
    BY <2>1 DEF Moves
  <2>4. \A q \in DOMAIN main : PushOf(q) \in Run
    BY <1>a, RunFacts
  <2>5. \A q \in DOMAIN main' : stage'[PushOf(q)] # "none"
    BY <1>0, <2>2, <2>3, <2>4 DEF HistoryInv, Underway, Ended
  <2>6. \A q, q2 \in DOMAIN main' : q < q2 => stage'[PushOf(q)] # "pending"
    BY <1>0, <2>2, <2>3, <2>4 DEF HistoryInv, Underway, Ended
  <2>7. \A q \in 1..served' : stage'[PushOf(q)] \in Ended
    <3>1. CASE served' = served
      BY <1>0, <1>a, <2>2, <2>4, <3>1 DEF HistoryInv, Underway, Ended
    <3>2. CASE served' = x.sha /\ stage[x] = "deploy" /\ l \in Ended /\ x.event = "push"
      <4>1. x = PushOf(x.sha) /\ x.sha \in DOMAIN main
        BY <1>0, <2>1, <3>2, Moved, RunFacts
      <4>2. ASSUME NEW q \in 1..x.sha, q # x.sha PROVE stage[PushOf(q)] \in Ended
        <5>1. q \in DOMAIN main /\ q < x.sha
          BY <1>a, <4>1, <4>2
        <5>2. stage[PushOf(q)] \notin {"none", "pending"}
          BY <1>0, <4>1, <5>1 DEF HistoryInv
        <5>3. PushOf(q) # x /\ PushOf(q) \in Run
          BY <1>a, <2>4, <4>1, <5>1, RunFacts
        <5>4. ~InProgress(PushOf(q))
          BY <1>0, <3>2, <5>3 DEF QueueInv, InProgress, Underway
        <5>5. stage[PushOf(q)] \in Stage
          BY <1>0, <5>3 DEF TypeOK, Stage
        <5> QED
          BY <5>2, <5>4, <5>5 DEF Stage, InProgress
      <4>3. \A q \in 1..x.sha : q # x.sha => PushOf(q) \in Run /\ PushOf(q) # x
        BY <1>a, <2>4, <4>1, RunFacts
      <4> QED
        BY <2>2, <3>2, <4>1, <4>2, <4>3
    <3> QED
      BY <2>1, <3>1, <3>2 DEF Moves
  <2>8. \A q \in DOMAIN main' : stage'[PushOf(q)] \in {"deploy", "success"} /\ Changed(q)'
                                  => Files(q)' \subseteq applied'
    <3> SUFFICES ASSUME NEW q \in DOMAIN main, stage'[PushOf(q)] \in {"deploy", "success"}, Changed(q)
                 PROVE  Files(q) \subseteq applied'
      BY <2>3 DEF Changed, Files
    <3>1. CASE PushOf(q) # x
      BY <1>0, <2>2, <2>3, <2>4, <3>1 DEF HistoryInv
    <3>2. CASE PushOf(q) = x
      <4>1. x.sha = q /\ x.event = "push"
        BY <1>a, <3>2, RunFacts
      <4>2. CASE l = "deploy"
        BY <2>1, <2>3, <4>1, <4>2 DEF Moves
      <4>3. CASE l = "success"
        BY <1>0, <2>1, <2>3, <3>2, <4>1, <4>3 DEF Moves, HistoryInv
      <4> QED
        BY <2>2, <3>2, <4>2, <4>3
    <3> QED
      BY <3>1, <3>2
  <2> QED
    BY <2>5, <2>6, <2>7, <2>8 DEF HistoryInv
<1> QED
  BY <1>1, <1>2, <1>3, <1>4 DEF Next

LEMMA NewestStep == ASSUME Inv, [Next]_vars PROVE NewestInv'
<1> DEFINE n == Len(main)
<1>0. TypeOK /\ PushesDeploy /\ QueueInv /\ NewestInv
  BY DEF Inv
<1>1. CASE UNCHANGED vars
  BY <1>0, <1>1 DEF vars, NewestInv
<1>2. CASE Triggered
  <2>1. PICK x \in Run : /\ Enqueue(x) /\ stage[x] = "none"
                         /\ x.sha = Len(main') /\ UNCHANGED <<applied, served>>
                         /\ x.event = "push" => Len(main') = Len(main) + 1
                         /\ x.event = "dispatch" => main' = main /\ main # << >>
    BY <1>0, <1>2, Triggers
  <2>2. /\ stage'[x] = "pending" /\ x \notin asked'
        /\ \A y \in Run : y # x => \/ stage'[y] = stage[y]
                                   \/ stage[y] = "pending" /\ stage'[y] = "cancelled"
    BY <1>0, <2>1, Enqueued DEF InProgress, Underway, Enqueue
  <2>3. CASE x.event = "push"
    <3>1. x = PushOf(Len(main'))
      BY <2>1, <2>3, RunFacts
    <3> QED
      BY <2>2, <3>1 DEF NewestInv
  <2>4. CASE x.event = "dispatch"
    <3>1. x = DispatchOf(n) /\ n \in 1..MaxPush
      BY <2>1, <2>4, RunFacts DEF DispatchOf, Run
    <3>2. PushOf(n) \in Run /\ PushOf(n) # x
      BY <2>4, <3>1, RunFacts
    <3> QED
      BY <1>0, <2>1, <2>2, <2>4, <3>1, <3>2 DEF NewestInv
  <2> QED
    BY <2>3, <2>4, RunFacts
<1>3. ASSUME NEW x \in Run, Step(x) PROVE NewestInv'
  <2>1. PICK l \in Underway \cup Ended : Moves(x, l)
    BY <1>0, <1>3, StepMoves
  <2>2. /\ stage'[x] = l /\ \A y \in Run \ {x} : stage'[y] = stage[y]
        /\ stage[x] \in {"pending"} \cup Underway /\ x.sha \in DOMAIN main
    BY <1>0, <2>1, Moved
  <2>3. main' = main /\ asked' \subseteq asked /\ (l = "cancelled" => x \in asked)
    BY <2>1 DEF Moves
  <2>4. n \in 1..MaxPush /\ PushOf(n) \in Run /\ DispatchOf(n) \in Run /\ x.sha <= n /\ main # << >>
    BY <1>0, <2>2, RunFacts DEF TypeOK, DispatchOf, Run
  <2>5. stage[DispatchOf(n)] # "none" => stage'[DispatchOf(n)] # "none"
    BY <2>2, <2>4 DEF Underway, Ended
  <2>6. PushOf(n) \in asked' \/ stage'[PushOf(n)] = "cancelled"
          => PushOf(n) \in asked \/ stage[PushOf(n)] = "cancelled"
    BY <2>2, <2>3, <2>4
  <2>7. ASSUME stage'[PushOf(n)] = "success" PROVE served' = n
    <3>1. CASE x = PushOf(n)
      BY <2>1, <2>2, <2>4, <2>7, <3>1, RunFacts DEF Moves
    <3>2. CASE x # PushOf(n)
      <4>1. served = n
        BY <1>0, <2>2, <2>4, <2>7, <3>2 DEF NewestInv
      <4>2. served' # served => served <= x.sha /\ served' = x.sha
        BY <1>0, <2>1 DEF Moves, QueueInv, InProgress, Underway
      <4> QED
        BY <2>4, <4>1, <4>2, RunFacts
    <3> QED
      BY <3>1, <3>2
  <2> QED
    BY <1>0, <2>3, <2>4, <2>5, <2>6, <2>7 DEF NewestInv
<1> QED
  BY <1>1, <1>2, <1>3 DEF Next, Triggered

LEMMA Invariance == Spec => []Inv
<1>1. Inv /\ [Next]_vars => Inv'
  BY TypeStep, QueueStep, OriginStep, HistoryStep, NewestStep DEF Inv
<1> QED
  BY InitInv, <1>1, PTL DEF Spec

-----------------------------------------------------------------------------
\* The variables keep their types.
THEOREM DeploysTypeCorrect == Spec => []TypeOK
<1>1. Inv => TypeOK
  BY DEF Inv
<1> QED
  BY Invariance, <1>1, PTL

\* Production never goes back: the run in progress is for no older commit than
\* the served one, and nothing else deploys.
THEOREM ServingMovesForward == Spec => ServedMovesForward
<1>1. Inv /\ [Next]_vars => [served' >= served]_vars
  <2> SUFFICES ASSUME Inv, [Next]_vars PROVE served' >= served
    OBVIOUS
  <2>0. TypeOK /\ PushesDeploy /\ QueueInv /\ served \in Int
    BY DEF Inv, TypeOK
  <2>1. CASE UNCHANGED vars
    BY <2>0, <2>1 DEF vars
  <2>2. CASE Triggered
    BY <2>0, <2>2, Triggers
  <2>3. ASSUME NEW x \in Run, Step(x) PROVE served' >= served
    <3>1. PICK l \in Underway \cup Ended : Moves(x, l)
      BY <2>0, <2>3, StepMoves
    <3>2. CASE served' = served
      BY <2>0, <3>2
    <3>3. CASE served' = x.sha /\ stage[x] = "deploy"
      BY <2>0, <3>3, RunFacts DEF QueueInv, InProgress, Underway
    <3> QED
      BY <3>1, <3>2, <3>3 DEF Moves
  <2> QED
    BY <2>1, <2>2, <2>3 DEF Next, Triggered
<1> QED
  BY Invariance, <1>1, PTL DEF Spec, ServedMovesForward

\* Code served without one of its migrations goes back to a push whose run
\* stopped or failed, or that could not be compared.
THEOREM MissingMigrationsHaveCauses == Spec => []MissingMigrationHasCause
<1>1. Inv => MissingMigrationHasCause
  <2> SUFFICES ASSUME Inv, served > 0, ~(Files(served) \subseteq applied)
               PROVE  LET p == main[served].origin IN
                        stage[PushOf(p)] \in {"failure", "cancelled"} \/ main[p].before = "gone"
    BY DEF MissingMigrationHasCause
  <2>0. TypeOK /\ OriginInv /\ HistoryInv
    BY DEF Inv
  <2>1. PICK p \in 1..MaxPush : p = main[served].origin /\ p <= served /\ p \in DOMAIN main
    <3>1. served \in DOMAIN main /\ main[served] \in PushType /\ main[served].origin <= served
      BY <2>0 DEF TypeOK
    <3> QED
      BY <2>0, <3>1 DEF PushType, TypeOK
  <2>2. served \in DOMAIN main
    BY <2>0 DEF TypeOK
  <2>3. Files(p) = Files(served) /\ main[p].origin = p
    BY <2>0, <2>1, <2>2 DEF OriginInv, Files
  <2>4. stage[PushOf(p)] \in Ended
    BY <2>0, <2>1, <2>2 DEF HistoryInv, TypeOK
  <2>5. Changed(p) => stage[PushOf(p)] # "success"
    BY <2>0, <2>1, <2>3 DEF HistoryInv
  <2>6. Changed(p) \/ main[p].before = "gone"
    BY <2>0, <2>1, <2>3 DEF OriginInv
  <2> QED
    BY <2>1, <2>4, <2>5, <2>6 DEF Ended
<1> QED
  BY Invariance, <1>1, PTL

\* However runs supersede each other, when none is left every push is served,
\* itself or in a later one, or its run failed or gave way to a dispatch for
\* the same commit (ci.yml, concurrency).
THEOREM NoPushLeftBehind == Spec => []NothingLeftBehind
<1>1. Inv => NothingLeftBehind
  <2> SUFFICES ASSUME Inv, \A x \in Run : ~InProgress(x) /\ stage[x] # "pending",
                      NEW p \in 1..Len(main)
               PROVE  Settled(p)
    BY DEF NothingLeftBehind
  <2> DEFINE n == Len(main)
  <2>0. TypeOK /\ HistoryInv /\ NewestInv
    BY DEF Inv
  <2>1. n \in 1..MaxPush /\ n \in DOMAIN main /\ main # << >> /\ n \in p..n
    BY <2>0 DEF TypeOK
  <2>2. PushOf(n) \in Run /\ stage[PushOf(n)] \in Stage /\ stage[PushOf(n)] # "none"
    BY <2>0, <2>1, RunFacts DEF TypeOK, HistoryInv, Stage
  <2>3. stage[PushOf(n)] \in Ended
    BY <2>2 DEF Stage, InProgress
  <2>4. CASE stage[PushOf(n)] = "success"
    <3>1. served >= p
      BY <2>0, <2>1, <2>4 DEF NewestInv
    <3> QED
      BY <3>1 DEF Settled
  <2>5. CASE stage[PushOf(n)] = "failure"
    BY <2>1, <2>5 DEF Settled
  <2>6. CASE stage[PushOf(n)] = "cancelled"
    <3>1. stage[[event |-> "dispatch", sha |-> n]] # "none"
      BY <2>0, <2>1, <2>6 DEF NewestInv, DispatchOf
    <3> QED
      BY <2>1, <2>6, <3>1 DEF Settled
  <2> QED
    BY <2>3, <2>4, <2>5, <2>6 DEF Ended
<1> QED
  BY Invariance, <1>1, PTL
=============================================================================
