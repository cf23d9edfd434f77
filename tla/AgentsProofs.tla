---------------------------- MODULE AgentsProofs ----------------------------
(* Theorems about AgentRuns, for every set of requests, runs and inputs.    *)
EXTENDS AgentRuns, TLAPS

\* Updates that have taken effect and may yet be answered with success.
Applied(n) == {r \in Updates(n) : pc[r] = "reply" \/ answer[r] = "200"}

PastOK ==
  /\ \A r \in Request : \A q \in before[r] : pc[q] = "done" /\ answer[q] \notin {"none", "500"}
  /\ \A r \in Request : answer[r] # "none" <=> pc[r] = "done"
  /\ \A r \in Request : pc[r] = "idle" => arg[r].op = "none" /\ seen[r] = {}

\* An UPDATE that was cut off is of a request that is over, and not settled.
AdriftOK ==
  \A r \in adrift :
    /\ pc[r] \in {"done", "lost"} /\ answer[r] \in {"none", "500"}
    /\ arg[r].op \in {"complete", "update"} /\ Target(r) \in Run
    /\ Written(r) \in Row
    /\ arg[r].op = "complete" => MayUse(arg[r].as)

Authorised ==
  \A r \in Request : pc[r] = "statement" /\ arg[r].op = "complete" => MayUse(arg[r].as)

\* Update u left run n as it is, and no update that took effect was sent after
\* u had been answered.
Left(u, n) ==
  /\ pc[u] \in {"reply", "done", "lost"} /\ runs[n] = Written(u)
  /\ \A w \in Applied(n) : u \notin before[w]

RunOK(n) ==
  \/ Applied(n) = {} /\ runs[n] = Queued
  \/ \E u \in Updates(n) : Left(u, n)

RunsOK == \A n \in Run : RunOK(n)

AgentInv == TypeOK /\ PastOK /\ AdriftOK /\ Authorised /\ RunsOK /\ StatusIsFresh

-----------------------------------------------------------------------------
\* The row an update writes is a row of the table.
LEMMA WrittenTyped ==
  ASSUME TypeOK, NEW r \in Request, At(r, "complete") \/ At(r, "update"), Storable(r)
  PROVE  Written(r) \in Row
<1>1. CASE At(r, "complete")
  <2>1. arg[r].report.status \in Status /\ arg[r].report.last_seq \in Int
    BY <1>1 DEF TypeOK, Arg, Report, At, Storable
  <2>2. EndsAt(arg[r].report.status) \in BOOLEAN
    BY DEF EndsAt
  <2> QED
    BY <1>1, <2>1, <2>2 DEF Written, Row, EndsAt, At
<1>2. CASE At(r, "update")
  <2>1. arg[r].status \in Status /\ arg[r].op # "complete"
    BY <1>2 DEF TypeOK, Arg, At
  <2>2. EndsAt(arg[r].status) \in BOOLEAN
    BY DEF EndsAt
  <2> QED
    BY <2>1, <2>2 DEF Written, Row, EndsAt
<1> QED
  BY <1>1, <1>2

\* What a step of r does to its place and its answer.
LEMMA Places ==
  ASSUME TypeOK, NEW r \in Request
  PROVE  /\ \A label \in {"auth", "statement", "reply", "lost"} : Goto(r, label) =>
              /\ pc' \in [Request -> {"idle", "auth", "statement", "reply", "done", "lost"}]
              /\ answer' = answer /\ pc'[r] = label
              /\ \A q \in Request \ {r} : pc'[q] = pc[q]
         /\ \A status \in Answer : Finish(r, status) =>
              /\ pc' \in [Request -> {"idle", "auth", "statement", "reply", "done", "lost"}]
              /\ answer' \in [Request -> Answer] /\ pc'[r] = "done" /\ answer'[r] = status
              /\ \A q \in Request \ {r} : pc'[q] = pc[q] /\ answer'[q] = answer[q]
BY DEF TypeOK, Goto, Finish, Answer

LEMMA TypeStep == ASSUME TypeOK, AdriftOK, [Next]_vars PROVE TypeOK'
<1>1. CASE UNCHANGED vars
  BY <1>1 DEF TypeOK, vars
<1>2. ASSUME NEW r \in Request, NEW a \in Input, Receive(r, a) PROVE TypeOK'
  <2>1. a \in Arg /\ Settled \subseteq Request
    BY InputAssumption DEF Settled
  <2>2. arg' \in [Request -> Arg] /\ before' \in [Request -> SUBSET Request]
    BY <1>2, <2>1 DEF Receive, TypeOK
  <2>3. Goto(r, "auth") \/ Goto(r, "statement")
    BY <1>2 DEF Receive
  <2> QED
    BY <1>2, <2>2, <2>3, Places DEF Receive, TypeOK
<1>3. ASSUME NEW r \in Request, GetAuthenticatedRun(r) PROVE TypeOK'
  <2>1. Finish(r, "500") \/ Finish(r, "403") \/ Goto(r, "reply") \/ Goto(r, "statement")
    BY <1>3 DEF GetAuthenticatedRun, Raise
  <2>2. seen' \in [Request -> SUBSET (Run \X Status)]
    <3>1. CASE UNCHANGED seen
      BY <3>1 DEF TypeOK
    <3>2. CASE seen' # seen
      <4>1. PICK s \in StatusRead(arg[r].as.run) : seen' = [seen EXCEPT ![r] = {<<arg[r].as.run, s>>}]
        BY <1>3, <3>2 DEF GetAuthenticatedRun
      <4>2. MayUse(arg[r].as)
        BY <1>3, <3>2 DEF GetAuthenticatedRun
      <4>3. <<arg[r].as.run, s>> \in Run \X Status
        BY <4>1, <4>2 DEF MayUse, StatusRead, TypeOK, Row
      <4> QED
        BY <4>1, <4>3 DEF TypeOK
    <3> QED
      BY <3>1, <3>2
  <2> QED
    BY <1>3, <2>1, <2>2, Places DEF GetAuthenticatedRun, TypeOK, Answer
<1>4. ASSUME NEW r \in Request, UpdateRunStatus(r) PROVE TypeOK'
  <2>1. Finish(r, "500") \/ Goto(r, "reply")
    BY <1>4 DEF UpdateRunStatus, Raise
  <2>2. runs' \in [Run -> Row]
    BY <1>4, WrittenTyped DEF UpdateRunStatus, TypeOK
  <2> QED
    BY <1>4, <2>1, <2>2, Places DEF UpdateRunStatus, TypeOK, Answer
<1>5. ASSUME NEW r \in Request, RecordEvents(r) \/ GetManifest(r) \/ RequestFileUpload(r) \/ CreateRun(r)
      PROVE  TypeOK'
  <2>1. Finish(r, "500") \/ Goto(r, "reply")
    BY <1>5 DEF RecordEvents, GetManifest, RequestFileUpload, CreateRun, Raise
  <2>2. UNCHANGED <<arg, runs, adrift, seen, before>>
    BY <1>5 DEF RecordEvents, GetManifest, RequestFileUpload, CreateRun
  <2> QED
    BY <2>1, <2>2, Places DEF TypeOK, Answer
<1>6. ASSUME NEW r \in Request, ListQueuedRuns(r) PROVE TypeOK'
  <2>1. seen' \in [Request -> SUBSET (Run \X Status)]
    BY <1>6 DEF ListQueuedRuns, TypeOK, Status
  <2> QED
    BY <1>6, <2>1, Places DEF ListQueuedRuns, TypeOK
<1>7. ASSUME NEW r \in Request, Reply(r) \/ StatementFails(r) \/ Interrupted(r) PROVE TypeOK'
  <2>1. \E status \in {"500", "200", "201", "202"} : Finish(r, status) \/ Goto(r, "lost")
    BY <1>7 DEF Reply, StatementFails, Interrupted, Raise
  <2>2. UNCHANGED <<arg, runs, seen, before>> /\ adrift' \subseteq adrift \cup {r}
    BY <1>7 DEF Reply, StatementFails, Interrupted, CutOff
  <2> QED
    BY <2>1, <2>2, Places DEF TypeOK, Answer
<1>8. ASSUME NEW r \in Request, Lands(r) PROVE TypeOK'
  BY <1>8 DEF Lands, AdriftOK, TypeOK
<1> QED
  BY <1>1, <1>2, <1>3, <1>4, <1>5, <1>6, <1>7, <1>8 DEF Next

-----------------------------------------------------------------------------
\* What a step of request r past its arrival leaves alone: what was asked, what
\* was answered before, and every answer given.
LEMMA Frame ==
  ASSUME AgentInv, NEW r \in Request, InFlight(r), UNCHANGED <<arg, before>>,
         \A q \in Request \ {r} : pc'[q] = pc[q] /\ answer'[q] = answer[q]
  PROVE  /\ \A n \in Run : Updates(n)' = Updates(n) /\ Updates(n) \subseteq Request
         /\ \A u \in Request : Written(u)' = Written(u)
         /\ \A q \in Request : r \notin before[q] /\ before[q] \subseteq Request
         /\ \A q \in Request, n \in Run :
              (before[q] \cap Acknowledged(n))' = before[q] \cap Acknowledged(n)
<1>1. \A n \in Run : Updates(n)' = Updates(n) /\ Updates(n) \subseteq Request
  BY DEF Updates, Target
<1>2. \A u \in Request : Written(u)' = Written(u)
  BY DEF Written
<1>3. \A q \in Request : r \notin before[q] /\ before[q] \subseteq Request
  BY DEF AgentInv, TypeOK, PastOK, InFlight
<1>4. \A q \in Request, n \in Run :
        (before[q] \cap Acknowledged(n))' = before[q] \cap Acknowledged(n)
  BY <1>3 DEF Acknowledged, Target
<1> QED
  BY <1>1, <1>2, <1>3, <1>4

\* What the row of a run shows is fresh for every request in flight.
LEMMA RowIsFresh ==
  ASSUME AgentInv, NEW r \in Request, NEW n \in Run
  PROVE  \/ runs[n].status = "queued" /\ before[r] \cap Acknowledged(n) = {}
         \/ \E u \in Updates(n) : /\ Written(u).status = runs[n].status
                                  /\ \A w \in before[r] \cap Acknowledged(n) : u \notin before[w]
<1>1. Acknowledged(n) \subseteq Applied(n)
  BY DEF Acknowledged, Applied, Updates
<1>2. CASE Applied(n) = {} /\ runs[n] = Queued
  BY <1>1, <1>2 DEF Queued
<1>3. CASE \E u \in Updates(n) : Left(u, n)
  BY <1>1, <1>3 DEF Left
<1> QED
  BY <1>2, <1>3 DEF AgentInv, RunsOK, RunOK

\* A step that changes no run and moves r on.
LEMMA QuietStep ==
  ASSUME AgentInv, NEW r \in Request, InFlight(r), UNCHANGED <<arg, before, runs>>,
         \A q \in Request \ {r} : pc'[q] = pc[q] /\ answer'[q] = answer[q],
         pc'[r] \in {"statement", "reply", "done", "lost"},
         pc'[r] = "reply" => arg[r].op \notin {"complete", "update"},
         pc[r] = "reply" => pc'[r] \in {"done", "lost"},
         answer'[r] = "200" => pc[r] = "reply"
  PROVE  RunsOK'
<1> SUFFICES ASSUME NEW n \in Run PROVE RunOK(n)'
  BY DEF RunsOK
<1>1. Applied(n)' \subseteq Applied(n)
  BY Frame DEF Applied, Updates
<1>2. CASE Applied(n) = {} /\ runs[n] = Queued
  BY <1>1, <1>2 DEF RunOK, Queued
<1>3. CASE \E u \in Updates(n) : Left(u, n)
  <2>1. PICK u \in Updates(n) : Left(u, n)
    BY <1>3
  <2>2. u \in Request /\ pc'[u] \in {"reply", "done", "lost"}
    BY <2>1, Frame DEF Left, InFlight
  <2>3. runs'[n] = Written(u)' /\ \A w \in Applied(n)' : u \notin before'[w]
    BY <1>1, <2>1, <2>2, Frame DEF Left
  <2> QED
    BY <2>1, <2>2, <2>3, Frame DEF RunOK, Left
<1> QED
  BY <1>2, <1>3 DEF AgentInv, RunsOK, RunOK

\* A step that shows r nothing new.
LEMMA BlindStep ==
  ASSUME AgentInv, NEW r \in Request, InFlight(r), UNCHANGED <<arg, before, seen>>,
         \A q \in Request \ {r} : pc'[q] = pc[q] /\ answer'[q] = answer[q]
  PROVE  StatusIsFresh'
<1> SUFFICES ASSUME NEW q \in Request, NEW n \in Run, NEW s \in Status, <<n, s>> \in seen[q]
             PROVE  \/ s = "queued" /\ (before[q] \cap Acknowledged(n))' = {}
                    \/ \E u \in Updates(n)' :
                         /\ Written(u)'.status = s
                         /\ \A w \in (before[q] \cap Acknowledged(n))' : u \notin before'[w]
  BY DEF StatusIsFresh
<1> QED
  BY Frame DEF AgentInv, StatusIsFresh
\* A step that shows r the status of runs as they are.
LEMMA ShownStep ==
  ASSUME AgentInv, NEW r \in Request, InFlight(r), UNCHANGED <<arg, before>>,
         \A q \in Request \ {r} : pc'[q] = pc[q] /\ answer'[q] = answer[q] /\ seen'[q] = seen[q],
         \A n \in Run, s \in Status : <<n, s>> \in seen'[r] => s = runs[n].status
  PROVE  StatusIsFresh'
<1> SUFFICES ASSUME NEW q \in Request, NEW n \in Run, NEW s \in Status, <<n, s>> \in seen'[q]
             PROVE  \/ s = "queued" /\ (before[q] \cap Acknowledged(n))' = {}
                    \/ \E u \in Updates(n)' :
                         /\ Written(u)'.status = s
                         /\ \A w \in (before[q] \cap Acknowledged(n))' : u \notin before'[w]
  BY DEF StatusIsFresh
<1>1. CASE q = r
  BY <1>1, Frame, RowIsFresh
<1>2. CASE q # r
  BY <1>2, Frame DEF AgentInv, StatusIsFresh
<1> QED
  BY <1>1, <1>2

\* Others keep their witness, and r is its own: nobody sent after r was
\* answered has taken effect, as r has not been.
LEMMA UpdateStep ==
  ASSUME AgentInv, NEW r \in Request, UpdateRunStatus(r), Storable(r), Target(r) \in Run
  PROVE  RunsOK'
<1>1. /\ runs' = [runs EXCEPT ![Target(r)] = Written(r)] /\ pc'[r] = "reply" /\ answer' = answer
      /\ r \in Updates(Target(r)) /\ InFlight(r) /\ UNCHANGED <<arg, before>>
      /\ \A q \in Request \ {r} : pc'[q] = pc[q]
  BY Places DEF UpdateRunStatus, At, Updates, InFlight, AgentInv
<1> SUFFICES ASSUME NEW n \in Run PROVE RunOK(n)'
  BY DEF RunsOK
<1>2. CASE n = Target(r)
  <2>1. runs'[n] = Written(r)'
    BY <1>1, <1>2, Frame DEF AgentInv, TypeOK
  <2>2. \A w \in Applied(n)' : r \notin before'[w]
    BY <1>1, Frame DEF Applied
  <2>3. r \in Updates(n)'
    BY <1>1, <1>2, Frame
  <2> QED
    BY <1>1, <2>1, <2>2, <2>3 DEF RunOK, Left
<1>3. CASE n # Target(r)
  <2>1. runs'[n] = runs[n]
    BY <1>1, <1>3 DEF AgentInv, TypeOK
  <2>2. r \notin Updates(n)
    BY <1>3 DEF Updates
  <2>3. Applied(n)' = Applied(n)
    BY <1>1, <2>2, Frame DEF Applied
  <2>4. CASE Applied(n) = {} /\ runs[n] = Queued
    BY <2>1, <2>3, <2>4 DEF RunOK, Queued
  <2>5. ASSUME NEW u \in Updates(n), Left(u, n) PROVE Left(u, n)' /\ u \in Updates(n)'
    BY <1>1, <2>1, <2>2, <2>3, <2>5, Frame DEF Left
  <2> QED
    BY <2>4, <2>5 DEF AgentInv, RunsOK, RunOK
<1> QED
  BY <1>2, <1>3

\* A request that arrives has updated nothing and is in nobody's past.
LEMMA ReceiveStep ==
  ASSUME AgentInv, NEW r \in Request, NEW a \in Input, Receive(r, a)
  PROVE  PastOK' /\ AdriftOK' /\ Authorised' /\ RunsOK' /\ StatusIsFresh'
<1>1. /\ pc[r] = "idle" /\ pc'[r] \in {"auth", "statement"} /\ answer' = answer
      /\ arg'[r] = a /\ before'[r] = Settled /\ UNCHANGED <<runs, adrift, seen>>
      /\ \A q \in Request \ {r} : pc'[q] = pc[q] /\ arg'[q] = arg[q] /\ before'[q] = before[q]
      /\ a.op \in OverHttp => pc'[r] = "auth"
  BY DEF Receive, Goto, AgentInv, TypeOK
<1>2. /\ arg[r].op = "none" /\ seen[r] = {} /\ answer[r] # "200"
      /\ \A q \in Request : r \notin before[q] /\ before[q] \subseteq Request
  BY <1>1 DEF AgentInv, TypeOK, PastOK
<1>3. ASSUME NEW n \in Run
      PROVE  /\ Updates(n) \subseteq Updates(n)' /\ Updates(n)' \subseteq Updates(n) \cup {r}
             /\ r \notin Updates(n) /\ Updates(n) \subseteq Request
  BY <1>1, <1>2 DEF Updates, Target
<1>4. \A u \in Request \ {r} : Written(u)' = Written(u)
  BY <1>1 DEF Written
<1>5. PastOK'
  BY <1>1, <1>2 DEF AgentInv, PastOK, Settled
<1>6. Authorised'
  BY <1>1 DEF AgentInv, Authorised, OverHttp, MayUse
<1>7. RunsOK'
  <2> SUFFICES ASSUME NEW n \in Run PROVE RunOK(n)'
    BY DEF RunsOK
  <2>1. Applied(n)' = Applied(n) /\ r \notin Applied(n) /\ Applied(n) \subseteq Request
    BY <1>1, <1>2, <1>3 DEF Applied
  <2>2. CASE Applied(n) = {} /\ runs[n] = Queued
    BY <1>1, <2>1, <2>2 DEF RunOK, Queued
  <2>3. ASSUME NEW u \in Updates(n), Left(u, n) PROVE Left(u, n)' /\ u \in Updates(n)'
    BY <1>1, <1>3, <1>4, <2>1, <2>3 DEF Left
  <2> QED
    BY <2>2, <2>3 DEF AgentInv, RunsOK, RunOK
<1>8. StatusIsFresh'
  <2> SUFFICES ASSUME NEW q \in Request, NEW n \in Run, NEW s \in Status, <<n, s>> \in seen[q]
               PROVE  \/ s = "queued" /\ (before[q] \cap Acknowledged(n))' = {}
                      \/ \E u \in Updates(n)' :
                           /\ Written(u)'.status = s
                           /\ \A w \in (before[q] \cap Acknowledged(n))' : u \notin before'[w]
    BY <1>1 DEF StatusIsFresh
  <2>1. q # r /\ r \notin before[q] /\ before'[q] = before[q] /\ before[q] \subseteq Request
    BY <1>1, <1>2
  <2>2. (before[q] \cap Acknowledged(n))' = before[q] \cap Acknowledged(n)
    BY <1>1, <2>1 DEF Acknowledged, Target
  <2> QED
    BY <1>1, <1>3, <1>4, <2>1, <2>2 DEF AgentInv, StatusIsFresh
<1>9. AdriftOK'
  <2>1. r \notin adrift /\ adrift \subseteq Request
    BY <1>1 DEF AgentInv, AdriftOK, TypeOK
  <2> QED
    BY <1>1, <1>4, <2>1 DEF AgentInv, AdriftOK, Target
<1> QED
  BY <1>5, <1>6, <1>7, <1>8, <1>9

\* Others keep their witness when an UPDATE that was cut off takes effect, and
\* it is its own: it never was settled, so nobody was sent after that.
LEMMA LandsStep ==
  ASSUME AgentInv, NEW r \in Request, Lands(r)
  PROVE  PastOK' /\ AdriftOK' /\ Authorised' /\ RunsOK' /\ StatusIsFresh'
<1>1. /\ runs' = [runs EXCEPT ![Target(r)] = Written(r)] /\ UNCHANGED <<arg, pc, answer, seen, before>>
      /\ adrift' \subseteq adrift /\ r \in adrift
  BY DEF Lands
<1>2. /\ pc[r] \in {"done", "lost"} /\ answer[r] \in {"none", "500"} /\ Target(r) \in Run
      /\ r \in Updates(Target(r)) /\ \A w \in Request : r \notin before[w]
  BY <1>1 DEF AgentInv, AdriftOK, PastOK, Updates
<1>3. /\ \A n \in Run : Updates(n)' = Updates(n) /\ Updates(n) \subseteq Request
      /\ \A n \in Run : Applied(n)' = Applied(n) /\ Acknowledged(n)' = Acknowledged(n)
      /\ \A u \in Request : Written(u)' = Written(u) /\ Target(u)' = Target(u)
  BY <1>1 DEF Updates, Applied, Acknowledged, Target, Written
<1>4. PastOK' /\ Authorised'
  BY <1>1 DEF AgentInv, PastOK, Authorised
<1>5. AdriftOK'
  BY <1>1, <1>3 DEF AgentInv, AdriftOK, TypeOK
<1>6. StatusIsFresh'
  BY <1>1, <1>3 DEF AgentInv, StatusIsFresh
<1>7. RunsOK'
  <2> SUFFICES ASSUME NEW n \in Run PROVE RunOK(n)'
    BY DEF RunsOK
  <2>1. CASE n = Target(r)
    <3>1. runs'[n] = Written(r)'
      BY <1>1, <1>3, <2>1 DEF AgentInv, TypeOK
    <3>2. \A w \in Applied(n)' : r \notin before'[w]
      BY <1>1, <1>2, <1>3 DEF Applied, Updates
    <3> QED
      BY <1>1, <1>2, <1>3, <2>1, <3>1, <3>2 DEF RunOK, Left
  <2>2. CASE n # Target(r)
    <3>1. runs'[n] = runs[n]
      BY <1>1, <2>2 DEF AgentInv, TypeOK
    <3> QED
      BY <1>1, <1>3, <3>1 DEF AgentInv, RunsOK, RunOK, Left, Queued
  <2> QED
    BY <2>1, <2>2
<1> QED
  BY <1>4, <1>5, <1>6, <1>7

\* The places a step past arrival moves r to, and what it leaves alone.
LEMMA Moves ==
  ASSUME AgentInv, NEW r \in Request,
         \/ GetAuthenticatedRun(r) \/ UpdateRunStatus(r) \/ RecordEvents(r) \/ GetManifest(r)
         \/ RequestFileUpload(r) \/ CreateRun(r) \/ ListQueuedRuns(r) \/ Reply(r) \/ StatementFails(r) \/ Interrupted(r)
  PROVE  /\ InFlight(r) /\ UNCHANGED <<arg, before>>
         /\ \A q \in Request \ {r} : pc'[q] = pc[q] /\ answer'[q] = answer[q]
         /\ pc'[r] \in {"statement", "reply", "done", "lost"}
         /\ pc[r] = "reply" => pc'[r] \in {"done", "lost"}
         /\ answer'[r] # "none" <=> pc'[r] = "done"
         /\ answer'[r] = "200" => pc[r] = "reply"
         /\ pc'[r] = "statement" /\ arg[r].op = "complete" => MayUse(arg[r].as)
<1>1. answer[r] # "none" <=> pc[r] = "done"
  BY DEF AgentInv, PastOK
<1>2. CASE GetAuthenticatedRun(r)
  <2>1. Finish(r, "500") \/ Finish(r, "403") \/ Goto(r, "reply") \/ Goto(r, "statement")
    BY <1>2 DEF GetAuthenticatedRun, Raise
  <2>2. Goto(r, "statement") => MayUse(arg[r].as)
    BY <1>2, Places DEF GetAuthenticatedRun, Raise, AgentInv, Answer
  <2> QED
    BY <1>1, <1>2, <2>1, <2>2, Places DEF GetAuthenticatedRun, InFlight, AgentInv, Answer
<1>3. CASE \/ UpdateRunStatus(r) \/ RecordEvents(r) \/ GetManifest(r)
           \/ RequestFileUpload(r) \/ CreateRun(r) \/ ListQueuedRuns(r)
  <2>1. pc[r] = "statement" /\ UNCHANGED <<arg, before>> /\ (Finish(r, "500") \/ Goto(r, "reply"))
    BY <1>3 DEF UpdateRunStatus, RecordEvents, GetManifest, RequestFileUpload, CreateRun, ListQueuedRuns, At, Raise
  <2> QED
    BY <1>1, <2>1, Places DEF InFlight, AgentInv, Answer
<1>4. CASE Reply(r)
  <2>1. \E status \in {"200", "201", "202"} : Finish(r, status)
    BY <1>4 DEF Reply
  <2> QED
    BY <1>4, <2>1, Places DEF Reply, InFlight, AgentInv, Answer
<1>5. CASE StatementFails(r) \/ Interrupted(r)
  <2>1. Finish(r, "500") \/ Goto(r, "lost")
    BY <1>5 DEF StatementFails, Interrupted, Raise
  <2> QED
    BY <1>1, <1>5, <2>1, Places DEF StatementFails, Interrupted, InFlight, AgentInv, Answer
<1> QED
  BY <1>2, <1>3, <1>4, <1>5

LEMMA InvStep == ASSUME AgentInv, [Next]_vars PROVE AgentInv'
<1>0. TypeOK'
  BY TypeStep DEF AgentInv
<1> SUFFICES PastOK' /\ AdriftOK' /\ Authorised' /\ RunsOK' /\ StatusIsFresh'
  BY <1>0 DEF AgentInv
<1>1. CASE UNCHANGED vars
  <2>1. /\ \A n \in Run : Updates(n)' = Updates(n)
        /\ \A n \in Run : Applied(n)' = Applied(n) /\ Acknowledged(n)' = Acknowledged(n)
        /\ \A u : Written(u)' = Written(u)
    BY <1>1 DEF vars, Updates, Target, Applied, Acknowledged, Written
  <2>2. PastOK' /\ AdriftOK' /\ Authorised'
    BY <1>1, <2>1 DEF vars, AgentInv, PastOK, AdriftOK, Authorised, Target
  <2>3. RunsOK'
    BY <1>1, <2>1 DEF vars, AgentInv, RunsOK, RunOK, Left
  <2>4. StatusIsFresh'
    BY <1>1, <2>1 DEF vars, AgentInv, StatusIsFresh
  <2> QED
    BY <2>2, <2>3, <2>4
<1>2. ASSUME NEW r \in Request, NEW a \in Input, Receive(r, a)
      PROVE  PastOK' /\ AdriftOK' /\ Authorised' /\ RunsOK' /\ StatusIsFresh'
  BY <1>2, ReceiveStep
<1>3. ASSUME NEW r \in Request,
             \/ GetAuthenticatedRun(r) \/ UpdateRunStatus(r) \/ RecordEvents(r) \/ GetManifest(r)
             \/ RequestFileUpload(r) \/ CreateRun(r) \/ ListQueuedRuns(r) \/ Reply(r) \/ StatementFails(r) \/ Interrupted(r)
      PROVE  PastOK' /\ AdriftOK' /\ Authorised' /\ RunsOK' /\ StatusIsFresh'
  <2>1. \A q \in Request \ {r} : seen'[q] = seen[q]
    BY <1>3 DEF GetAuthenticatedRun, UpdateRunStatus, RecordEvents, GetManifest, RequestFileUpload, CreateRun,
                ListQueuedRuns, Reply, StatementFails, Interrupted, AgentInv, TypeOK
  <2>2. PastOK'
    BY <1>3, <2>1, Moves, Frame DEF AgentInv, TypeOK, PastOK, InFlight
  <2>3. Authorised'
    BY <1>3, Moves DEF AgentInv, Authorised
  <2>4. RunsOK'
    <3>1. CASE UpdateRunStatus(r) /\ Storable(r) /\ Target(r) \in Run
      BY <3>1, UpdateStep
    <3>2. CASE ~(UpdateRunStatus(r) /\ Storable(r) /\ Target(r) \in Run)
      <4>1. UNCHANGED runs
        BY <1>3, <3>2 DEF GetAuthenticatedRun, UpdateRunStatus, RecordEvents, GetManifest,
                          RequestFileUpload, CreateRun, ListQueuedRuns, Reply, StatementFails, Interrupted
      <4>2. pc'[r] = "reply" => arg[r].op \notin {"complete", "update"}
        BY <1>3, <3>2, Places DEF GetAuthenticatedRun, UpdateRunStatus, RecordEvents, GetManifest,
             RequestFileUpload, CreateRun, ListQueuedRuns, Reply, StatementFails, Interrupted, Raise, At, AgentInv, Answer
      <4> QED
        BY <1>3, <4>1, <4>2, Moves, QuietStep
    <3> QED
      BY <3>1, <3>2
  <2>5. StatusIsFresh'
    <3>1. CASE UNCHANGED seen
      BY <1>3, <3>1, Moves, BlindStep
    <3>2. CASE GetAuthenticatedRun(r) /\ seen' # seen
      <4>1. \A n \in Run, s \in Status : <<n, s>> \in seen'[r] => s = runs[n].status
        BY <3>2 DEF GetAuthenticatedRun, StatusRead, AgentInv, TypeOK
      <4> QED
        BY <1>3, <2>1, <4>1, Moves, ShownStep
    <3>3. CASE ListQueuedRuns(r)
      <4>1. \A n \in Run, s \in Status : <<n, s>> \in seen'[r] => s = runs[n].status
        BY <3>3 DEF ListQueuedRuns, AgentInv, TypeOK
      <4> QED
        BY <1>3, <2>1, <4>1, Moves, ShownStep
    <3> QED
      BY <1>3, <3>1, <3>2, <3>3 DEF UpdateRunStatus, RecordEvents, GetManifest, RequestFileUpload, CreateRun, Reply,
                                    StatementFails, Interrupted
  <2>6. AdriftOK'
    <3>1. /\ UNCHANGED <<arg>> /\ r \notin adrift
          /\ \A q \in Request \ {r} : pc'[q] = pc[q] /\ answer'[q] = answer[q]
          /\ \A u \in Request : Written(u)' = Written(u) /\ Target(u)' = Target(u)
      BY <1>3, Moves DEF AgentInv, AdriftOK, InFlight, Written, Target
    <3>2. CASE UNCHANGED adrift
      BY <3>1, <3>2 DEF AgentInv, AdriftOK, TypeOK
    <3>3. CASE adrift' # adrift
      <4>1. StatementFails(r) \/ Interrupted(r)
        BY <1>3, <3>3 DEF GetAuthenticatedRun, UpdateRunStatus, RecordEvents, GetManifest,
             RequestFileUpload, CreateRun, ListQueuedRuns, Reply
      <4>2. /\ At(r, "complete") \/ At(r, "update")
            /\ Storable(r) /\ Target(r) \in Run /\ adrift' = adrift \cup {r}
        BY <3>3, <4>1 DEF StatementFails, Interrupted, CutOff
      <4>3. pc'[r] \in {"done", "lost"} /\ answer'[r] \in {"none", "500"}
        BY <4>1, <4>2, Places DEF StatementFails, Interrupted, Raise, AgentInv, PastOK, Answer, At
      <4>4. /\ arg[r].op \in {"complete", "update"} /\ Written(r) \in Row
            /\ arg[r].op = "complete" => MayUse(arg[r].as)
        BY <4>2, WrittenTyped DEF At, AgentInv, Authorised
      <4> QED
        BY <3>1, <4>2, <4>3, <4>4 DEF AgentInv, AdriftOK, TypeOK
    <3> QED
      BY <3>2, <3>3
  <2> QED
    BY <2>2, <2>3, <2>4, <2>5, <2>6
<1>4. ASSUME NEW r \in Request, Lands(r)
      PROVE  PastOK' /\ AdriftOK' /\ Authorised' /\ RunsOK' /\ StatusIsFresh'
  BY <1>4, LandsStep
<1> QED
  BY <1>1, <1>2, <1>3, <1>4 DEF Next

LEMMA Invariant == Spec => []AgentInv
<1>1. Init => AgentInv
  <2> SUFFICES ASSUME Init PROVE AgentInv
    OBVIOUS
  <2>1. TypeOK
    BY DEF Init, TypeOK, Arg, Answer, Queued, Row, Status, Ended
  <2>2. PastOK /\ AdriftOK /\ Authorised /\ StatusIsFresh
    BY DEF Init, PastOK, AdriftOK, Authorised, StatusIsFresh
  <2>3. RunsOK
    BY DEF Init, RunsOK, RunOK, Applied, Updates
  <2> QED
    BY <2>1, <2>2, <2>3 DEF AgentInv
<1> QED
  BY <1>1, InvStep, PTL DEF Spec

-----------------------------------------------------------------------------
\* Every variable keeps its type; in particular completed_at agrees with status.
THEOREM AgentsTypeCorrect == Spec => []TypeOK
<1>1. AgentInv => TypeOK
  BY DEF AgentInv
<1> QED
  BY <1>1, Invariant, PTL

\* A run is as one whole update left it, one no client knows to be overwritten
\* (runs_pg_adapter.py, update_run_status).
THEOREM RunsAreOneUpdate == Spec => []RunIsOneUpdate
<1>1. ASSUME AgentInv PROVE RunIsOneUpdate
  <2>1. \A n \in Run : Acknowledged(n) \subseteq Applied(n)
    BY DEF Acknowledged, Applied, Updates
  <2> QED
    BY <1>1, <2>1 DEF AgentInv, RunsOK, RunOK, Left, RunIsOneUpdate
<1> QED
  BY <1>1, Invariant, PTL

\* No client is shown a status it knows to be overwritten (get_run,
\* list_queued_runs).
THEOREM StatusesAreFresh == Spec => []StatusIsFresh
<1>1. AgentInv => StatusIsFresh
  BY DEF AgentInv
<1> QED
  BY <1>1, Invariant, PTL

\* Between the check in get_authenticated_run and the UPDATE, however late it
\* takes effect, nothing can make a request write a run it may not use.
THEOREM OnlyAgentsWrite == Spec => OnlyItsAgentWrites
<1>1. ASSUME AgentInv, [Next]_vars
      PROVE  [\A n \in Run : runs'[n] # runs[n] =>
               \E r \in Updates(n) :
                 /\ pc[r] = "statement" \/ r \in adrift
                 /\ arg[r].op = "complete" => arg[r].as.token = n /\ arg[r].as.user = Owner[n]]_vars
  <2>1. CASE UNCHANGED runs
    BY <2>1
  <2>2. ASSUME NEW r \in Request, UpdateRunStatus(r), runs' # runs
        PROVE  \A n \in Run : runs'[n] # runs[n] =>
                 /\ r \in Updates(n) /\ pc[r] = "statement"
                 /\ arg[r].op = "complete" => arg[r].as.token = n /\ arg[r].as.user = Owner[n]
    <3>1. \A n \in Run : runs'[n] # runs[n] => n = Target(r)
      BY <1>1, <2>2 DEF UpdateRunStatus, AgentInv, TypeOK
    <3>2. pc[r] = "statement" /\ arg[r].op \in {"complete", "update"}
      BY <2>2 DEF UpdateRunStatus, At
    <3>3. arg[r].op = "complete" => MayUse(arg[r].as)
      BY <1>1, <3>2 DEF AgentInv, Authorised
    <3> QED
      BY <3>1, <3>2, <3>3 DEF Updates, Target, MayUse
  <2>3. ASSUME NEW r \in Request, Lands(r)
        PROVE  \A n \in Run : runs'[n] # runs[n] =>
                 /\ r \in Updates(n) /\ r \in adrift
                 /\ arg[r].op = "complete" => arg[r].as.token = n /\ arg[r].as.user = Owner[n]
    <3>1. \A n \in Run : runs'[n] # runs[n] => n = Target(r)
      BY <1>1, <2>3 DEF Lands, AgentInv, TypeOK
    <3>2. r \in adrift /\ arg[r].op \in {"complete", "update"}
          /\ (arg[r].op = "complete" => MayUse(arg[r].as))
      BY <1>1, <2>3 DEF Lands, AgentInv, AdriftOK
    <3> QED
      BY <3>1, <3>2 DEF Updates, Target, MayUse
  <2>4. UNCHANGED runs \/ \E r \in Request : UpdateRunStatus(r) \/ Lands(r)
    BY <1>1 DEF Next, vars, Receive, GetAuthenticatedRun, RecordEvents, GetManifest, RequestFileUpload, CreateRun,
                ListQueuedRuns, Reply, StatementFails, Interrupted
  <2> QED
    BY <2>1, <2>2, <2>3, <2>4
<1> QED
  BY <1>1, Invariant, PTL DEF Spec, OnlyItsAgentWrites
=============================================================================
