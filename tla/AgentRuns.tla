----------------------------- MODULE AgentRuns -----------------------------
(***************************************************************************)
(* The runs of agents: an agent reads its run and reports its end over      *)
(* HTTP; a dispatcher or an operator lists queued runs and sets a status by  *)
(* calling AgentsApplicationService, which nothing in src/ does yet.  The    *)
(* rows of agents.runs are there from the start: create_run passes a dict   *)
(* for a JSONB column, for which the pool has no codec, and always raises.  *)
(*                                                                         *)
(* An endpoint reads the run in a dependency and acts in a statement of its *)
(* own; an UPDATE overwrites the row without looking at it.                 *)
(***************************************************************************)
EXTENDS Integers

CONSTANTS
  Request,  \* requests and calls ever made: the bound on the length of a history
  Run,      \* ids of agents.runs; a run's token is its id, as tokens are unique
  User,     \* authenticated users
  Owner,    \* user_id of each run
  Input     \* what is asked, a subset of Arg

Null == "null"

Status   == {"queued", "running", "completed", "failed", "cancelled"}
Ended    == {"completed", "failed", "cancelled"}
Document == {"done", "blocked"}  \* other values of status the schemas mention

VARIABLES
  arg,     \* the request
  pc,      \* idle, auth, statement, reply, done, lost
  answer,  \* the HTTP status, 200 for a call that returns, or none
  runs,    \* agents.runs
  adrift,  \* requests that are over and whose UPDATE the database may still execute
  seen,    \* the status of the runs a request was shown
  before   \* history: what had been settled by an answer when the request was sent

vars == <<arg, pc, answer, runs, adrift, seen, before>>

Authenticated == [run : Run \cup {Null}, token : Run \cup {Null}, user : User]

Report == [status : Status \cup Document, last_seq : Int, usage : BOOLEAN]

ASSUME OwnerAssumption == Owner \in [Run -> User] /\ Null \notin Run

Arg ==
  [op : {"status", "manifest", "files"}, as : Authenticated]
    \cup [op : {"events"}, as : Authenticated, events : Nat]
    \cup [op : {"complete"}, as : Authenticated, report : Report]
    \cup [op : {"update"}, run : Run \cup {Null}, status : Status]
    \cup [op : {"list", "create", "none"}]

ASSUME InputAssumption == Input \subseteq Arg

\* Mutant: the dates of cancelled runs are forgotten.
EndsAt_NotCancelled(s) == s \in {"completed", "failed"}

\* completed_at is set.
EndsAt(s) == s \in Ended

\* last_seq is NULL or a number: a set of at most one.
Row ==
  {row \in [status : Status, ended : BOOLEAN, last_seq : SUBSET Int] :
     row.ended <=> row.status \in Ended}

Answer == {"none", "200", "201", "202", "403", "500"}

TypeOK ==
  /\ arg \in [Request -> Arg]
  /\ pc \in [Request -> {"idle", "auth", "statement", "reply", "done", "lost"}]
  /\ answer \in [Request -> Answer]
  /\ runs \in [Run -> Row]
  /\ adrift \subseteq Request
  /\ seen \in [Request -> SUBSET (Run \X Status)]
  /\ before \in [Request -> SUBSET Request]

Queued == [status |-> "queued", ended |-> FALSE, last_seq |-> {}]

Init ==
  /\ arg = [r \in Request |-> [op |-> "none"]]
  /\ pc = [r \in Request |-> "idle"]
  /\ answer = [r \in Request |-> "none"]
  /\ runs = [n \in Run |-> Queued]
  /\ adrift = {}
  /\ seen = [r \in Request |-> {}]
  /\ before = [r \in Request |-> {}]

-----------------------------------------------------------------------------
Goto(r, label) == pc' = [pc EXCEPT ![r] = label] /\ UNCHANGED answer

Finish(r, status) ==
  pc' = [pc EXCEPT ![r] = "done"] /\ answer' = [answer EXCEPT ![r] = status]

\* No route of agents catches anything: every exception but 403 is a 500.
Raise(r) == Finish(r, "500")

\* A 500 settles nothing: what was asked for may have been done, or be yet.
Settled == {q \in Request : pc[q] = "done" /\ answer[q] # "500"}

OverHttp == {"status", "manifest", "files", "events", "complete"}

Receive(r, a) ==
  /\ pc[r] = "idle"
  /\ Goto(r, IF a.op \in OverHttp THEN "auth" ELSE "statement")
  /\ arg' = [arg EXCEPT ![r] = a]
  /\ before' = [before EXCEPT ![r] = Settled]
  /\ UNCHANGED <<runs, adrift, seen>>

\* Mutant: a run another request has read is not read again.
StatusRead_Cached(n) ==
  IF \E q \in Request : \E s \in Status : <<n, s>> \in seen[q]
    THEN {s \in Status : \E q \in Request : <<n, s>> \in seen[q]}
    ELSE {runs[n].status}

\* What a SELECT shows as the status of a run.
StatusRead(n) == {runs[n].status}

\* Mutant: the token alone lets a request through.
MayUse_Token(a) == a.run \in Run /\ a.token = a.run

MayUse(a) == a.run \in Run /\ a.token = a.run /\ Owner[a.run] = a.user

\* get_authenticated_run: the run, its token, its user, in this order.
GetAuthenticatedRun(r) ==
  LET a == arg[r].as IN
  /\ pc[r] = "auth"
  /\ \/ /\ a.run \notin Run \/ a.token # a.run
        /\ Raise(r) /\ UNCHANGED seen
     \/ /\ a.run \in Run /\ a.token = a.run /\ ~MayUse(a)
        /\ Finish(r, "403") /\ UNCHANGED seen
     \/ /\ MayUse(a)
        /\ \E s \in StatusRead(a.run) : seen' = [seen EXCEPT ![r] = {<<a.run, s>>}]
        /\ Goto(r, IF arg[r].op = "status" THEN "reply" ELSE "statement")
  /\ UNCHANGED <<arg, runs, adrift, before>>

At(r, op) == pc[r] = "statement" /\ arg[r].op = op

\* The run an update is about, and the row it writes.
Target(r) == IF arg[r].op = "complete" THEN arg[r].as.run ELSE arg[r].run

Written(r) ==
  IF arg[r].op = "complete"
    THEN [status |-> arg[r].report.status, ended |-> EndsAt(arg[r].report.status),
          last_seq |-> {arg[r].report.last_seq}]
    ELSE [status |-> arg[r].status, ended |-> EndsAt(arg[r].status), last_seq |-> {}]

\* Usage is a dict for a JSONB column, and the status must be in the enum.
\* (A last_seq beyond the range of INT fails as StatementFails does.)
Storable(r) ==
  arg[r].op = "complete" => arg[r].report.status \in Status /\ ~arg[r].report.usage

\* Mutant: a run that has ended is left alone, and the request is answered as
\* if it had not been.
UpdateRunStatus_SkipsEnded(r) ==
  /\ At(r, "complete") \/ At(r, "update")
  /\ \/ /\ ~Storable(r) \/ Target(r) \notin Run
        /\ Raise(r) /\ UNCHANGED runs
     \/ /\ Storable(r) /\ Target(r) \in Run
        /\ runs' = [runs EXCEPT ![Target(r)] = IF @.ended THEN @ ELSE Written(r)]
        /\ Goto(r, "reply")
  /\ UNCHANGED <<arg, adrift, seen, before>>

UpdateRunStatus(r) ==
  /\ At(r, "complete") \/ At(r, "update")
  /\ \/ /\ ~Storable(r) \/ Target(r) \notin Run
        /\ Raise(r) /\ UNCHANGED runs
     \/ /\ Storable(r) /\ Target(r) \in Run
        /\ runs' = [runs EXCEPT ![Target(r)] = Written(r)]
        /\ Goto(r, "reply")
  /\ UNCHANGED <<arg, adrift, seen, before>>

\* execute_record_events: one INSERT per event, and the data of an event is a
\* dict, so that only an empty batch gets through.
RecordEvents(r) ==
  /\ At(r, "events")
  /\ IF arg[r].events > 0 THEN Raise(r) ELSE Goto(r, "reply")
  /\ UNCHANGED <<arg, runs, adrift, seen, before>>

\* execute_get_manifest_with_credentials reads the run again; its manifest is
\* JSONB read without a codec, a str, which has no copy().
GetManifest(r) == At(r, "manifest") /\ Raise(r) /\ UNCHANGED <<arg, runs, adrift, seen, before>>

\* execute_generate_signed_url_for_file: a client is made from the settings and
\* signs an URL in a thread.  Credentials that cannot sign, or none, raise; no
\* row says that the URL was given.
RequestFileUpload(r) ==
  /\ At(r, "files")
  /\ Goto(r, "reply") \/ Raise(r)
  /\ UNCHANGED <<arg, runs, adrift, seen, before>>

CreateRun(r) == At(r, "create") /\ Raise(r) /\ UNCHANGED <<arg, runs, adrift, seen, before>>

ListQueuedRuns(r) ==
  /\ At(r, "list")
  /\ seen' = [seen EXCEPT ![r] = {<<n, "queued">> : n \in {m \in Run : runs[m].status = "queued"}}]
  /\ Goto(r, "reply")
  /\ UNCHANGED <<arg, runs, adrift, before>>

Reply(r) ==
  /\ pc[r] = "reply"
  /\ Finish(r, CASE arg[r].op = "events" -> "202" [] arg[r].op = "files" -> "201" [] OTHER -> "200")
  /\ UNCHANGED <<arg, runs, adrift, seen, before>>

InFlight(r) == pc[r] \in {"auth", "statement", "reply"}

\* An UPDATE that is cut off, by a lost connection or the end of the worker, may
\* have reached the database, which executes it all the same.
CutOff(r) ==
  \/ UNCHANGED adrift
  \/ /\ (At(r, "complete") \/ At(r, "update")) /\ Storable(r) /\ Target(r) \in Run
     /\ adrift' = adrift \cup {r}

\* A statement raises; in state reply it had taken effect.
StatementFails(r) == InFlight(r) /\ Raise(r) /\ CutOff(r) /\ UNCHANGED <<arg, runs, seen, before>>

Interrupted(r) ==
  InFlight(r) /\ Goto(r, "lost") /\ CutOff(r) /\ UNCHANGED <<arg, runs, seen, before>>

\* The UPDATE of a request that is over takes effect.
Lands(r) ==
  /\ r \in adrift
  /\ runs' = [runs EXCEPT ![Target(r)] = Written(r)]
  /\ adrift' = adrift \ {r}
  /\ UNCHANGED <<arg, pc, answer, seen, before>>

Next ==
  \E r \in Request :
    \/ \E a \in Input : Receive(r, a)
    \/ GetAuthenticatedRun(r) \/ UpdateRunStatus(r) \/ RecordEvents(r) \/ GetManifest(r)
    \/ RequestFileUpload(r) \/ CreateRun(r) \/ ListQueuedRuns(r) \/ Reply(r)
    \/ StatementFails(r) \/ Interrupted(r) \/ Lands(r)

Spec == Init /\ [][Next]_vars

-----------------------------------------------------------------------------
\* Updates of run n that were answered with success.
Acknowledged(n) ==
  {r \in Request : arg[r].op \in {"complete", "update"} /\ Target(r) = n /\ answer[r] = "200"}

Updates(n) == {r \in Request : arg[r].op \in {"complete", "update"} /\ Target(r) = n}

\* Whatever races or is retried, a run is as one update left it, whole, and
\* that is an update no client knows to be overwritten: none that was settled
\* before another, which succeeded, was sent.  (One answered with 500 is not
\* settled: a completion may yet replace the acknowledged retry of it.)
RunIsOneUpdate ==
  \A n \in Run :
    \/ Acknowledged(n) = {} /\ runs[n] = Queued
    \/ \E u \in Updates(n) :
         runs[n] = Written(u) /\ \A w \in Acknowledged(n) : u \notin before[w]

\* No client is shown a status it knows to be overwritten: an agent that asks
\* after a cancellation was acknowledged is not told the status before it, and
\* a dispatcher that lists after a start was is not offered the run.
StatusIsFresh ==
  \A r \in Request, n \in Run, s \in Status : <<n, s>> \in seen[r] =>
    \/ s = "queued" /\ before[r] \cap Acknowledged(n) = {}
    \/ \E u \in Updates(n) :
         Written(u).status = s /\ \A w \in before[r] \cap Acknowledged(n) : u \notin before[w]

\* A run changes only for a caller of the service, or for a request that names
\* its token and comes from its user, checked in an earlier statement, however
\* late its UPDATE takes effect.
OnlyItsAgentWrites ==
  [][\A n \in Run : runs'[n] # runs[n] =>
       \E r \in Updates(n) :
         /\ pc[r] = "statement" \/ r \in adrift
         /\ arg[r].op = "complete" => arg[r].as.token = n /\ arg[r].as.user = Owner[n]]_vars
=============================================================================
