---------------------------- MODULE PooledProofs ----------------------------
(* Theorems about PooledWorkspaces, for every pool size and every instance. *)
EXTENDS PooledWorkspaces, WorkspacesProofs, FiniteSetTheorems

\* Past the first statement of its transaction a request holds a connection
\* and is not giving it back, and whoever holds one that it does not give back
\* is about to execute a statement.
PoolInv ==
  /\ ControlInv
  /\ conn \subseteq Request /\ returning \subseteq conn
  /\ \A r \in conn : pc[r] # "idle"
  /\ \A r \in Request : pc[r] \in HoldsWorkspace => r \in conn \ returning
  /\ \A r \in conn \ returning : AtStatement(r)

\* A connection that is given back carries no open transaction, so the reset
\* undoes nothing.
LEMMA ResetUndoesNothing ==
  ASSUME PoolInv, NEW r \in Request, GiveBack(r)
  PROVE  UNCHANGED vars
<1>1. pc[r] \notin HoldsWorkspace
  BY DEF GiveBack, PoolInv
<1>2. Staged(r) /\ tx[r] \in TxType /\ tx \in [Request -> TxType]
  BY DEF PoolInv, ControlInv, TypeOK
<1>3. /\ tx[r].workspaces = {} /\ tx[r].memberships = {} /\ tx[r].apps = {}
      /\ tx[r].files = {} /\ tx[r].stamps = {}
  BY <1>1, <1>2 DEF Staged, HoldsWorkspace, HoldsMembership, HoldsApps, HoldsRoot
<1>4. tx[r] = NoTx
  BY <1>2, <1>3 DEF TxType, NoTx
<1>5. tx' = tx
  BY <1>2, <1>4 DEF GiveBack
<1> QED
  BY <1>5 DEF GiveBack, vars

\* A step of the pooled worker is a step of Workspaces or leaves it alone.
LEMMA PooledIsPlain ==
  ASSUME PoolInv, [PooledNext]_pooledVars
  PROVE  [Next]_vars
<1>1. CASE UNCHANGED pooledVars
  BY <1>1 DEF pooledVars
<1>2. ASSUME NEW r \in Request, Acquire(r) PROVE [Next]_vars
  BY <1>2 DEF Acquire
<1>3. ASSUME NEW r \in Request, PooledStep(r) PROVE [Next]_vars
  BY <1>3 DEF PooledStep, Next
<1>4. ASSUME NEW r \in Request, GiveBack(r) PROVE [Next]_vars
  BY <1>4, ResetUndoesNothing
<1>5. ASSUME NEW r \in Request, PooledReceive(r) PROVE [Next]_vars
  BY <1>5 DEF PooledReceive, Next
<1>6. ASSUME NEW r \in Request, PooledFailure(r) PROVE [Next]_vars
  BY <1>6 DEF PooledFailure, Next
<1>7. CASE PooledInvite
  BY <1>7 DEF PooledInvite, Next
<1>8. CASE Boot \/ Terminate \/ Close
  BY <1>8 DEF Boot, Terminate, Close
<1> QED
  BY <1>1, <1>2, <1>3, <1>4, <1>5, <1>6, <1>7, <1>8 DEF PooledNext

\* A label inside the transaction is the label of a statement.
LEMMA TransactionIsStatements ==
  ASSUME NEW r \in Request, pc[r] \in InTransaction
  PROVE  AtStatement(r)
BY DEF InTransaction, AtStatement, InFlight, Finished

\* A step that stays in the transaction, with rows staged, was in it before.
LEMMA StaysInside ==
  ASSUME ControlInv, NEW r \in Request, Step(r), pc'[r] \in HoldsWorkspace
  PROVE  pc[r] \in InTransaction
<1> USE DEF HoldsWorkspace
<1>a. pc \in [Request -> PC] /\ input[r].kind \in {"plain", "onboarding"}
  BY InputTyped DEF ControlInv, TypeOK, Kind
<1>1. CASE CheckOwner(r)
  BY <1>a, <1>1 DEF CheckOwner, Raise, Goto
<1>2. CASE CheckName(r)
  BY <1>a, <1>2 DEF CheckName, Raise, Goto, AfterName
<1>3. CASE Provision(r)
  BY <1>a, <1>3 DEF Provision, Raise, Goto
<1>4. CASE InsertWorkspace(r)
  BY <1>a, <1>4 DEF InsertWorkspace, Raise, Goto
<1>5. CASE InsertMembership(r)
  BY <1>a, <1>5 DEF InsertMembership, Goto
<1>6. CASE Reply(r)
  BY <1>a, <1>6 DEF Reply, Raise
<1>7. CASE \/ TxInsertWorkspace(r) \/ TxInsertMembership(r) \/ TxInsertApps(r)
           \/ TxInsertRoot(r) \/ TxCompleteOnboarding(r) \/ Commit(r)
  BY <1>a, <1>7 DEF TxInsertWorkspace, TxInsertMembership, TxInsertApps, TxInsertRoot,
              TxCompleteOnboarding, Commit, InTransaction
<1> QED
  BY <1>1, <1>2, <1>3, <1>4, <1>5, <1>6, <1>7 DEF Step

\* What a move of r does to the pool, once Release has run.
LEMMA ReleaseKeepsPool ==
  ASSUME PoolInv, NEW r \in Request, Step(r) \/ StatementFails(r) \/ Interrupted(r),
         Release(r), pc'[r] # "idle",
         pc'[r] \in HoldsWorkspace => r \in conn \ returning /\ pc[r] \in InTransaction
  PROVE  /\ conn' \subseteq Request /\ returning' \subseteq conn'
         /\ \A q \in conn' : pc'[q] # "idle"
         /\ \A q \in Request : pc'[q] \in HoldsWorkspace => q \in conn' \ returning'
         /\ \A q \in conn' \ returning' : AtStatement(q)'
<1>1. \A q \in Request \ {r} : pc'[q] = pc[q]
  BY OneMoves DEF PoolInv, ControlInv
<1>2. /\ conn' = conn /\ conn \subseteq Request
      /\ returning \subseteq returning' /\ returning' \subseteq conn
      /\ \A q \in Request \ {r} : q \in returning' <=> q \in returning
  BY DEF Release, PoolInv
<1>3. \A q \in conn' : pc'[q] # "idle"
  BY <1>1, <1>2 DEF PoolInv
<1>4. ASSUME NEW q \in Request, pc'[q] \in HoldsWorkspace PROVE q \in conn' \ returning'
  <2>1. CASE q = r
    BY <1>2, <1>4, <2>1 DEF Release, StaysInBlock, HoldsWorkspace, InTransaction
  <2>2. CASE q # r
    BY <1>1, <1>2, <1>4, <2>2 DEF PoolInv
  <2> QED
    BY <2>1, <2>2
<1>5. ASSUME NEW q \in conn' \ returning' PROVE AtStatement(q)'
  <2>1. CASE q = r
    <3>1. pc'[r] \in InTransaction
      BY <1>2, <1>5, <2>1 DEF Release, StaysInBlock
    <3> QED
      BY <2>1, <3>1 DEF AtStatement, InFlight, Finished, InTransaction
  <2>2. CASE q # r
    BY <1>1, <1>2, <1>5, <2>2 DEF PoolInv, AtStatement, InFlight, Finished
  <2> QED
    BY <2>1, <2>2
<1> QED
  BY <1>2, <1>3, <1>4, <1>5

\* No step leads a request back to where it was not received yet.
LEMMA NeverIdleAgain ==
  ASSUME ControlInv, NEW r \in Request, Step(r)
  PROVE  pc'[r] # "idle"
<1> USE DEF Goto, Raise
<1>a. pc \in [Request -> PC] /\ input[r].kind \in {"plain", "onboarding"}
  BY InputTyped DEF ControlInv, TypeOK, Kind
<1>1. CASE CheckOwner(r) \/ Provision(r) \/ InsertWorkspace(r) \/ InsertMembership(r) \/ Reply(r)
  BY <1>a, <1>1 DEF CheckOwner, Provision, InsertWorkspace, InsertMembership, Reply
<1>2. CASE CheckName(r)
  BY <1>a, <1>2 DEF CheckName, AfterName
<1>3. CASE \/ TxInsertWorkspace(r) \/ TxInsertMembership(r) \/ TxInsertApps(r)
           \/ TxInsertRoot(r) \/ TxCompleteOnboarding(r) \/ Commit(r)
  BY <1>a, <1>3 DEF TxInsertWorkspace, TxInsertMembership, TxInsertApps, TxInsertRoot,
              TxCompleteOnboarding, Commit
<1> QED
  BY <1>1, <1>2, <1>3 DEF Step

LEMMA PoolStep ==
  ASSUME PoolInv, [PooledNext]_pooledVars
  PROVE  PoolInv'
<1>0. ControlInv'
  BY PooledIsPlain, ControlStep DEF PoolInv
<1>1. CASE UNCHANGED pooledVars
  BY <1>0, <1>1 DEF PoolInv, pooledVars, vars, AtStatement, InFlight, Finished
<1>2. ASSUME NEW r \in Request, Acquire(r) PROVE PoolInv'
  BY <1>0, <1>2 DEF PoolInv, Acquire, vars, AtStatement, InFlight, Finished
<1>3. ASSUME NEW r \in Request, PooledStep(r) PROVE PoolInv'
  <2>1. pc'[r] \in HoldsWorkspace => r \in conn \ returning /\ pc[r] \in InTransaction
    BY <1>3, StaysInside, TransactionIsStatements DEF PooledStep, PoolInv
  <2>2. pc'[r] # "idle"
    BY <1>3, NeverIdleAgain DEF PooledStep, PoolInv
  <2> QED
    BY <1>0, <1>3, <2>1, <2>2, ReleaseKeepsPool DEF PooledStep, PoolInv
<1>4. ASSUME NEW r \in Request, GiveBack(r) PROVE PoolInv'
  BY <1>0, <1>4 DEF GiveBack, PoolInv, AtStatement, InFlight, Finished
<1>5. ASSUME NEW r \in Request, PooledReceive(r) PROVE PoolInv'
  <2>1. \A q \in Request \ {r} : pc'[q] = pc[q]
    BY <1>5, OneMoves DEF PooledReceive, PoolInv, ControlInv
  <2>2. r \notin conn
    BY <1>5 DEF PooledReceive, Receive, PoolInv
  <2>3. pc'[r] \in {"preOwner", "owner"}
    BY <1>5 DEF PooledReceive, Receive, Goto, PoolInv, ControlInv, TypeOK
  <2> QED
    BY <1>0, <1>5, <2>1, <2>2, <2>3
    DEF PooledReceive, PoolInv, HoldsWorkspace, AtStatement, InFlight, Finished
<1>6. ASSUME NEW r \in Request, PooledFailure(r) PROVE PoolInv'
  <2>1. pc'[r] \in {"done", "lost"}
    BY <1>6 DEF PooledFailure, StatementFails, Interrupted, Raise, PoolInv, ControlInv, TypeOK
  <2> QED
    BY <1>0, <1>6, <2>1, ReleaseKeepsPool DEF PooledFailure, PoolInv, HoldsWorkspace
<1>7. CASE PooledInvite
  BY <1>0, <1>7 DEF PooledInvite, Invite, PoolInv, AtStatement, InFlight, Finished
<1>8. CASE Boot \/ Terminate \/ Close
  BY <1>0, <1>8 DEF Boot, Terminate, Close, vars, PoolInv, AtStatement, InFlight, Finished
<1> QED
  BY <1>1, <1>2, <1>3, <1>4, <1>5, <1>6, <1>7, <1>8 DEF PooledNext

LEMMA PoolInvariant == PooledSpec => []PoolInv
<1>1. PooledInit => PoolInv
  <2>1. Init => ControlInv
    BY DEF Init, ControlInv, LabelOfKind, Staged, TypeOK, PC, Answer, NoTx, TxType,
           InTransaction, HoldsWorkspace, HoldsMembership, HoldsApps, HoldsRoot
  <2> QED
    BY <2>1 DEF PooledInit, Init, PoolInv, HoldsWorkspace
<1>2. PoolInv /\ [PooledNext]_pooledVars => PoolInv'
  BY PoolStep
<1> QED
  BY <1>1, <1>2, PTL DEF PooledSpec

\* Resetting connections undoes nothing, for no connection leaves a transaction
\* that is still open: whatever a pooled worker does, Workspaces does, and every
\* invariant proved of Workspaces holds of it (PgClient.transaction, database.py).
THEOREM PooledImplements == PooledSpec => ImplementsWorkspaces
<1>1. PooledInit => Init
  BY DEF PooledInit
<1>2. PoolInv /\ [PooledNext]_pooledVars => [Next]_vars
  BY PooledIsPlain
<1> QED
  BY <1>1, <1>2, PoolInvariant, PTL DEF PooledSpec, ImplementsWorkspaces, Spec

\* Behind a pool of any size the two endpoints still keep the promise a reader
\* of the database may rely on (WorkspacePromise).
COROLLARY PooledKeepsPromise == PooledSpec => ImplementsPromise
BY PooledImplements, EndpointsKeepPromise, PTL DEF ImplementsWorkspaces

\* A request that holds locks through staged rows holds its connection too:
\* it never waits for the pool while others wait for it (PgClient.transaction).
LEMMA LocksHaveConnections ==
  ASSUME PoolInv, NEW r \in Request, tx[r].workspaces # {} \/ tx[r].stamps # {}
  PROVE  pc[r] \in HoldsWorkspace /\ r \in conn \ returning
BY DEF PoolInv, ControlInv, Staged, HoldsWorkspace

\* No connection is kept across an upload or after the answer.
THEOREM ConnectionsServeStatements == PooledSpec => []ConnectionsAreForStatements
<1>1. PoolInv => ConnectionsAreForStatements
  BY DEF PoolInv, ConnectionsAreForStatements
<1> QED
  BY <1>1, PoolInvariant, PTL

-----------------------------------------------------------------------------
(* Waits for locks and waits for connections.                               *)

\* The UPDATE of a profile waits for a COMMIT, which waits for nothing.
LEMMA ProfileWaitEnds ==
  ASSUME PoolInv, NEW r \in Request, ProfileLocked(r)
  PROVE  \E q \in conn \ returning : ~WaitsForLock(q)
<1>1. PICK q \in Request \ {r} : input[r].user \in tx[q].stamps
  BY DEF ProfileLocked
<1>2. q \in conn \ returning
  BY <1>1, LocksHaveConnections
<1>3. pc[q] = "commit"
  BY <1>1 DEF PoolInv, ControlInv, Staged
<1>4. ~WaitsForLock(q)
  BY <1>3 DEF WaitsForLock
<1> QED
  BY <1>2, <1>4

\* A chain of waits among the holders of connections has at most two links: an
\* INSERT waits for a transaction past its own INSERT, which can only wait for
\* a COMMIT.
LEMMA SomeHolderRuns ==
  ASSUME PoolInv, conn \ returning # {}
  PROVE  \E q \in conn \ returning : ~WaitsForLock(q)
<1>1. PICK c \in conn \ returning : c \in Request
  BY DEF PoolInv
<1>2. CASE ~WaitsForLock(c)
  BY <1>2
<1>3. ASSUME NEW r \in Request, pc[r] = "txOnboarding", WaitsForLock(r)
      PROVE  \E q \in conn \ returning : ~WaitsForLock(q)
  BY <1>3, ProfileWaitEnds DEF WaitsForLock
<1>4. CASE pc[c] \in {"insertWorkspace", "txWorkspace"} /\ SlugLocked(c)
  <2>1. PICK q \in Request : tx[q].workspaces # {}
    BY <1>4 DEF SlugLocked
  <2>2. pc[q] \in HoldsWorkspace /\ q \in conn \ returning
    BY <2>1, LocksHaveConnections
  <2>3. CASE WaitsForLock(q)
    <3>1. pc[q] = "txOnboarding"
      BY <2>2, <2>3 DEF WaitsForLock, HoldsWorkspace
    <3> QED
      BY <1>3, <2>3, <3>1
  <2> QED
    BY <2>2, <2>3
<1>5. CASE pc[c] = "txOnboarding" /\ WaitsForLock(c)
  BY <1>1, <1>3, <1>5
<1> QED
  BY <1>2, <1>4, <1>5 DEF WaitsForLock

\* As long as a request is in progress there is one that no other keeps from
\* its next step, whatever the size of the pool; and a shutdown that has no
\* request left to wait for waits for connections on their way back only
\* (pg_client.py, database.py, the locks of the INSERTs and of the UPDATE).
THEOREM PoolNeverLocksUp == PooledSpec => []NobodyLocksUp
<1>1. ASSUME PoolInv, NEW r \in Request, InFlight(r) PROVE \E q \in Request : CanGoOn(q)
  <2>1. CASE ~AtStatement(r)
    BY <1>1, <2>1 DEF CanGoOn
  <2>2. CASE AtStatement(r) /\ conn = {}
    <3>1. Cardinality(conn) < PoolSize
      BY <2>2, FS_EmptySet, PoolAssumption
    <3> QED
      BY <1>1, <2>2, <3>1 DEF CanGoOn
  <2>3. CASE returning # {}
    BY <1>1, <2>3 DEF PoolInv, CanGoOn
  <2>4. CASE conn \ returning # {}
    <3>1. PICK q \in conn \ returning : ~WaitsForLock(q)
      BY <1>1, <2>4, SomeHolderRuns
    <3>2. q \in Request /\ InFlight(q)
      BY <1>1 DEF PoolInv, AtStatement
    <3> QED
      BY <3>1, <3>2 DEF CanGoOn
  <2> QED
    BY <2>1, <2>2, <2>3, <2>4
<1>2. PoolInv /\ (\A r \in Request : ~InFlight(r)) => conn = returning
  BY DEF PoolInv, AtStatement
<1>3. PoolInv => NobodyLocksUp
  BY <1>1, <1>2 DEF NobodyLocksUp
<1> QED
  BY <1>3, PoolInvariant, PTL

\* A worker that does not serve yet, or no longer, has nobody to answer and no
\* connection out.
Quiet ==
  worker \in {"booting", "stopped"} => conn = {} /\ \A r \in Request : ~InFlight(r)

\* Only a request in progress can move, unless the worker serves.
LEMMA QuietStep ==
  ASSUME PoolInv, Quiet, [PooledNext]_pooledVars
  PROVE  Quiet'
<1>1. CASE UNCHANGED pooledVars
  BY <1>1 DEF Quiet, pooledVars, vars, InFlight, Finished
<1>2. ASSUME NEW r \in Request, Acquire(r) \/ PooledStep(r) \/ PooledFailure(r) PROVE Quiet'
  <2>1. InFlight(r)
    BY <1>2 DEF Acquire, AtStatement, PooledStep, PooledFailure, StatementFails, Interrupted,
                Step, CheckOwner, CheckName, Provision, InsertWorkspace, InsertMembership,
                TxInsertWorkspace, TxInsertMembership, TxInsertApps, TxInsertRoot,
                TxCompleteOnboarding, Commit, Reply, InFlight, Finished
  <2>2. UNCHANGED worker
    BY <1>2 DEF Acquire, PooledStep, PooledFailure
  <2> QED
    BY <2>1, <2>2 DEF Quiet
<1>3. CASE \E r \in Request : PooledReceive(r) \/ GiveBack(r)
  BY <1>3 DEF PooledReceive, GiveBack, PoolInv, Quiet
<1>4. CASE PooledInvite \/ Terminate
  BY <1>4 DEF PooledInvite, Invite, Terminate, Quiet, vars, InFlight, Finished
<1>5. CASE Boot \/ Close
  BY <1>5 DEF Boot, Close, Quiet, vars, InFlight, Finished
<1> QED
  BY <1>1, <1>2, <1>3, <1>4, <1>5 DEF PooledNext

\* An orderly shutdown drops nobody: a worker that has stopped left no request
\* unanswered and no connection open (app_lifespan, after yield).
THEOREM StoppedLeavesNothing ==
  PooledSpec => [](worker = "stopped" => conn = {} /\ \A r \in Request : ~InFlight(r))
<1>1. PooledInit => Quiet
  BY DEF PooledInit, Init, Quiet, InFlight
<1>2. PoolInv /\ Quiet /\ [PooledNext]_pooledVars => Quiet'
  BY QuietStep
<1>3. Quiet => (worker = "stopped" => conn = {} /\ \A r \in Request : ~InFlight(r))
  BY DEF Quiet
<1> QED
  BY <1>1, <1>2, <1>3, PoolInvariant, PTL DEF PooledSpec

-----------------------------------------------------------------------------
(* Requests run out of steps.                                               *)

\* Where a label stands on the longest way to an answer.
Rank(label) ==
  CASE label \in {"done", "lost"}                      -> 0
    [] label = "reply"                                 -> 1
    [] label \in {"commit", "insertMembership"}        -> 2
    [] label \in {"txOnboarding", "insertWorkspace"}   -> 3
    [] label = "txRoot"                                -> 4
    [] label = "txApps"                                -> 5
    [] label = "txMembership"                          -> 6
    [] label = "txWorkspace"                           -> 7
    [] label = "name"                                  -> 8
    [] label = "owner"                                 -> 9
    [] label = "provision"                             -> 10
    [] label = "preName"                               -> 11
    [] label = "preOwner"                              -> 12
    [] label = "idle"                                  -> 13

\* How many steps a request has left, at most: one per label, one for the
\* connection each may need and one for giving it back.
Left(r) == 3 * Rank(pc[r]) + (IF r \in returning THEN 1 ELSE IF r \in conn THEN -1 ELSE 0)

\* A move of a request, and a connection it takes, releases or has given back.
Moved(r) ==
  \/ pc'[r] # pc[r]
  \/ (r \in conn') # (r \in conn)
  \/ (r \in returning') # (r \in returning)

\* Every label is left for one nearer to the answer.
LEMMA StepsGoDown ==
  ASSUME ControlInv, NEW r \in Request, MayMove(r)
  PROVE  Rank(pc'[r]) < Rank(pc[r])
<1> USE DEF Rank
<1>a. pc \in [Request -> PC] /\ input[r].kind \in {"plain", "onboarding"}
  BY InputTyped DEF ControlInv, TypeOK, Kind
<1>1. CASE Receive(r)
  BY <1>a, <1>1 DEF Receive, Goto
<1>2. CASE CheckOwner(r)
  BY <1>a, <1>2 DEF CheckOwner, Raise, Goto
<1>3. CASE CheckName(r)
  BY <1>a, <1>3 DEF CheckName, Raise, Goto, AfterName
<1>4. CASE Provision(r)
  BY <1>a, <1>4 DEF Provision, Raise, Goto
<1>5. CASE InsertWorkspace(r)
  BY <1>a, <1>5 DEF InsertWorkspace, Raise, Goto
<1>6. CASE InsertMembership(r) \/ Reply(r)
  BY <1>a, <1>6 DEF InsertMembership, Goto, Reply, Raise
<1>7. CASE TxInsertWorkspace(r) \/ TxInsertMembership(r)
  BY <1>a, <1>7 DEF TxInsertWorkspace, TxInsertMembership, Raise, Goto
<1>8. CASE TxInsertApps(r) \/ TxInsertRoot(r)
  BY <1>a, <1>8 DEF TxInsertApps, TxInsertRoot, Raise, Goto
<1>9. CASE TxCompleteOnboarding(r) \/ Commit(r)
  BY <1>a, <1>9 DEF TxCompleteOnboarding, Commit, Goto
<1>10. CASE StatementFails(r) \/ Interrupted(r)
  BY <1>a, <1>10 DEF StatementFails, Interrupted, Raise, InFlight, Finished, PC
<1> QED
  BY <1>1, <1>2, <1>3, <1>4, <1>5, <1>6, <1>7, <1>8, <1>9, <1>10 DEF MayMove, Step

\* Labels have ranks.
LEMMA RankTyped ==
  ASSUME NEW label \in PC
  PROVE  /\ Rank(label) \in Nat /\ Rank(label) <= 13
         /\ label \notin {"done", "lost"} => Rank(label) >= 1
<1>1. Rank(label) \in Nat
  BY DEF Rank, PC
<1>2. Rank(label) <= 13
  BY DEF Rank, PC
<1>3. label \notin {"done", "lost"} => Rank(label) >= 1
  BY DEF Rank, PC
<1> QED
  BY <1>1, <1>2, <1>3

\* A move counts down, whatever becomes of the connection with it.
LEMMA MoveCountsDown ==
  ASSUME PoolInv, NEW r \in Request, MayMove(r), ControlInv', conn' = conn,
         \A q \in Request \ {r} : q \in returning' <=> q \in returning
  PROVE  \A q \in Request : Moved(q) => Left(q)' < Left(q)
<1>1. Rank(pc'[r]) < Rank(pc[r])
  BY StepsGoDown DEF PoolInv
<1>2. Rank(pc'[r]) \in Nat /\ Rank(pc[r]) \in Nat
  BY RankTyped DEF PoolInv, ControlInv, TypeOK
<1>3. Left(r)' < Left(r)
  BY <1>1, <1>2 DEF Left
<1>4. \A q \in Request \ {r} : pc'[q] = pc[q]
  BY OneMoves DEF PoolInv, ControlInv, MayMove
<1>5. \A q \in Request \ {r} : ~Moved(q)
  BY <1>4 DEF Moved
<1> QED
  BY <1>3, <1>5

\* A request takes at most thirty-nine steps: every change of its label or of
\* the connection it holds leaves it fewer.  Nothing goes round in circles, in
\* particular no request takes and returns connections for ever; with
\* PoolNeverLocksUp, what answers every request is that steps are taken.
THEOREM RequestsRunOut ==
  PooledSpec => /\ [](\A r \in Request : Left(r) \in 0 .. 39)
                /\ [][\A r \in Request : Moved(r) => Left(r)' < Left(r)]_pooledVars
<1>1. ASSUME PoolInv, PooledNext PROVE \A r \in Request : Moved(r) => Left(r)' < Left(r)
  <2>0. ControlInv'
    BY <1>1, PooledIsPlain, ControlStep DEF PoolInv
  <2>1. ASSUME NEW r \in Request, Acquire(r) \/ GiveBack(r)
        PROVE  \A q \in Request : Moved(q) => Left(q)' < Left(q)
    <3>1. Rank(pc[r]) \in Nat /\ pc' = pc
      BY <1>1, <2>1, RankTyped DEF PoolInv, ControlInv, TypeOK, Acquire, GiveBack, vars
    <3>2. Left(r)' < Left(r)
      BY <1>1, <2>1, <3>1 DEF Left, Acquire, GiveBack, PoolInv
    <3>3. \A q \in Request \ {r} : ~Moved(q)
      BY <2>1, <3>1 DEF Moved, Acquire, GiveBack
    <3> QED
      BY <3>2, <3>3
  <2>2. ASSUME NEW r \in Request, PooledStep(r) \/ PooledFailure(r) \/ PooledReceive(r)
        PROVE  \A q \in Request : Moved(q) => Left(q)' < Left(q)
    <3>1. MayMove(r)
      BY <2>2 DEF PooledStep, PooledFailure, PooledReceive, MayMove
    <3>2. conn' = conn /\ \A q \in Request \ {r} : q \in returning' <=> q \in returning
      BY <2>2 DEF PooledStep, PooledFailure, PooledReceive, Release
    <3> QED
      BY <1>1, <2>0, <3>1, <3>2, MoveCountsDown
  <2>3. CASE PooledInvite \/ Boot \/ Terminate \/ Close
    BY <2>3 DEF PooledInvite, Invite, Boot, Terminate, Close, vars, Moved
  <2> QED
    BY <1>1, <2>1, <2>2, <2>3 DEF PooledNext
<1>2. PoolInv /\ [PooledNext]_pooledVars
        => [\A r \in Request : Moved(r) => Left(r)' < Left(r)]_pooledVars
  BY <1>1
<1>3. PoolInv => \A r \in Request : Left(r) \in 0 .. 39
  <2>1. ASSUME PoolInv, NEW r \in Request PROVE Left(r) \in 0 .. 39
    <3>1. pc[r] \in PC
      BY <2>1 DEF PoolInv, ControlInv, TypeOK
    <3>2. r \in conn \ returning => pc[r] \notin {"done", "lost"}
      BY <2>1 DEF PoolInv, AtStatement, InFlight, Finished
    <3>3. /\ Rank(pc[r]) \in 0 .. 13
          /\ r \in conn \ returning => Rank(pc[r]) >= 1
      BY <3>1, <3>2, RankTyped
    <3>4. r \in returning => Rank(pc[r]) <= 12
      BY <2>1, <3>1 DEF PoolInv, Rank, PC
    <3> QED
      BY <3>3, <3>4 DEF Left
  <2> QED
    BY <2>1
<1> QED
  BY <1>2, <1>3, PoolInvariant, PTL DEF PooledSpec

-----------------------------------------------------------------------------
(* The size of the pool.                                                    *)

\* The pool hands out connections one at a time, and only those it has.
SizeInv == PooledTypeOK /\ IsFiniteSet(conn)

\* Every step keeps the pool within its size.
LEMMA SizeStep ==
  ASSUME PoolInv, SizeInv, [PooledNext]_pooledVars, PoolInv'
  PROVE  SizeInv'
<1> USE PoolAssumption DEF PooledTypeOK
<1>0. TypeOK' /\ returning' \subseteq conn' /\ conn' \subseteq Request
  BY DEF PoolInv, ControlInv
<1>1. CASE UNCHANGED pooledVars
  BY <1>0, <1>1 DEF SizeInv, pooledVars
<1>2. ASSUME NEW r \in Request, Acquire(r) PROVE SizeInv'
  <2>1. Cardinality(conn') = Cardinality(conn) + 1 /\ IsFiniteSet(conn')
    BY <1>2, FS_AddElement DEF SizeInv, Acquire
  <2>2. Cardinality(conn) \in Nat
    BY FS_CardinalityType DEF SizeInv
  <2>3. Cardinality(conn') <= PoolSize
    BY <1>2, <2>1, <2>2 DEF Acquire
  <2> QED BY <1>0, <1>2, <2>1, <2>3 DEF SizeInv, Acquire
<1>3. ASSUME NEW r \in Request, GiveBack(r) PROVE SizeInv'
  <2>1. conn' \subseteq conn
    BY <1>3 DEF GiveBack
  <2>2. IsFiniteSet(conn') /\ Cardinality(conn') <= Cardinality(conn)
    BY <2>1, FS_Subset DEF SizeInv
  <2>3. Cardinality(conn) \in Nat /\ Cardinality(conn') \in Nat
    BY <2>2, FS_CardinalityType DEF SizeInv
  <2>4. Cardinality(conn') <= PoolSize
    BY <2>2, <2>3 DEF SizeInv
  <2> QED BY <1>0, <1>3, <2>1, <2>2, <2>4 DEF SizeInv, GiveBack
<1>4. ASSUME UNCHANGED conn, worker' \in {"booting", "serving", "stopping", "stopped"}
      PROVE  SizeInv'
  BY <1>0, <1>4 DEF SizeInv
<1>5. CASE \E r \in Request : PooledStep(r) \/ PooledFailure(r)
  BY <1>4, <1>5 DEF SizeInv, PooledStep, PooledFailure, Release
<1>6. CASE (\E r \in Request : PooledReceive(r)) \/ PooledInvite \/ Boot \/ Terminate \/ Close
  BY <1>4, <1>6 DEF SizeInv, PooledReceive, PooledInvite, Boot, Terminate, Close
<1> QED BY <1>1, <1>2, <1>3, <1>5, <1>6 DEF PooledNext

\* The pool never has more connections out than max_size (database.py).
THEOREM PooledTypeCorrect == PooledSpec => []PooledTypeOK
<1>1. PooledInit => SizeInv
  <2>1. Init => TypeOK
    BY DEF Init, TypeOK, PC, Answer, NoTx, TxType
  <2>2. IsFiniteSet({}) /\ Cardinality({}) = 0
    BY FS_EmptySet
  <2> QED BY <2>1, <2>2, PoolAssumption DEF PooledInit, SizeInv, PooledTypeOK
<1>2. SizeInv => PooledTypeOK
  BY DEF SizeInv
<1> QED BY <1>1, <1>2, PoolInvariant, SizeStep, PTL DEF PooledSpec
=============================================================================
