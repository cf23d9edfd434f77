-------------------------- MODULE PooledWorkspaces --------------------------
(***************************************************************************)
(* The requests of Workspaces served by one worker, whose statements share  *)
(* its asyncpg pool.  A statement outside a transaction takes a connection  *)
(* for itself; a transaction takes one for all its statements.  A statement *)
(* that waits for a lock keeps its connection while it waits, so waits for  *)
(* locks and waits for connections can meet.  Giving a connection back is   *)
(* an await of its own, in which the pool resets it: whatever transaction   *)
(* is open on it is rolled back.                                            *)
(*                                                                         *)
(* The worker boots, serves and, asked to stop, takes no new request, lets  *)
(* those it has finish and closes the pool, which waits for its connections. *)
(***************************************************************************)
EXTENDS Workspaces, FiniteSets

CONSTANT PoolSize  \* max_size of the pool, 20 in the code

ASSUME PoolAssumption == PoolSize \in Nat \ {0}

VARIABLES
  conn,            \* the requests that hold a connection of the pool
  returning,       \* those of them that are giving it back
  worker           \* booting, serving, stopping or stopped

pooledVars == <<vars, conn, returning, worker>>

\* States whose next await is a statement.
AtStatement(r) ==
  InFlight(r) /\ pc[r] \notin {"provision", "reply"}

PooledTypeOK ==
  /\ TypeOK
  /\ conn \subseteq Request /\ Cardinality(conn) <= PoolSize
  /\ returning \subseteq conn
  /\ worker \in {"booting", "serving", "stopping", "stopped"}

PooledInit == Init /\ conn = {} /\ returning = {} /\ worker = "booting"

-----------------------------------------------------------------------------
(* The worker: app_lifespan, and the server that runs it.                   *)

\* The pool and the clients are built before the first request; one that
\* cannot be built ends the process.
Boot ==
  /\ worker = "booting" /\ worker' \in {"serving", "stopped"}
  /\ UNCHANGED <<vars, conn, returning>>

\* External: the platform asks the process to stop.
Terminate ==
  /\ worker = "serving" /\ worker' = "stopping"
  /\ UNCHANGED <<vars, conn, returning>>

\* External: the server lets the requests in progress finish.  Then pool.close()
\* waits until every connection has come back.
Close ==
  /\ worker = "stopping" /\ \A r \in Request : ~InFlight(r)
  /\ conn = {}
  /\ worker' = "stopped"
  /\ UNCHANGED <<vars, conn, returning>>

-----------------------------------------------------------------------------
(* Requests on the pool.                                                    *)

\* Mutant: connections beyond max_size are opened when the pool is empty.
Acquire_Overflow(r) ==
  /\ AtStatement(r) /\ r \notin conn
  /\ conn' = conn \cup {r}
  /\ UNCHANGED <<vars, returning, worker>>

\* pool.acquire() returns.
Acquire(r) ==
  /\ AtStatement(r) /\ r \notin conn
  /\ Cardinality(conn) < PoolSize
  /\ conn' = conn \cup {r}
  /\ UNCHANGED <<vars, returning, worker>>

\* r stays inside the block of its transaction.
StaysInBlock(r) == pc[r] \in InTransaction /\ pc'[r] \in InTransaction

\* Mutant: a connection is given back only where the statement succeeds.
Release_OnlyOnSuccess(r) ==
  /\ returning' = IF StaysInBlock(r) \/ (pc'[r] = "done" /\ answer'[r] # "201")
                    THEN returning ELSE returning \cup ({r} \cap conn)
  /\ UNCHANGED conn

\* Mutant: a cancelled request keeps its connection.
Release_NotWhenLost(r) ==
  /\ returning' = IF StaysInBlock(r) \/ pc'[r] = "lost"
                    THEN returning ELSE returning \cup ({r} \cap conn)
  /\ UNCHANGED conn

\* Mutant: a connection per request, until its answer.
Release_WholeRequest(r) ==
  /\ returning' = IF pc'[r] \in {"done", "lost"} THEN returning \cup ({r} \cap conn) ELSE returning
  /\ UNCHANGED conn

\* Mutant: each statement of the transaction takes a connection for itself.
Release_EachStatement(r) == returning' = returning \cup ({r} \cap conn) /\ UNCHANGED conn

\* async with pool.acquire(): the block of the statement or the transaction is
\* left, however it ends, and release() is called.
Release(r) ==
  /\ returning' = IF StaysInBlock(r) THEN returning ELSE returning \cup ({r} \cap conn)
  /\ UNCHANGED conn

\* The release is over.  The pool has reset the connection, which ends any
\* transaction that was open on it.
GiveBack(r) ==
  /\ r \in returning
  /\ tx' = [tx EXCEPT ![r] = NoTx]
  /\ conn' = conn \ {r} /\ returning' = returning \ {r}
  /\ UNCHANGED <<input, pc, answer, db, folders, late, worker>>

\* The coroutine goes on once a connection it gives back is gone, and once it
\* has one for a statement.
PooledStep(r) ==
  /\ r \notin returning
  /\ AtStatement(r) => r \in conn
  /\ Step(r)
  /\ Release(r)
  /\ UNCHANGED worker

PooledReceive(r) ==
  worker = "serving" /\ Receive(r) /\ UNCHANGED <<conn, returning, worker>>

\* Acquiring, executing and releasing may all raise, and a request may be
\* cancelled in any of them.
PooledFailure(r) ==
  /\ StatementFails(r) \/ Interrupted(r)
  /\ Release(r)
  /\ UNCHANGED worker

\* External: invitations come through other workers.
PooledInvite ==
  (\E w \in workspaces, u \in User : Invite(w, u)) /\ UNCHANGED <<conn, returning, worker>>

PooledNext ==
  \/ \E r \in Request :
       Acquire(r) \/ PooledStep(r) \/ GiveBack(r) \/ PooledReceive(r) \/ PooledFailure(r)
  \/ PooledInvite
  \/ Boot \/ Terminate \/ Close

PooledSpec == PooledInit /\ [][PooledNext]_pooledVars

\* The event loop runs every ready coroutine and every statement and release returns.  The
\* pool serves its waiters in order and a request waits a bounded number of
\* times, so weak fairness of each wait is enough.  A shutdown goes on once it
\* can.  Clients, failures, crashes and invitations owe nothing.
PooledFairness ==
  /\ \A r \in Request :
       WF_pooledVars(Acquire(r)) /\ WF_pooledVars(PooledStep(r)) /\ WF_pooledVars(GiveBack(r))
  /\ WF_pooledVars(Close)

PooledFairSpec == PooledSpec /\ PooledFairness

-----------------------------------------------------------------------------
\* The statement r executes next waits for the transaction of another request.
WaitsForLock(r) ==
  \/ pc[r] \in {"insertWorkspace", "txWorkspace"} /\ SlugLocked(r)
  \/ pc[r] = "txOnboarding" /\ onboarded[input[r].user] = Never /\ ProfileLocked(r)

\* Nothing another request must do first keeps r from its next step: the
\* release, the upload or the answer, a statement, a connection that is free.
CanGoOn(r) ==
  \/ r \in returning
  \/ /\ InFlight(r)
     /\ \/ ~AtStatement(r)
        \/ r \in conn /\ ~WaitsForLock(r)
        \/ r \notin conn /\ Cardinality(conn) < PoolSize

\* Waits for locks and waits for the pool never close a circle, not even when
\* every connection is held by a request that waits for a lock: of the requests
\* in progress one can go on, and once there are none a shutdown waits only for
\* connections that are on their way back.
NobodyLocksUp ==
  /\ (\E r \in Request : InFlight(r)) => \E r \in Request : CanGoOn(r)
  /\ worker = "stopping" /\ (\A r \in Request : ~InFlight(r)) => conn = returning

\* Connections are held for statements only: whoever holds one executes a
\* statement next or gives it back, and is not uploading, answering or gone.
ConnectionsAreForStatements == \A r \in conn \ returning : AtStatement(r)

\* A worker that is asked to stop does: neither a request nor a connection is
\* left that pool.close() waits for.
StopsGracefully == worker = "stopping" ~> worker = "stopped"

\* The pool is not seen: the connection of a transaction stays with it until it
\* has committed or rolled back, so that resetting a connection undoes nothing
\* and a pooled worker does only what Workspaces does.
ImplementsWorkspaces == Spec
=============================================================================
