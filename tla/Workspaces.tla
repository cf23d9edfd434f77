----------------------------- MODULE Workspaces -----------------------------
(***************************************************************************)
(* The two workspace creation endpoints, POST /v1/organizations (plain)     *)
(* and POST /v1/organizations/onboarding, as concurrent requests over one   *)
(* PostgreSQL database and one Cloud Storage bucket.                        *)
(*                                                                         *)
(* A request is a coroutine: every await (one SQL statement, one upload) is *)
(* a step of its own, and the steps of different requests interleave.       *)
(* Statements outside a transaction commit at once; those of the onboarding *)
(* transaction are staged in tx[r] and become visible at COMMIT.  The       *)
(* database runs at READ COMMITTED, its default.                            *)
(*                                                                         *)
(* Abstractions.  The uuid a request mints is the request itself: uuid4()   *)
(* and gen_random_uuid() are assumed fresh.  A name stands for its lower()  *)
(* form, base for the outcome of `slug or slugify(name)`.                   *)
(***************************************************************************)
EXTENDS Integers, Sequences, Functions

CONSTANTS
  Request,    \* requests ever sent: the bound on the length of a history
  User,       \* authenticated user ids
  Profile,    \* users with a row in identity.users (the target of the FKs)
  Prefix,     \* Prefix[u]: the first eight hex digits of u's uuid
  Base,       \* slugs before the user's prefix is appended
  Name,       \* workspace names, up to lower()
  App,        \* app ids a client may send
  Catalog,    \* app ids present in catalog.apps
  Input       \* the request bodies clients send

Kind == {"plain", "onboarding"}

InputType == [kind : Kind, user : User, base : Base, name : Name, app_ids : Seq(App)]

\* onboarding_completed_at of a user is the request that set it, or Never.
Never == "never"

ASSUME ProfileAssumption == Profile \subseteq User
ASSUME CatalogAssumption == Catalog \subseteq App
ASSUME PrefixAssumption  == DOMAIN Prefix = User
ASSUME NeverAssumption   == Never \notin Request
ASSUME InputAssumption   == Input \subseteq InputType

VARIABLES
  input,           \* the body of each request, fixed before it is sent
  pc,              \* the statement each request executes next
  answer,          \* the HTTP status sent, or "none"
  tx,              \* rows staged by the request's open transaction
  workspaces,      \* organizations.workspaces
  memberships,     \* organizations.memberships
  workspace_apps,  \* organizations.workspace_apps
  files,           \* assets.files (the root folder rows)
  onboarded,       \* identity.users.onboarding_completed_at
  folders,         \* folder objects in the bucket
  late             \* history: did the user own a workspace already when r arrived
                   \* ("arrival"), or when its upload was over ("upload")?

db   == <<workspaces, memberships, workspace_apps, files, onboarded>>
vars == <<input, pc, answer, tx, db, folders, late>>

-----------------------------------------------------------------------------
(* Rows and paths.                                                          *)

Slug == Base \X Range(Prefix)

WorkspaceSlug(r) == <<input[r].base, Prefix[input[r].user]>>

WorkspaceRow(r)  == [id |-> r, slug |-> WorkspaceSlug(r), name |-> input[r].name]
MembershipRow(r) == [workspace |-> r, user |-> input[r].user, role |-> "owner"]
AppRows(r)       == {[workspace |-> r, app |-> a] : a \in Range(input[r].app_ids)}
\* Mutant: the two components of the path swapped.
StoragePath_Swapped(r) == <<input[r].user, r>>
StoragePath(r)   == <<r, input[r].user>>
RootRow(r)       == [workspace |-> r, owner |-> input[r].user, path |-> StoragePath(r)]

WorkspaceRows  == [id : Request, slug : Slug, name : Name]
MembershipRows == [workspace : Request, user : User, role : {"owner", "member"}]
AppRowsType    == [workspace : Request, app : App]
FileRows       == [workspace : Request, owner : User, path : Request \X User]

TxType == [workspaces : SUBSET WorkspaceRows, memberships : SUBSET MembershipRows,
           apps : SUBSET AppRowsType, files : SUBSET FileRows, stamps : SUBSET User]

NoTx == [workspaces |-> {}, memberships |-> {}, apps |-> {}, files |-> {}, stamps |-> {}]

-----------------------------------------------------------------------------
(* What the queries read: committed rows only.                              *)

\* First query of user_can_create_workspace.
OwnsWorkspace(u) ==
  \E w \in workspaces, m \in memberships :
    m.workspace = w.id /\ m.user = u /\ m.role = "owner"

\* Its second query: any membership, whatever the role.
HasWorkspaceNamed(u, n) ==
  \E w \in workspaces, m \in memberships :
    m.workspace = w.id /\ m.user = u /\ w.name = n

\* list_workspaces_for_user.
ListWorkspaces(u) ==
  {w.id : w \in {x \in workspaces : \E m \in memberships :
                                      m.workspace = x.id /\ m.user = u}}

\* get_workspace_for_user: 404, 403, or the caller's role in the workspace.
GetWorkspace(w, u) ==
  IF \A x \in workspaces : x.id # w THEN "ORG_NOT_FOUND"
  ELSE IF \A m \in memberships : ~(m.workspace = w /\ m.user = u) THEN "ORG_ACCESS_DENIED"
  ELSE (CHOOSE m \in memberships : m.workspace = w /\ m.user = u).role

\* Mutant: the migration declares no UNIQUE slug.
SlugTaken_NotUnique(s) == FALSE

SlugTaken(s) == \E w \in workspaces : w.slug = s

\* An INSERT waits for the transaction that staged the same unique key.
SlugLocked(r) ==
  \E q \in Request \ {r} : \E w \in tx[q].workspaces : w.slug = WorkspaceSlug(r)

\* An UPDATE waits for the transaction that updated the same row.
ProfileLocked(r) ==
  \E q \in Request \ {r} : input[r].user \in tx[q].stamps

-----------------------------------------------------------------------------
PC == {"idle", "preOwner", "preName", "provision", "owner", "name",
       "insertWorkspace", "insertMembership",
       "txWorkspace", "txMembership", "txApps", "txRoot", "txOnboarding", "commit",
       "reply", "done", "lost"}

Finished(r) == pc[r] \in {"done", "lost"}
InFlight(r) == pc[r] # "idle" /\ ~Finished(r)

InTransaction == {"txWorkspace", "txMembership", "txApps", "txRoot", "txOnboarding", "commit"}

Answer == {"none", "201", "409", "422", "500", "502"}

TypeOK ==
  /\ input \in [Request -> Input]
  /\ pc \in [Request -> PC]
  /\ answer \in [Request -> Answer]
  /\ tx \in [Request -> TxType]
  /\ workspaces \subseteq WorkspaceRows
  /\ memberships \subseteq MembershipRows
  /\ workspace_apps \subseteq AppRowsType
  /\ files \subseteq FileRows
  /\ onboarded \in [User -> Request \cup {Never}]
  /\ folders \subseteq Request \X User
  /\ late \in [Request -> {"no", "arrival", "upload"}]

Init ==
  /\ input \in [Request -> Input]
  /\ pc = [r \in Request |-> "idle"]
  /\ answer = [r \in Request |-> "none"]
  /\ tx = [r \in Request |-> NoTx]
  /\ workspaces = {} /\ memberships = {} /\ workspace_apps = {} /\ files = {}
  /\ onboarded = [u \in User |-> Never]
  /\ folders = {}
  /\ late = [r \in Request |-> "no"]

-----------------------------------------------------------------------------
(* Control.                                                                 *)

Goto(r, label) == pc' = [pc EXCEPT ![r] = label] /\ UNCHANGED answer

\* Mutant: the rollback is forgotten, the connection keeps its locks.
Raise_NoRollback(r, status) ==
  /\ pc' = [pc EXCEPT ![r] = "done"]
  /\ answer' = [answer EXCEPT ![r] = status]
  /\ UNCHANGED tx

\* An exception reaches the route: the open transaction, if any, rolls back,
\* the route maps the exception to a status.  Nothing else is undone.
Raise(r, status) ==
  /\ pc' = [pc EXCEPT ![r] = "done"]
  /\ answer' = [answer EXCEPT ![r] = status]
  /\ tx' = [tx EXCEPT ![r] = NoTx]

\* Mutant: onboarding uploads first and checks only in the adapter.
Receive_NoPrecheck(r) ==
  /\ pc[r] = "idle"
  /\ Goto(r, IF input[r].kind = "onboarding" THEN "provision" ELSE "owner")
  /\ late' = [late EXCEPT ![r] = IF OwnsWorkspace(input[r].user) THEN "arrival" ELSE @]
  /\ UNCHANGED <<input, tx, db, folders>>

\* The request is dispatched to its route.
Receive(r) ==
  /\ pc[r] = "idle"
  /\ Goto(r, IF input[r].kind = "onboarding" THEN "preOwner" ELSE "owner")
  /\ late' = [late EXCEPT ![r] = IF OwnsWorkspace(input[r].user) THEN "arrival" ELSE @]
  /\ UNCHANGED <<input, tx, db, folders>>

\* user_can_create_workspace, first statement.  Onboarding runs the check
\* twice: before the upload (pre...) and again in the adapter.
CheckOwner(r) ==
  /\ pc[r] \in {"preOwner", "owner"}
  /\ IF OwnsWorkspace(input[r].user)
       THEN Raise(r, "409")
       ELSE /\ Goto(r, IF pc[r] = "preOwner" THEN "preName" ELSE "name")
            /\ UNCHANGED tx
  /\ UNCHANGED <<input, db, folders, late>>

AfterName(r) ==
  CASE pc[r] = "preName"                                  -> "provision"
    [] pc[r] = "name" /\ input[r].kind = "onboarding"      -> "txWorkspace"
    [] pc[r] = "name" /\ input[r].kind = "plain"           -> "insertWorkspace"

\* user_can_create_workspace, second statement.
CheckName(r) ==
  /\ pc[r] \in {"preName", "name"}
  /\ IF HasWorkspaceNamed(input[r].user, input[r].name)
       THEN Raise(r, "409")
       ELSE Goto(r, AfterName(r)) /\ UNCHANGED tx
  /\ UNCHANGED <<input, db, folders, late>>

\* Mutant: a failed upload is swallowed.
Provision_Swallowed(r) ==
  /\ pc[r] = "provision"
  /\ folders' \in {folders, folders \cup {StoragePath(r)}}
  /\ Goto(r, "owner")
  /\ UNCHANGED <<input, tx, db, late>>

\* Mutant: the adapter does not check again what was checked before the upload.
Provision_NoRecheck(r) ==
  /\ pc[r] = "provision"
  /\ folders' = folders \cup {StoragePath(r)}
  /\ late' = [late EXCEPT ![r] = IF OwnsWorkspace(input[r].user) THEN "upload" ELSE @]
  /\ Goto(r, "txWorkspace")
  /\ UNCHANGED <<input, tx, db>>

\* execute_create_workspace_folder.  An upload that raises may have stored
\* the object all the same: its outcome is unknown to the caller.
Provision(r) ==
  /\ pc[r] = "provision"
  /\ \/ /\ folders' = folders \cup {StoragePath(r)}
        /\ late' = [late EXCEPT ![r] = IF OwnsWorkspace(input[r].user) THEN "upload" ELSE @]
        /\ Goto(r, "owner") /\ UNCHANGED tx
     \/ /\ folders' \in {folders, folders \cup {StoragePath(r)}}
        /\ Raise(r, "502") /\ UNCHANGED late
  /\ UNCHANGED <<input, db>>

-----------------------------------------------------------------------------
(* The plain endpoint: two autocommitted INSERTs.                           *)

\* Mutant: the route answers before the membership is written.
InsertWorkspace_RepliesEarly(r) ==
  /\ pc[r] = "insertWorkspace" /\ ~SlugLocked(r)
  /\ ~SlugTaken(WorkspaceSlug(r)) /\ input[r].user \in Profile
  /\ workspaces' = workspaces \cup {WorkspaceRow(r)}
  /\ Goto(r, "reply")
  /\ UNCHANGED <<input, tx, memberships, workspace_apps, files, onboarded, folders, late>>

InsertWorkspace(r) ==
  /\ pc[r] = "insertWorkspace"
  /\ ~SlugLocked(r)
  /\ \/ /\ SlugTaken(WorkspaceSlug(r))
        /\ Raise(r, "409") /\ UNCHANGED workspaces
     \/ /\ ~SlugTaken(WorkspaceSlug(r)) /\ input[r].user \notin Profile
        /\ Raise(r, "500") /\ UNCHANGED workspaces
     \/ /\ ~SlugTaken(WorkspaceSlug(r)) /\ input[r].user \in Profile
        /\ workspaces' = workspaces \cup {WorkspaceRow(r)}
        /\ Goto(r, "insertMembership") /\ UNCHANGED tx
  /\ UNCHANGED <<input, memberships, workspace_apps, files, onboarded, folders, late>>

InsertMembership(r) ==
  /\ pc[r] = "insertMembership"
  /\ memberships' = memberships \cup {MembershipRow(r)}
  /\ Goto(r, "reply")
  /\ UNCHANGED <<input, tx, workspaces, workspace_apps, files, onboarded, folders, late>>

-----------------------------------------------------------------------------
(* The onboarding endpoint: one transaction.                                *)

\* Mutant: the INSERT runs on self.db instead of tx and commits at once.
TxInsertWorkspace_OnPool(r) ==
  /\ pc[r] = "txWorkspace" /\ ~SlugLocked(r)
  /\ ~SlugTaken(WorkspaceSlug(r)) /\ input[r].user \in Profile
  /\ workspaces' = workspaces \cup {WorkspaceRow(r)}
  /\ Goto(r, "txMembership")
  /\ UNCHANGED <<input, tx, memberships, workspace_apps, files, onboarded, folders, late>>

\* Mutant: every failed INSERT is reported as a conflict.
TxInsertWorkspace_AnyErrorConflicts(r) ==
  /\ pc[r] = "txWorkspace" /\ ~SlugLocked(r)
  /\ \/ /\ SlugTaken(WorkspaceSlug(r)) \/ input[r].user \notin Profile
        /\ Raise(r, "409")
     \/ /\ ~SlugTaken(WorkspaceSlug(r)) /\ input[r].user \in Profile
        /\ tx' = [tx EXCEPT ![r].workspaces = {WorkspaceRow(r)}]
        /\ Goto(r, "txMembership")
  /\ UNCHANGED <<input, db, folders, late>>

TxInsertWorkspace(r) ==
  /\ pc[r] = "txWorkspace"
  /\ ~SlugLocked(r)
  /\ \/ SlugTaken(WorkspaceSlug(r)) /\ Raise(r, "409")
     \/ /\ ~SlugTaken(WorkspaceSlug(r)) /\ input[r].user \notin Profile
        /\ Raise(r, "500")
     \/ /\ ~SlugTaken(WorkspaceSlug(r)) /\ input[r].user \in Profile
        /\ tx' = [tx EXCEPT ![r].workspaces = {WorkspaceRow(r)}]
        /\ Goto(r, "txMembership")
  /\ UNCHANGED <<input, db, folders, late>>

\* Mutant: the owner membership is forgotten.
TxInsertMembership_Skipped(r) ==
  /\ pc[r] = "txMembership"
  /\ Goto(r, IF input[r].app_ids = << >> THEN "txRoot" ELSE "txApps")
  /\ UNCHANGED <<input, tx, db, folders, late>>

\* `if app_ids:` skips the INSERT of an empty selection.
TxInsertMembership(r) ==
  /\ pc[r] = "txMembership"
  /\ tx' = [tx EXCEPT ![r].memberships = {MembershipRow(r)}]
  /\ Goto(r, IF input[r].app_ids = << >> THEN "txRoot" ELSE "txApps")
  /\ UNCHANGED <<input, db, folders, late>>

\* A repeated id violates the primary key as its row is inserted (500); an id
\* outside the catalog violates the foreign key as the statement ends (422).
TxInsertApps(r) ==
  /\ pc[r] = "txApps"
  /\ \/ ~IsInjective(input[r].app_ids) /\ Raise(r, "500")
     \/ /\ IsInjective(input[r].app_ids) /\ ~(Range(input[r].app_ids) \subseteq Catalog)
        /\ Raise(r, "422")
     \/ /\ IsInjective(input[r].app_ids) /\ Range(input[r].app_ids) \subseteq Catalog
        /\ tx' = [tx EXCEPT ![r].apps = AppRows(r)]
        /\ Goto(r, "txRoot")
  /\ UNCHANGED <<input, db, folders, late>>

TxInsertRoot(r) ==
  /\ pc[r] = "txRoot"
  /\ tx' = [tx EXCEPT ![r].files = {RootRow(r)}]
  /\ Goto(r, "txOnboarding")
  /\ UNCHANGED <<input, db, folders, late>>

\* Mutant: the UPDATE runs on self.db instead of tx and commits at once.
TxCompleteOnboarding_OnPool(r) ==
  /\ pc[r] = "txOnboarding" /\ ~ProfileLocked(r)
  /\ onboarded' = [onboarded EXCEPT ![input[r].user] = IF @ = Never THEN r ELSE @]
  /\ Goto(r, "commit")
  /\ UNCHANGED <<input, tx, workspaces, memberships, workspace_apps, files, folders, late>>

\* Mutant: the IS NULL condition is dropped.
TxCompleteOnboarding_Always(r) ==
  /\ pc[r] = "txOnboarding" /\ ~ProfileLocked(r)
  /\ tx' = [tx EXCEPT ![r].stamps = {input[r].user}]
  /\ Goto(r, "commit")
  /\ UNCHANGED <<input, db, folders, late>>

\* UPDATE ... WHERE onboarding_completed_at IS NULL: no row, hence no lock,
\* once the column is set.
TxCompleteOnboarding(r) ==
  /\ pc[r] = "txOnboarding"
  /\ \/ /\ onboarded[input[r].user] # Never
        /\ UNCHANGED tx
     \/ /\ onboarded[input[r].user] = Never /\ ~ProfileLocked(r)
        /\ tx' = [tx EXCEPT ![r].stamps = {input[r].user}]
  /\ Goto(r, "commit")
  /\ UNCHANGED <<input, db, folders, late>>

Commit(r) ==
  /\ pc[r] = "commit"
  /\ workspaces' = workspaces \cup tx[r].workspaces
  /\ memberships' = memberships \cup tx[r].memberships
  /\ workspace_apps' = workspace_apps \cup tx[r].apps
  /\ files' = files \cup tx[r].files
  /\ onboarded' = [u \in User |-> IF u \in tx[r].stamps THEN r ELSE onboarded[u]]
  /\ tx' = [tx EXCEPT ![r] = NoTx]
  /\ Goto(r, "reply")
  /\ UNCHANGED <<input, folders, late>>

Reply(r) ==
  /\ pc[r] = "reply"
  /\ Raise(r, "201")
  /\ UNCHANGED <<input, db, folders, late>>

-----------------------------------------------------------------------------
(* Failures and the environment.                                            *)

\* Any statement may raise (lost connection, value too long); in state reply
\* it is the last statement whose acknowledgement was lost.
StatementFails(r) ==
  /\ InFlight(r) /\ pc[r] # "provision"
  /\ Raise(r, "500")
  /\ UNCHANGED <<input, db, folders, late>>

\* The process serving the request dies: no answer, no compensation.
Interrupted(r) ==
  /\ InFlight(r)
  /\ pc' = [pc EXCEPT ![r] = "lost"]
  /\ tx' = [tx EXCEPT ![r] = NoTx]
  /\ UNCHANGED <<input, answer, db, folders, late>>

\* External: u joins a workspace somebody owns.  No code under src/ writes
\* such rows, but user_can_create_workspace and the schema provide for them.
Invite(w, u) ==
  /\ u \in Profile
  /\ \E m \in memberships : m.workspace = w.id /\ m.role = "owner"
  /\ \A m \in memberships : ~(m.workspace = w.id /\ m.user = u)
  /\ memberships' = memberships \cup {[workspace |-> w.id, user |-> u, role |-> "member"]}
  /\ UNCHANGED <<input, pc, answer, tx, workspaces, workspace_apps, files, onboarded,
                 folders, late>>

-----------------------------------------------------------------------------
\* One step of the coroutine that serves r.
Step(r) ==
  \/ CheckOwner(r) \/ CheckName(r) \/ Provision(r)
  \/ InsertWorkspace(r) \/ InsertMembership(r)
  \/ TxInsertWorkspace(r) \/ TxInsertMembership(r) \/ TxInsertApps(r)
  \/ TxInsertRoot(r) \/ TxCompleteOnboarding(r) \/ Commit(r) \/ Reply(r)

Next ==
  \/ \E r \in Request : Receive(r) \/ Step(r) \/ StatementFails(r) \/ Interrupted(r)
  \/ \E w \in workspaces, u \in User : Invite(w, u)

Spec == Init /\ [][Next]_vars

-----------------------------------------------------------------------------
(* Safety.                                                                  *)

\* Everything the request writes to the database is there.
Published(r) ==
  /\ WorkspaceRow(r) \in workspaces
  /\ MembershipRow(r) \in memberships
  /\ AppRows(r) \subseteq workspace_apps
  /\ RootRow(r) \in files
  /\ onboarded[input[r].user] # Never

\* Nothing of it is.
Unwritten(r) ==
  /\ \A w \in workspaces : w.id # r
  /\ \A m \in memberships : m.workspace # r
  /\ \A a \in workspace_apps : a.workspace # r
  /\ \A f \in files : f.workspace # r
  /\ \A u \in User : onboarded[u] # r

\* The database never names a folder the bucket does not hold: storage is
\* provisioned before the transaction that records its path commits.
FolderBacksRoot == \A f \in files : f.path \in folders

\* Whatever fails or interleaves, an onboarding request has written all of
\* workspace, owner membership, apps, root folder and onboarding, or nothing.
OnboardingAllOrNothing ==
  \A r \in Request : input[r].kind = "onboarding" => Published(r) \/ Unwritten(r)

\* A user recorded as onboarded owns the workspace of the request that
\* recorded it, root folder included.
OnboardedHasWorkspace ==
  \A u \in User : onboarded[u] # Never =>
    /\ input[onboarded[u]].user = u
    /\ MembershipRow(onboarded[u]) \in memberships
    /\ RootRow(onboarded[u]) \in files

\* A request that arrives once its user owns a workspace is refused before it
\* touches anything: no row, and no folder in the bucket.
LateRequestLeavesNothing ==
  \A r \in Request : late[r] = "arrival" =>
    Unwritten(r) /\ (\A u \in User : <<r, u>> \notin folders)

\* Nor does a request write a row that was overtaken during its upload, by
\* another of the user that created a workspace meanwhile: what was checked
\* before the await is checked again after it.
OvertakenWritesNothing ==
  \A r \in Request : late[r] = "upload" => Unwritten(r)

\* A workspace without an owner can only come from a plain request that was
\* stopped, or has not yet run, between its two INSERTs.
OrphanHasInterruptedCreate ==
  \A w \in workspaces :
    \/ \E m \in memberships : m.workspace = w.id /\ m.role = "owner"
    \/ /\ input[w.id].kind = "plain"
       /\ pc[w.id] \in {"insertMembership", "lost"} \/ answer[w.id] = "500"

\* A 201 is not forgotten: from then on the two read endpoints show the
\* workspace to its creator, as owner.
CreatedIsUsable ==
  \A r \in Request : answer[r] = "201" =>
    /\ r \in ListWorkspaces(input[r].user)
    /\ GetWorkspace(r, input[r].user) = "owner"

\* A 409, 422 or 502 committed nothing: the request can be sent again.
RefusalCommitsNothing ==
  \A r \in Request : answer[r] \in {"409", "422", "502"} => Unwritten(r)

\* A 409 is never spurious: the user owns a workspace or belongs to one of
\* that name, or another workspace holds the slug.
ConflictHasCause ==
  \A r \in Request : answer[r] = "409" =>
    \/ OwnsWorkspace(input[r].user)
    \/ HasWorkspaceNamed(input[r].user, input[r].name)
    \/ SlugTaken(WorkspaceSlug(r))

\* onboarding_completed_at keeps its first value, however many onboarding
\* transactions of the user race.
OnboardingStampedOnce ==
  [][\A u \in User : onboarded[u] # Never => onboarded'[u] = onboarded[u]]_vars

-----------------------------------------------------------------------------
(* Refinement.                                                              *)

\* What a reader of the database can make of r; torn is no stage of the
\* promise.
Stage(r) ==
  CASE Unwritten(r) -> "absent"
    [] input[r].kind = "onboarding" /\ Published(r) -> "usable"
    [] /\ input[r].kind = "plain" /\ WorkspaceRow(r) \in workspaces
       /\ MembershipRow(r) \in memberships -> "usable"
    [] /\ input[r].kind = "plain" /\ WorkspaceRow(r) \in workspaces
       /\ \A m \in memberships : m.workspace # r -> "reserved"
    [] OTHER -> "torn"

Asked(r) == [kind |-> input[r].kind, user |-> input[r].user, slug |-> WorkspaceSlug(r)]

Promise == INSTANCE WorkspacePromise WITH
  asked <- [r \in Request |-> Asked(r)],
  stage <- [r \in Request |-> Stage(r)]

\* Statement by statement, with locks, rollbacks and crashes, the endpoints do
\* nothing a reader could tell from the three steps of the promise.
ImplementsPromise == Promise!Spec

-----------------------------------------------------------------------------
(* Liveness, under the fairness of PooledWorkspaces.                         *)

\* Row and key locks, and waits for connections, never leave requests waiting
\* on each other for ever: every request is answered, unless the process
\* serving it dies.
EveryRequestAnswered ==
  \A r \in Request : InFlight(r) ~> Finished(r)

-----------------------------------------------------------------------------
(* What the documentation says and the code does not do.                    *)

\* README.md:339, "A user may own **one** workspace."
OneOwnedWorkspace ==
  \A m1, m2 \in memberships :
    m1.user = m2.user /\ m1.role = "owner" /\ m2.role = "owner" => m1 = m2

\* user_can_create_workspace: "Invited memberships do not count."  A user who
\* owns nothing is refused only for a slug another workspace holds.
InvitedMembershipsDoNotCount ==
  \A r \in Request : answer[r] = "409" =>
    OwnsWorkspace(input[r].user) \/ SlugTaken(WorkspaceSlug(r))
=============================================================================
