# A TLA+ model of the OmniHub API

OmniHub (`src/src/omnihub`) is a FastAPI service: a modular monolith whose
modules share one PostgreSQL database, one Cloud Storage bucket and one client
of Supabase, the external identity provider. This directory holds TLA+ modules
of its core flows and of the workflow that delivers it, TLC configurations that
check them on small instances, and proofs that hold for every instance.

- [Inventory](#inventory): the components, their state, their operations
- [Modules](#modules): what models what
- [Runs](#runs): what TLC checks, with which bounds
- [Findings](#findings): where code and documentation disagree
- [Proofs](#proofs): what holds for every instance, and why
- [Not modelled](#not-modelled) and [plan](#plan)

Paths below are relative to the repository; `omnihub/` is `src/omnihub/`.

## Inventory

| Component | State it keeps | Operations | Hard behaviour |
|---|---|---|---|
| organizations (`omnihub/modules/organizations`) | `organizations.workspaces`, `.memberships`, `.workspace_apps`; writes `assets.files` and `identity.users.onboarding_completed_at` | create a workspace (two INSERTs), onboard (check, upload, check, one transaction), read one, list mine | check-then-act across awaits, dual write to bucket and database, transaction against autocommit, two INSERTs without a transaction |
| storage (`omnihub/modules/storage`, `omnihub/common/storage`) | objects of the bucket | create a folder, list, download, sign a URL | an upload that raises may have stored the object |
| auth (`omnihub/modules/auth`) | none of its own: accounts live in Supabase, profiles in identity | register, login, refresh, validate a token | two stores without a common transaction, check-then-insert by email while the key is the id, retries after a 500 |
| identity (`omnihub/modules/identity`) | `identity.users` | create, read by email or id, `/me` | the row read after the INSERT committed lacks a column |
| agents (`omnihub/modules/agents`) | `agents.runs`, `agents.events` | create a run, list queued, manifest, events, status, complete | status overwritten without looking at it, a batch of events as separate INSERTs, `dict` parameters of JSONB columns without a codec |
| chat (`omnihub/modules/chat`) | `chat.conversations`, `.messages`, `.message_files` | open, read and list conversations, post and list messages, upload files | rows ordered by a time earlier than their commit, newest rows taken and then reversed, listings that the response model refuses |
| assets (`omnihub/modules/assets`) | `assets.files` | create a file or folder, list a folder | NULL parent in a unique key and in a comparison |
| catalog (`omnihub/modules/catalog`) | `catalog.areas`, `.apps`, read only | list | none |
| gateway (`omnihub/gateway`) | connection pool, shared Supabase client, bucket client | lifespan (build the pool, close it), middleware, health | a pool of 20 connections shared by every request; a transaction holds one; closing the pool waits for all |
| common, config, cli | none | slugs, timestamps, settings, server start | conversions |
| delivery (`.github/workflows/ci.yml`) | runs of the concurrency group, `schema_migrations`, the image Cloud Run serves | check, build, migrate and deploy a push to `main` | runs that supersede each other and stop where they are, migrations looked for in the diff of one push |

The components call each other inside one process: routes call an application
service, the service calls adapters, an adapter awaits one SQL statement or one
external call at a time. `organizations` calls `storage` for the folder, `auth`
calls `identity` for the profile, `organizations` refers to `identity.users` by
foreign key. Nothing is shared in memory between requests but the clients; all
state that outlives a request is in the database, the bucket and Supabase.
Several worker processes serve requests (`README.md:257`), so interleavings are
those of the stores, not of one event loop, and a worker can die between any two
awaits.

What makes each component correct:

- **organizations**: onboarding is all or nothing for every reader; the database
  never names a folder the bucket does not hold; a user marked as onboarded has a
  workspace; every status means what it says about the rows that exist; a user
  refused up front leaves nothing behind; nobody waits for ever.
- **auth and identity**: a profile belongs to an account, the one its email leads
  to; a success pairs a session with the profile of its account; a 500 of a login
  is not a lost profile, so that a retry works.
- **agents**: a run shows one whole update and not one known to be overwritten;
  `completed_at` agrees with `status`; only its agent writes it over HTTP.
- **chat**: a listing keeps the order in which messages were sent and misses none
  that was answered; a user sees all of their own conversations and nobody
  else's, the newest first; what is listed reaches the client.
- **assets**: the folders form a tree, a folder lists what it holds, and what is
  refused as existing is there to be found.
- **connection pool**: no request keeps a connection it does not need, and waits
  for connections never lock up with waits for rows; a worker that is asked to
  stop does.
- **delivery**: production never goes back to an earlier push; code is not served
  without its migrations unless something is known to have gone wrong; every push
  is delivered in the end, or a run failed.

`PROJECT.json` lists, line by line, the hazards behind these, with the properties
that cover them.

## Modules

### `Workspaces`: the two creation endpoints

Models `POST /v1/organizations` and `POST /v1/organizations/onboarding` from the
route down to the rows, with the tables they write, the bucket and the readers
`GET /v1/organizations/{id}` and `/workspaces/me` as operators.

A request is a coroutine. `pc[r]` is the statement it executes next, and each
action is one `await`: one statement or one upload. A statement outside a
transaction commits at once (`PgClient.execute` and the like acquire a
connection of their own); a statement of the onboarding transaction stages its
rows in `tx[r]`, which `Commit` publishes and `Raise` drops. Readers see
committed rows only: the database runs at READ COMMITTED, its default, as the
code sets no other level. Two kinds of wait between transactions are modelled,
`SlugLocked` (same unique key) and `ProfileLocked` (same row), because they
decide which interleavings exist. Foreign keys take share locks that block
nothing here, and are left out.

| Action | Code |
|---|---|
| `Receive` | the route, up to its first await |
| `CheckOwner`, `CheckName` | the two queries of `user_can_create_workspace`; onboarding runs them before the upload and again in the adapter |
| `Provision` | `execute_create_workspace_folder` down to the upload; may fail before or after the object is stored |
| `InsertWorkspace`, `InsertMembership` | `create_workspace`, two autocommitted INSERTs |
| `TxInsertWorkspace` ... `TxCompleteOnboarding`, `Commit` | the statements of `create_workspace_with_apps` |
| `Reply` | the 201 |
| `StatementFails` | any statement raises; in state `reply`, the last one after it took effect |
| `Interrupted` | the process dies |
| `Invite` | external: a member joins |

`late[r]` is history: whether the user of `r` owned a workspace already when `r`
arrived, or came to own one while `r` uploaded its folder.

Abstractions: the uuid a request mints is the request itself (`uuid4()` and
`gen_random_uuid()` are taken as fresh); a name stands for its `lower()` form; a
slug is a pair of the base the client chose and the prefix of the user's uuid,
so that two users may share a prefix and collide. `is_active`, `permissions` and
timestamps are left out: nothing here branches on them. Here and in the other
modules but `AgentRuns`, a statement that raises has taken effect by then or never
does; that the database may execute one whose client is gone later still is
modelled where rows are overwritten.

### `WorkspacePromise`: what readers may rely on

A workspace is absent, reserved (it holds its slug and belongs to nobody) or
usable. Onboarding goes from absent to usable in one step and sets the user's
onboarding date if it was not set; the plain endpoint passes through reserved and
may stop there. `Workspaces!ImplementsPromise` maps the rows to these stages.
A request torn in any other way maps to the stage `"torn"`, which the promise
does not have, so refinement fails if any reader could see it. Its own properties
(`SlugHasOneHolder`, `OnboardedIsUsable`, `NothingIsTakenBack`) say what the promise
is worth; `PromiseProofs` proves them, and the refinement carries them over to the
rows (`ReadersCanRely`).

### `Accounts`: registration, login, refresh

Models the flows of `AuthApplicationService` over the accounts of Supabase and
the rows of `identity.users`, each provider call and each query one action.
Accounts are named by the canonical address; a profile row holds the email as
typed and is looked up by exact spelling, while its primary key is the account.
Supabase is external: `Authenticate`, `SignUp` and `RefreshSession` model the
adapter's use of it, including the two answers of a second sign-up that the
adapter tells apart (a confirmed account comes back without identities; an
unconfirmed one like the first time).

Every failure is possible at every call (`CallFails`, `Interrupted`), and a call
that does not return may have taken effect (`InDoubt`).

Abstractions: a token is the account it is for; passwords are right or wrong;
profile fields other than id and email are left out.

### `PooledWorkspaces`: the same requests on a bounded pool

Extends `Workspaces` with `conn`, the requests that hold a connection of the pool
the lifespan handler opens (`gateway/database.py:32`), and `returning`, those of
them that are giving it back. `Acquire` is the return of `pool.acquire()`; every
step of `Workspaces` that is a statement needs a connection. `Release` is where the
two `async with` blocks of `PgClient` are left: after each statement outside a
transaction, at the end of the transaction inside one, on failure as on success.
`GiveBack` is the end of `pool.release()`, an await of its own: the pool resets the
connection, which rolls back whatever is open on it. That the reset finds nothing to
roll back, and so a pooled worker does only what `Workspaces` does, depends on every
statement of a transaction having stayed on the one connection until the commit:
this is what `ImplementsWorkspaces` checks. The upload and the answer hold no
connection. `worker` is the life of the process: `Boot` builds the pool or ends the
process, `Terminate` (external) asks it to stop, and `Close` is `pool.close()`,
which waits until every connection has come back; the server calls it when the
requests in progress are over. A statement that waits for a lock keeps its
connection, so the two kinds of wait meet in this module. (The docstring of the
middleware, `gateway/database.py:61`, speaks of a dedicated connection per
request; the middleware hands out the client, and the module follows the code.)

### `Files`: the tree of `assets.files`

`create_folder` and `create_file` are one INSERT, `list_files` and `get_file`
one SELECT, so a call is `Begin` and then one atomic action; an INSERT may take
effect and still raise. `Conflicts` is the unique key of the second migration,
which a NULL parent escapes; `ReferencesHold` the two foreign keys; `Children` a
comparison in which NULL is equal to nothing. A call that violates both the key
and a reference reports the key, which PostgreSQL looks at first. No code
updates or deletes a row. Owners all have profiles: an owner without one fails
like a workspace without row.

### `Chat`: conversations and messages

Every route of chat, from its parameters to its response. An INSERT is two
actions, `BeginInsert` and `CommitInsert`, as `created_at` is the start of the
inserting transaction while the row is seen from its commit on; the listings sort
by the one and see by the other. `Opened` and `Stored` are the WHERE clauses,
`Newest` is ORDER BY with LIMIT (any order among equal times) and `Reversed` the
reversal of the rows of `list_messages`. Nothing updates a conversation, so its
`updated_at` is its `created_at`. `ReadConversation` compares the user, for a read
and before an upload; messages are posted and listed without that comparison, as
in the code. `Respond` is the response model of a listing, which raises unless the
listing is empty (see the findings): `listed[r]` is what the service returned,
whatever became of it. `UploadFiles` raises at the first file, as the storage
service has no `execute_upload_file`.

The clock of the database is assumed not to go backwards, and an answer to take
at least one tick to reach its client: a message sent in the same instant as
another's answer could be listed before it. `before[r]` is history: the requests
answered with success when `r` was sent, which is what a client knows.

### `AgentRuns`: what is known of a run

An endpoint of a run is two actions: `GetAuthenticatedRun`, the dependency that
reads the row and checks token and user, and the statement of the handler. The
service's calls for a dispatcher or operator (`list_queued_runs`,
`update_run_status`), which nothing in the repository makes yet, are requests
without the first. Rows are there from the start, queued, as the INSERT of
`create_run` writes them if it did not fail. `UpdateRunStatus` overwrites the row;
`Storable` says which completions the database takes. An UPDATE that is cut off, by
a lost connection or the end of the worker, may have reached the database
(`CutOff`), which then executes it after the 500 (`Lands`): `adrift` are the requests
of which this is so. `before[r]` is what had been settled when `r` was sent,
answered with anything but 500. Creating a run and recording events raise at
their first INSERT; a request for a signed upload URL changes nothing and is
there for its check and its answers. Tokens are unique, so a run's token is its id;
`last_seq` is a set of at most one number, for NULL; the bearer token check of
`auth_guard.py` comes before and is left out.

### `Deploys`: the delivery of `main`

Models the workflow `ci.yml` for pushes to `main` and for manual dispatches of it.
A run is its trigger and its commit; `stage` says how far it is. `Enqueue` is the
concurrency group: a new run takes the place of the one that waits and has the one
in progress told to stop (`asked`). `Prepare` stands for the checks, the `if` of
the deploy job, the detection of migrations and the build of the image, which
change nothing that lasts; `Migrate` is `dbmate up`, one file at a time; `Deploy`
is the call of `gcloud`. A step that fails, or is stopped by `Stopped`, may have
taken effect or not.

GitHub, dbmate and Cloud Run are external. A push is its migration files and what
the checkout knows of the commit before it: a forced push may have removed that
commit, the `git diff` then prints nothing, and the pipe reads that as no change.
A file of `db/migrations` is absent, sound or broken; its SQL is left out. Runs of
pull requests have groups of their own and never deploy, and re-runs or
cancellations by hand are left out. At most one dispatch per commit is
made: a bound, like `MaxPush`.

### `MCWorkspaces`, `MCAccounts`, `MCPooledWorkspaces`, `MCFiles`, `MCChat`, `MCAgentRuns`, `MCDeploys`

Instances for TLC: users, slugs, app catalogs, request bodies and directories of
migrations as small sets.

### `WorkspacesProofs`, `PromiseProofs`, `AccountsProofs`, `PooledProofs`, `FilesProofs`, `ChatProofs`, `AgentsProofs`, `DeploysProofs`

Theorems, checked by TLAPS.

## Runs

| Run | Question | Instance |
|---|---|---|
| `workspaces_safety` | do the invariants, the action property and the refinement hold, whatever fails? | 2 requests; 3 users, one without profile; 12 bodies; requests symmetric |
| `workspaces_one_owned` | can a user own two workspaces? (yes) | as `workspaces_safety` |
| `workspaces_invited` | do invited memberships count? (yes) | as `workspaces_safety` |
| `accounts_safety` | do the two stores agree, and do the answers mean what they say? | 3 requests; 2 people, 3 spellings; 9 bodies; requests symmetric |
| `accounts_register` | does an accepted request return the profile? (no) | as `accounts_safety` |
| `pooled` | do waits for locks and for connections ever close a circle, is a connection held for anything but statements, does resetting one undo anything, is every request answered, does the worker stop? | 3 requests on a pool of 2; 2 users whose slugs collide: the request of one waits for a key of the other, whose two wait for one profile; fair scheduling |
| `files_safety` | do the tree and the listings hold together under races and retries? | 4 calls; 2 workspaces, one existing; calls symmetric |
| `files_root` | does listing the root list it? (no) | 4 calls |
| `chat_safety` | do listings show what they should, in an order clients can understand? | 4 requests; 2 users, one without profile, and 2 workspaces; limits -1 to 2; requests symmetric |
| `chat_listings` | do listings reach the client? (no) | as `chat_safety` |
| `agents_safety` | whose update does a run show, and are clients shown old states? | 3 requests; 2 runs of 2 users; 17 bodies; requests symmetric |
| `deploys_safety` | does production move forward with its migrations, and is every push delivered? | 3 pushes, one of them perhaps forced, a dispatch for each; 2 migrations, the second absent, sound or broken; fair runs |

**Bounds.** The only bound is the number of requests, or of pushes (`MaxPush`):
a history is as long as its requests last, and nothing else counts up. Two
requests are enough for every race of the creation endpoints, which are pairwise
(two checks before two INSERTs, two transactions on one key or row, a request
that arrives before, during or after another). The third request of `pooled`
gives a waiter behind a waiter and a retry after a failure. Three requests are
what `Accounts` needs for its longest story: register, log in after
confirmation, refresh. The bodies cover each case that behaves differently: same
and different slugs and names, valid, empty, unknown and repeated app ids, a
user without profile, two spellings of one address. `PooledWorkspaces` has one
request more than the pool has connections, and bodies that want one key, or
different keys and one profile, so that lock holders and lock waiters fill the pool
while a third waits for it. Four calls of `Files` give a folder, an entry in it, a racing or retried twin
and a listing. Four requests of `Chat` give a conversation, two messages in
either order and a listing; limits below, at and above the number of messages;
or a conversation opened beside another, of the same user and workspace or not,
and the list of them. Three requests of `AgentRuns` give two updates and a
reader, or a check, a change and the update. Three pushes of `Deploys` give one
run in progress, one that waits and one that displaces it, and a push whose
migrations are left behind by the two around it. `Files` has one owner and one
name, as more only make conflicts rarer, and two workspaces, of which one
exists. Symmetry is used only in runs without liveness, over the requests, which
the modules compare but never order.

**Deadlock** is not an error here: all requests may be answered, all pushes
delivered, and then nothing happens. That nobody waits for ever is what
`EveryRequestAnswered`, `StopsGracefully` and `EveryPushSettles` say.

**Fairness** of `pooled` is weak, per request, on `Acquire(r)`, `PooledStep(r)`
and `GiveBack(r)`, and on `Close`: the event loop runs every ready coroutine,
asyncpg returns from every statement and every release, PostgreSQL grants a lock
once its holder ends, and a shutdown goes on once it can. Weak fairness is enough
for locks because a waiter stays enabled once the lock is free and nobody takes it twice. A
connection may come and go while a request waits, so weak fairness of one request
alone would allow it to be passed over for ever; the histories are finite (a
request acquires a bounded number of times), so a waiter is in the end the only
one left, and asyncpg serves its waiters in order anyway. Nothing is assumed of
clients, failures, crashes, invitations or the platform that stops a worker.
In `Deploys` it is weak, per run, on `Step(x)`: GitHub starts a run that may
start, and a job ends, as the runner's timeout ends one that does not. Nobody
owes a push or a dispatch. The other runs state safety alone and assume none.

### The properties

`Workspaces`:

- `FolderBacksRoot`: a root folder row has its folder in the bucket. The upload
  comes before the transaction; the reverse, a folder without row, is possible
  and harmless.
- `OnboardingAllOrNothing`: for every reader at every moment, an onboarding
  request has written everything or nothing.
- `OnboardedHasWorkspace`: `onboarding_completed_at` is never set for a user
  whose workspace is missing, whichever of several racing requests set it.
- `LateRequestLeavesNothing`: the early check's purpose (`service.py:52`): once a
  user owns a workspace, later requests leave no row and no folder.
- `OvertakenWritesNothing`: the second check's purpose
  (`workspace_pg_adapter.py:179`): a request whose user came to own a workspace
  during the upload writes no row. It may have written its folder by then.
- `OrphanHasInterruptedCreate`: a workspace without owner is only ever the
  leftover of a plain request stopped between its INSERTs.
- `CreatedIsUsable`: after a 201 both read endpoints show the workspace, for good.
- `RefusalCommitsNothing`, `ConflictHasCause`: what 409, 422 and 502 promise a
  client that retries.
- `OnboardingStampedOnce`: the date is never overwritten.
- `ImplementsPromise`: refinement of `WorkspacePromise`.
- `EveryRequestAnswered`: every request received is answered, unless its process
  dies (checked in `pooled`, where requests wait for the pool too).

`Accounts`:

- `ProfileBelongsToAccount`: the stores agree on who a profile is about.
- `SuccessCarriesOwnProfile`: a 200 never pairs a session with somebody else's
  profile or none, and nobody has a session whose address is not confirmed.
- `LoginLeavesProfile`: the 500s of a login that reached the database are not
  lost profiles.
- `KnownEmailLogsIn`: once the typed spelling is on record, a login never ends in
  profile creation, whatever runs beside it: it is refused by the provider or
  succeeds, unless a call fails. Without this precondition it may: a login that
  types another spelling of a registered address is answered 500 every time, as the
  lookup is by spelling and the INSERT conflicts on the id.

`PooledWorkspaces`:

- `NobodyLocksUp`: whatever waits for whatever, while a request is in progress
  there is one that can go on: it does not wait, or there is a connection for it.
  And a shutdown with no request left waits for connections on their way back only.
  (`CanGoOn(r)` spells out when `Acquire(r)`, `PooledStep(r)` or `GiveBack(r)` is
  enabled, as the provers do not reason about `ENABLED`; in every reachable state of
  `pooled` the two agree.)
- `ConnectionsAreForStatements`: no connection is kept across an upload, while
  an answer is sent, or after a failure: the pool cannot leak dry.
- `ImplementsWorkspaces`: resetting a connection never undoes part of a transaction
  whose request goes on. With a connection per statement it would, and the request
  would commit what was left of its rows; as it does not, the safety properties of
  `Workspaces` hold of a pooled worker.
- `StopsGracefully`: a worker that is asked to stop does; neither a request nor a
  connection that was not given back keeps `pool.close()` waiting.

`Files`:

- `Forest`: parents exist and chains of parents end.
- `CreatedStaysVisible`: what was reported as created is seen by every later
  listing of its folder, below the root, and by every later read. (The root is
  never listed, see `files_root`.)
- `RetryFindsEntry`: a client told "already exists", perhaps of its own first
  attempt that was reported as an error, finds the entry in every later listing of
  the folder.

`Chat`:

- `SentOrderIsListedOrder`: a message sent after the answer to another is never
  listed before it, whatever the order of their transactions and the listing.
- `AnsweredIsListed`: a listing shows messages of its conversation only, none twice
  and no more than `limit`; it misses an answered message only for `limit` others,
  none of which had been answered when it was sent.
- `ConversationsNewestFirst`: the list of a user's conversations in a workspace has
  every one that was answered before, none of another user or workspace, none
  twice, and a later one before an earlier one.

`AgentRuns`:

- `RunIsOneUpdate`: a run is as one update left it, whole, and not one that had
  been settled before a later successful one was sent. (An ended run need not
  stay ended: the code lets the last update win. And a completion answered 500 is
  not settled: the database may execute it after the retry of it was acknowledged,
  and the code has nothing to tell the two apart.)
- `StatusIsFresh`: an agent that asks after a cancellation was acknowledged, and a
  dispatcher that lists after a start was, are not shown the state before.
- `OnlyItsAgentWrites`: what is written was checked in the dependency, one or more
  statements before, and still holds at the UPDATE, however late that lands.

`Deploys`:

- `ServedMovesForward`: production never goes back to an earlier push, however
  runs overtake, stop and fail.
- `MissingMigrationHasCause`: code is served without a migration of its commit
  only if the run of the push that brought the migration failed or was cancelled,
  or that push was forced. (All three happen: the next push looks only at its own
  diff, so it skips the steps and deploys.)
- `NothingLeftBehind`: when no run is left, waiting or in progress, every push is
  settled: served, itself or in a later one, unless a run that could have done it
  failed or was displaced by a dispatch for the same commit, which deploys nothing.
- `EveryPushSettles`: every push settles in the end.

Each property of a passing run has a mutant in `PROJECT.json`: an operator named
after the definition it replaces, with the bug in its name (`Raise_NoRollback`),
under which TLC finds the property violated.

## Findings

- **A user can own two workspaces** (`workspaces_one_owned`). `README.md:339`
  says a user may own one. Both endpoints check and then insert, with nothing in
  the schema to stop two requests that check first; their slugs must differ.
- **Invited memberships count** (`workspaces_invited`). The docstring of
  `user_can_create_workspace` says they do not; its name query joins every
  membership.
- **First registrations and first logins answer 500** (`accounts_register`).
  `README.md:295` says they return the profile. The adapter reads a column that
  its RETURNING clause does not list, after the INSERT committed. A retry of the
  login succeeds (`KnownEmailLogsIn`); a retry of the registration never does.
- **The root is never listed** (`files_root`). `execute_list_files` documents
  `parent_id` as "None for root"; the query compares with `=`, which NULL fails.
- **Listings answer 500** (`chat_listings`). `chat/.../routes.py:48` and `:100` say
  that the routes list conversations and messages. They hand the dataclasses of
  the domain to response models whose items take dictionaries, so the model
  raises as soon as there is one item.

Six more follow from reading alone, and the modules follow the code: an entry at the
root can be created twice, as its NULL parent escapes the unique key from which
`FileAlreadyExistsError` is made (`assets/domain/exceptions.py:9`); posting a
message triggers no run, though the route says so (`chat/.../routes.py:80`), as
the composition root passes no agents service (`chat_dependency.py:25`); a
completion with the status `done` or `blocked` that the schema mentions
(`agents/.../schemas.py:69`) is not in the enum and answers 500; and everything
that passes a `dict` for a JSONB column fails, since no codec is set: creating a
run, recording an event, completing with usage, and, reading a `str` back,
fetching a manifest; every upload of message files fails, as it calls
`execute_upload_file` (`chat/.../service.py:145`), which the storage service lacks;
and a manual dispatch never runs migrations, though the message at `ci.yml:151`
speaks of one, as the `if` at `ci.yml:124` leaves it out of the job.

At this commit the application does not import: `chat/infrastructure/http/routes.py:5`
imports `get_auth_session`, which `auth_guard.py` does not define, and
`gateway/router.py:7` imports those routes. Each module is modelled as its own code
behaves, with the tables its queries name.

## Proofs

The proof modules prove invariants of `Spec` for arbitrary constants, under the
named assumptions of the modules only. None of the invariants TLC checks is
inductive as it stands; each theorem rests on a strengthening.

`WorkspacesProofs`:

- `TypeCorrect`: `TypeOK`, which is inductive.
- `ControlCorrect`: `ControlInv` says what the transaction buffer of a request
  holds at each `pc`: exactly the rows of the statements behind it, nothing
  outside a transaction. Everything else needs it, as `Commit` publishes whatever
  the buffer holds.
- `FoldersBackRoots`: adds that a request past its upload has its folder, so that
  the root row it stages names one.
- `OnboardingStamped`: adds that at most one open transaction holds a stamp for a
  user, and only while the column is unset (the row lock); then `Commit` writes a
  stamp only over NULL.
- `OnboardingAtomic`: adds that an onboarding request before its commit has
  written nothing and after it everything, and that the rows of a request are
  written by its own steps alone.
- `OnboardedUsersHaveWorkspaces`: follows from atomicity and the origin of stamps.
- `OrphansHaveInterruptedCreates`, `RefusalsCommitNothing`, `ConflictsHaveCauses`,
  `CreatedAreUsable`: from `RowInv`, by which a plain request is unwritten, reserved
  or usable, and which of them at each `pc` and answer; a user has one membership
  of a workspace at most, so what a reader chooses is the owner's.
- `EndpointsKeepPromise`: `Workspaces` implements `WorkspacePromise`. `SlugInv` (a
  request that has staged its workspace shares its slug with no committed row and
  no other such request, through the lock on the key) and `StageMeans` (the stage
  a request maps to, by the rows it has written) make each action a step of the
  promise or a stutter: `Commit` goes from absent to usable, the two INSERTs of the
  plain endpoint go through reserved, and nothing reaches `"torn"`.
- `LateRequestsLeaveNothing`, `OvertakenWriteNothing`: add `LateInv`, that a request
  whose user owned a workspace at its arrival, or at the end of its upload, is at its
  next ownership check or finished: memberships are never removed, so that check
  sees one.
- `ReadersCanRely`: what the promise implies, of the rows: a slug names one
  workspace at most, a user recorded as onboarded has a usable workspace of their
  own making, and nothing a reader has seen is taken back. It is `PromiseProofs`
  read through the refinement mapping (`Reader == INSTANCE PromiseProofs WITH ...`),
  so no statement, lock or rollback appears in its proof.

`PromiseProofs` proves of `WorkspacePromise` that its three properties are inductive
together with its types.

`AccountsProofs`: `TypeCorrect`, and `FlowInv` for the four safety properties.
`FlowInv` says what is true of a request at each call (a flow that may store a
profile is about an account the provider knows; one that is about to answer with
a session, about a confirmed one; a refresh is about an account with a profile;
a login of an email on record is never about to create one) and that the stores
only grow, so that what one request established survives the steps of the
others.

`PooledProofs` rests on `PoolInv`: a request with staged rows holds a connection and
is not giving it back, and whoever holds one that is not on its way back is about to
execute a statement. It uses `ControlInv` for what is staged at each label. From it,
`ResetUndoesNothing` (a connection that comes back has no transaction open) makes
every step of the pooled worker a step of `Workspaces` or a stutter, hence
`PooledImplements`, and `PooledKeepsPromise` by `EndpointsKeepPromise`.
`PooledTypeCorrect` adds `SizeInv`, that the connections are finitely many and no more
than the pool has.

- `PoolNeverLocksUp` (`NobodyLocksUp`, any pool size, any number of requests): a
  request that holds a lock holds a connection too, and a chain of waits among the
  holders of connections has at most two links. An INSERT waits for a transaction
  past its own INSERT; that one waits, if at all, at the UPDATE of the profile, for
  one that is about to commit and waits for nothing. So if connections are out, one
  of their holders runs or gives its own back; if none is, there is one to take.
- `RequestsRunOut`: every change of a request's label, or of the connection it
  holds or gives back, lowers `Left(r)`, which starts at 39: nothing goes round in
  circles.
- `StoppedLeavesNothing`: a worker that has stopped has no request in progress and
  no connection open.

`PoolNeverLocksUp` and `RequestsRunOut` are the two halves of
`EveryRequestAnswered`: steps run out, and they do not run out while a request is in
progress. What remains to TLC is that a step which stays possible is taken, which is
the fairness.

`FilesProofs` proves all four invariants of `files_safety`. They are inductive
together with `HistoryOK`, which ties answers and histories to rows. The core is
that nothing points to the row being inserted, so that a set of rows without a
root, were there one, existed before.

`ChatProofs` rests on `RowsOK` (an answered post is a row with a `created_at` before
now) and `PastOK` (what was answered before `r` was sent has the smaller
`created_at`), which turn what clients know into an order of `created_at`; then
`Chronological` and `NewestFacts`, about what the query returns, give the three
theorems on listings.

`AgentsProofs` rests on `RunOK`: a run is as some update left it that was not
settled before any acknowledged update, or one about to be, was sent. A new update
is its own witness, because it has not been answered, and one that lands late
because it never was settled (`AdriftOK`); freshness of what is read then
follows from `RowIsFresh`, and stays, because answers and histories are final.

`DeploysProofs` rests on `QueueInv`, the order of the runs: at most one is in
progress, at most one waits, and it is for no earlier commit, nor is either for one
earlier than what is served. With it `ServedMovesForward` is a fact of one step.
`MissingMigrationHasCause` adds `OriginInv` (a push that changed the migrations sees
that it did, or was forced) and `HistoryInv` (every push up to the served one has
had its run, and a run past migrations it had to apply has applied them).
`NoPushLeftBehind` adds `NewestInv`: only a dispatch for the same commit can stop the
run of the newest push, and once that run succeeds its push is what is served, so
when no run is left the newest push is settled, and with it all before it.

Model-checked only: liveness (`EveryRequestAnswered`, `StopsGracefully`,
`EveryPushSettles`), which is out of the prover's reach. Their safety part is proved:
that nobody locks up and steps run out, that a stopping worker without requests
waits only for connections on their way back, and that nothing is left behind when
no run is left. Every
safety property of the passing runs is a theorem.

## Not modelled

- **catalog**: read-only queries over seeded tables; no state changes.
- **gateway health, logging, settings, cli**: configuration and wording.
- **Refresh token rotation**: tokens are opaque to this code. A refresh whose
  answer is lost leaves the client with a rotated-out token; the model has the
  lost answer, not the token.
- **Creating runs from chat**: no composition root provides the agents service.
- **Chat messages with files**: no route reaches `list_messages_with_files` or
  `create_message_file`.
- **Release, publishing and documentation workflows, `scripts/`**: not part of the
  running service.
- **The SQL of migrations**: files are applied or not. By reading: those of
  20261014120000 and later have no `-- migrate:up` section, the first of them creates
  a table that an earlier file created, and `schema.sql` is older than they are.
- **Storage reads**: listing and downloading objects have no route.
- **What a profile's two writers see of each other**: `Accounts` and `Workspaces`
  share `identity.users`, but one writes the row and the other one column of it
  later, under a foreign key; `Profile` in `Workspaces` is the users whose row is
  there, and the statements of `Accounts` never look at the column.

## Plan

1. `Members`: the composition of `Accounts` and `Workspaces` over `identity.users`,
   should the code come to look at both in one request.
2. Runs created from chat, once a composition root provides the agents service: the
   message that is committed before its run, and the client's retry.
