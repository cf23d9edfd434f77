-------------------------- MODULE WorkspacePromise --------------------------
(***************************************************************************)
(* What the workspace endpoints promise their readers, without statements,  *)
(* transactions, locks or a bucket.  A workspace is absent, reserved (it    *)
(* holds its slug and belongs to nobody) or usable (owner, apps, root       *)
(* folder).  Onboarding makes it usable in one step; the plain endpoint     *)
(* passes through reserved and may stop there.                              *)
(***************************************************************************)
EXTENDS Integers

CONSTANTS
  Request,   \* one workspace at most per request
  User,      \* the users
  Slug,      \* the slugs they ask for
  Never      \* the onboarding of a user that has not happened

VARIABLES
  asked,     \* endpoint, user and slug of each request, never changed
  stage,     \* absent, reserved or usable
  onboarded  \* the request that completed the user's onboarding

promise == <<asked, stage, onboarded>>

Init ==
  /\ asked \in [Request -> [kind : {"plain", "onboarding"}, user : User, slug : Slug]]
  /\ stage = [r \in Request |-> "absent"]
  /\ onboarded = [u \in User |-> Never]

SlugFree(r) == \A q \in Request : asked[q].slug = asked[r].slug => stage[q] = "absent"

\* The plain endpoint takes the slug ...
Reserve(r) ==
  /\ asked[r].kind = "plain"
  /\ stage[r] = "absent" /\ SlugFree(r)
  /\ stage' = [stage EXCEPT ![r] = "reserved"]
  /\ UNCHANGED <<asked, onboarded>>

\* ... and then makes its user the owner.
Own(r) ==
  /\ stage[r] = "reserved"
  /\ stage' = [stage EXCEPT ![r] = "usable"]
  /\ UNCHANGED <<asked, onboarded>>

\* Onboarding does both at once and completes the user's onboarding, unless
\* it was complete already.
Onboard(r) ==
  /\ asked[r].kind = "onboarding"
  /\ stage[r] = "absent" /\ SlugFree(r)
  /\ stage' = [stage EXCEPT ![r] = "usable"]
  /\ onboarded' = [onboarded EXCEPT ![asked[r].user] = IF @ = Never THEN r ELSE @]
  /\ UNCHANGED asked

Next == \E r \in Request : Reserve(r) \/ Own(r) \/ Onboard(r)

Spec == Init /\ [][Next]_promise

-----------------------------------------------------------------------------
(* What a reader of the database can rely on.                               *)

TypeOK ==
  /\ asked \in [Request -> [kind : {"plain", "onboarding"}, user : User, slug : Slug]]
  /\ stage \in [Request -> {"absent", "reserved", "usable"}]
  /\ onboarded \in [User -> Request \cup {Never}]

\* A slug names one workspace: of the requests that ask for it, whatever the
\* endpoint, one at most has it, reserved or usable.
SlugHasOneHolder ==
  \A q, r \in Request :
    stage[q] # "absent" /\ stage[r] # "absent" /\ asked[q].slug = asked[r].slug => q = r

\* A user recorded as onboarded has a usable workspace, made by an onboarding
\* request of their own.
OnboardedIsUsable ==
  \A u \in User : onboarded[u] # Never =>
    /\ onboarded[u] \in Request /\ stage[onboarded[u]] = "usable"
    /\ asked[onboarded[u]].kind = "onboarding" /\ asked[onboarded[u]].user = u

\* What a reader has seen stays true: a usable workspace stays usable, a slug
\* once taken stays with its request, an onboarding keeps the request that
\* completed it.
NothingIsTakenBack ==
  [][/\ \A r \in Request : stage[r] = "usable" => stage'[r] = "usable"
     /\ \A r \in Request : stage[r] # "absent" => stage'[r] # "absent"
     /\ \A u \in User : onboarded[u] # Never => onboarded'[u] = onboarded[u]
     /\ asked' = asked]_promise
=============================================================================
