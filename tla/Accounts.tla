------------------------------ MODULE Accounts ------------------------------
(***************************************************************************)
(* Registration, login and refresh: the auth module's flows over two stores *)
(* that share no transaction, the accounts of the external identity         *)
(* provider (Supabase) and the profiles of identity.users.                  *)
(*                                                                         *)
(* A request is a coroutine with one step per await.  Accounts are named by *)
(* the canonical address the provider keys them by; a profile row holds the *)
(* email as the client typed it, and is looked up by exact spelling.        *)
(***************************************************************************)
EXTENDS Integers

CONSTANTS
  Request,    \* requests ever sent: the bound on the length of a history
  Address,    \* canonical addresses, which also name the accounts
  Email,      \* spellings clients type
  Canon,      \* Canon[e]: the address the provider resolves e to
  Input       \* the request bodies clients send

Kind == {"register", "login", "refresh"}

InputType == [kind : Kind, email : Email, password : {"right", "wrong"}]

ASSUME CanonAssumption == Canon \in [Email -> Address]
ASSUME InputAssumption == Input \subseteq InputType

VARIABLES
  input,      \* the body of each request, fixed before it is sent
  pc,         \* the call each request makes next
  answer,     \* the answer sent, or "none"
  user,       \* the profile a flow has in hand, or NoProfile
  accounts,   \* external: absent, unconfirmed or confirmed
  profiles,   \* identity.users
  sessions,   \* accounts whose client holds tokens this service returned
  knownEmail  \* history: was the typed email on record when r arrived?

vars == <<input, pc, answer, user, accounts, profiles, sessions, knownEmail>>

-----------------------------------------------------------------------------
Profile   == [id : Address, email : Email]
NoProfile == [id |-> "none", email |-> "none"]

\* The account a request is about: the user_id of the AuthSession.
AccountOf(r) == Canon[input[r].email]

\* Mutant: the arguments of the mapper swapped.
NewProfile_Swapped(r) == [id |-> input[r].email, email |-> AccountOf(r)]

\* map_login_user, map_registration_user: the id of the session, the email as
\* typed.
NewProfile(r) == [id |-> AccountOf(r), email |-> input[r].email]

\* The SELECTs of the identity adapter.  Neither column makes the first one
\* unique, so it returns any matching row.
ByEmail(e) == {p \in profiles : p.email = e}
ById(a)    == {p \in profiles : p.id = a}

PC == {"idle", "authenticate", "lookup", "signUp", "check", "insert",
       "refreshSession", "getUser", "reply", "done", "lost"}

Finished(r) == pc[r] \in {"done", "lost"}
InFlight(r) == pc[r] # "idle" /\ ~Finished(r)

\* Statuses, a 500 with its cause: credentials refused by the provider, the
\* identity module's UserAlreadyExistsError, a primary key conflict, the
\* KeyError after the INSERT, a call that raised.
Answer == {"none", "200", "401", "403", "409", "500 credentials", "500 exists",
           "500 conflict", "500 key", "500 fault"}

TypeOK ==
  /\ input \in [Request -> Input]
  /\ pc \in [Request -> PC]
  /\ answer \in [Request -> Answer]
  /\ user \in [Request -> Profile \cup {NoProfile}]
  /\ accounts \in [Address -> {"absent", "unconfirmed", "confirmed"}]
  /\ profiles \subseteq Profile
  /\ sessions \subseteq Address
  /\ knownEmail \in [Request -> BOOLEAN]

Init ==
  /\ input \in [Request -> Input]
  /\ pc = [r \in Request |-> "idle"]
  /\ answer = [r \in Request |-> "none"]
  /\ user = [r \in Request |-> NoProfile]
  /\ accounts = [a \in Address |-> "absent"]
  /\ profiles = {}
  /\ sessions = {}
  /\ knownEmail = [r \in Request |-> FALSE]

-----------------------------------------------------------------------------
Goto(r, label) == pc' = [pc EXCEPT ![r] = label] /\ UNCHANGED answer

Finish(r, status) ==
  /\ pc' = [pc EXCEPT ![r] = "done"]
  /\ answer' = [answer EXCEPT ![r] = status]

\* Mutant: registration stores the profile before it signs the user up.
FirstCall_ProfileFirst(r) ==
  CASE input[r].kind = "login"    -> "authenticate"
    [] input[r].kind = "register" -> "check"
    [] input[r].kind = "refresh"  -> "refreshSession"

FirstCall(r) ==
  CASE input[r].kind = "login"    -> "authenticate"
    [] input[r].kind = "register" -> "signUp"
    [] input[r].kind = "refresh"  -> "refreshSession"

\* A refresh needs the refresh token of an earlier answer.
Receive(r) ==
  /\ pc[r] = "idle"
  /\ input[r].kind = "refresh" => AccountOf(r) \in sessions
  /\ Goto(r, FirstCall(r))
  /\ knownEmail' = [knownEmail EXCEPT ![r] = ByEmail(input[r].email) # {}]
  /\ UNCHANGED <<input, user, accounts, profiles, sessions>>

\* authenticate_with_password: only an unconfirmed email is told apart from
\* the other failures, which the route maps to 500.
Authenticate(r) ==
  /\ pc[r] = "authenticate"
  /\ \/ /\ accounts[AccountOf(r)] = "confirmed" /\ input[r].password = "right"
        /\ Goto(r, "lookup")
     \/ /\ accounts[AccountOf(r)] = "unconfirmed" /\ input[r].password = "right"
        /\ Finish(r, "403")
     \/ /\ accounts[AccountOf(r)] = "absent" \/ input[r].password = "wrong"
        /\ Finish(r, "500 credentials")
  /\ UNCHANGED <<input, user, accounts, profiles, sessions, knownEmail>>

\* Mutant: a login without a profile is answered without one.
Lookup_NoCreate(r) ==
  /\ pc[r] = "lookup"
  /\ Goto(r, "reply")
  /\ \/ user' \in {[user EXCEPT ![r] = p] : p \in ByEmail(input[r].email)}
     \/ ByEmail(input[r].email) = {} /\ UNCHANGED user
  /\ UNCHANGED <<input, accounts, profiles, sessions, knownEmail>>

\* Mutant: every login creates the profile.
Lookup_AlwaysCreate(r) ==
  /\ pc[r] = "lookup"
  /\ Goto(r, "check")
  /\ UNCHANGED <<input, user, accounts, profiles, sessions, knownEmail>>

\* execute_login_flow: the profile by email, or a new one.
Lookup(r) ==
  /\ pc[r] = "lookup"
  /\ \/ /\ user' \in {[user EXCEPT ![r] = p] : p \in ByEmail(input[r].email)}
        /\ Goto(r, "reply")
     \/ /\ ByEmail(input[r].email) = {}
        /\ Goto(r, "check") /\ UNCHANGED user
  /\ UNCHANGED <<input, accounts, profiles, sessions, knownEmail>>

\* create_user_with_credentials.  The provider answers a second sign-up of a
\* confirmed account with a user without identities, and that of an
\* unconfirmed one like the first.
SignUp(r) ==
  /\ pc[r] = "signUp"
  /\ \/ /\ accounts[AccountOf(r)] = "confirmed"
        /\ Finish(r, "409") /\ UNCHANGED accounts
     \/ /\ accounts[AccountOf(r)] # "confirmed"
        /\ accounts' = [accounts EXCEPT ![AccountOf(r)] = "unconfirmed"]
        /\ Goto(r, "check")
  /\ UNCHANGED <<input, user, profiles, sessions, knownEmail>>

\* IdentityApplicationService.create_user, its check.  The error it raises is
\* not the class of that name the routes catch.
CheckEmail(r) ==
  /\ pc[r] = "check"
  /\ IF ByEmail(input[r].email) # {} THEN Finish(r, "500 exists") ELSE Goto(r, "insert")
  /\ UNCHANGED <<input, user, accounts, profiles, sessions, knownEmail>>

\* Mutant: the exception after the INSERT rolls it back.
InsertProfile_RolledBack(r) ==
  /\ pc[r] = "insert"
  /\ Finish(r, IF ById(AccountOf(r)) # {} THEN "500 conflict" ELSE "500 key")
  /\ UNCHANGED <<input, user, accounts, profiles, sessions, knownEmail>>

\* UserPgIdentityAdapter.create_user.  The INSERT commits; then the row is
\* read for a column that RETURNING does not list, which raises.
InsertProfile(r) ==
  /\ pc[r] = "insert"
  /\ \/ /\ ById(AccountOf(r)) # {}
        /\ Finish(r, "500 conflict") /\ UNCHANGED profiles
     \/ /\ ById(AccountOf(r)) = {}
        /\ profiles' = profiles \cup {NewProfile(r)}
        /\ Finish(r, "500 key")
  /\ UNCHANGED <<input, user, accounts, sessions, knownEmail>>

\* refresh_session; any failure is a 401.
RefreshSession(r) ==
  /\ pc[r] = "refreshSession"
  /\ Goto(r, "getUser") \/ Finish(r, "401")
  /\ UNCHANGED <<input, user, accounts, profiles, sessions, knownEmail>>

\* execute_refresh_flow: the profile by id, None when there is no row.
GetUser(r) ==
  /\ pc[r] = "getUser"
  /\ \/ user' \in {[user EXCEPT ![r] = p] : p \in ById(AccountOf(r))}
     \/ ById(AccountOf(r)) = {} /\ UNCHANGED user
  /\ Goto(r, "reply")
  /\ UNCHANGED <<input, accounts, profiles, sessions, knownEmail>>

\* The route returns the tokens and the profile in hand.
Reply(r) ==
  /\ pc[r] = "reply"
  /\ Finish(r, "200")
  /\ sessions' = sessions \cup {AccountOf(r)}
  /\ UNCHANGED <<input, user, accounts, profiles, knownEmail>>

-----------------------------------------------------------------------------
(* Failures and the environment.                                            *)

\* What a call that does not return has done: nothing, or all it does.
InDoubt(r) ==
  \/ UNCHANGED <<accounts, profiles>>
  \/ /\ pc[r] = "signUp" /\ accounts[AccountOf(r)] = "absent"
     /\ accounts' = [accounts EXCEPT ![AccountOf(r)] = "unconfirmed"]
     /\ UNCHANGED profiles
  \/ /\ pc[r] = "insert" /\ ById(AccountOf(r)) = {}
     /\ profiles' = profiles \cup {NewProfile(r)}
     /\ UNCHANGED accounts

\* A query or a call of the provider raises.
CallFails(r) ==
  /\ InFlight(r) /\ pc[r] # "refreshSession"
  /\ InDoubt(r)
  /\ Finish(r, "500 fault")
  /\ UNCHANGED <<input, user, sessions, knownEmail>>

\* The process dies: the client gets no answer and no tokens.
Interrupted(r) ==
  /\ InFlight(r)
  /\ InDoubt(r)
  /\ Goto(r, "lost")
  /\ UNCHANGED <<input, user, sessions, knownEmail>>

\* External: the owner of the address follows the confirmation link.
Confirm(a) ==
  /\ accounts[a] = "unconfirmed"
  /\ accounts' = [accounts EXCEPT ![a] = "confirmed"]
  /\ UNCHANGED <<input, pc, answer, user, profiles, sessions, knownEmail>>

-----------------------------------------------------------------------------
Step(r) ==
  \/ Authenticate(r) \/ Lookup(r) \/ SignUp(r) \/ CheckEmail(r)
  \/ InsertProfile(r) \/ RefreshSession(r) \/ GetUser(r) \/ Reply(r)

Next ==
  \/ \E r \in Request : Receive(r) \/ Step(r) \/ CallFails(r) \/ Interrupted(r)
  \/ \E a \in Address : Confirm(a)

Spec == Init /\ [][Next]_vars

-----------------------------------------------------------------------------
(* Safety.                                                                  *)

\* The two stores agree: a profile belongs to an account of the provider, and
\* the email on record leads to that account.
ProfileBelongsToAccount ==
  \A p \in profiles : accounts[p.id] # "absent" /\ Canon[p.email] = p.id

\* README.md:295, for login and refresh: a success pairs the session with the
\* stored profile of the very account the session is for, and nobody has a
\* session whose address is not confirmed.
SuccessCarriesOwnProfile ==
  /\ \A r \in Request : answer[r] = "200" =>
       user[r] \in profiles /\ user[r].id = AccountOf(r)
  /\ \A a \in sessions : accounts[a] = "confirmed"

\* A login that gets past the provider leaves a profile of the account behind,
\* unless a call fails: the 500 it may end with is not a failure to store.
LoginLeavesProfile ==
  \A r \in Request :
    input[r].kind = "login" /\ answer[r] \in {"200", "500 exists", "500 conflict", "500 key"}
      => ById(AccountOf(r)) # {}

\* Only first logins go wrong: a login that was sent once the typed email was on
\* record never ends in the creation of a profile, whatever else runs.  Unless a
\* call fails, it is refused by the provider or succeeds.
KnownEmailLogsIn ==
  \A r \in Request : input[r].kind = "login" /\ knownEmail[r] =>
    answer[r] \notin {"500 exists", "500 conflict", "500 key"}

-----------------------------------------------------------------------------
(* What the documentation says and the code does not do.                    *)

\* README.md:295, "`login`, `register` and `refresh` all return the session
\* tokens plus the `user` profile": a request the provider accepted, none of
\* whose calls failed, is answered with them.
AcceptedIsAnswered ==
  \A r \in Request :
    answer[r] \in {"none", "200", "401", "403", "409", "500 credentials", "500 fault"}
=============================================================================
