--------------------------- MODULE AccountsProofs ---------------------------
(* Theorems about Accounts, for every set of requests, addresses, spellings *)
(* and bodies.                                                              *)
EXTENDS Accounts, TLAPS

-----------------------------------------------------------------------------
(* Type correctness.                                                        *)

\* What the body of a request is made of, and the profile it may store.
LEMMA InputTyped ==
  ASSUME TypeOK, NEW r \in Request
  PROVE  /\ input[r].kind \in Kind /\ input[r].email \in Email
         /\ AccountOf(r) \in Address /\ NewProfile(r) \in Profile
<1>1. input[r] \in InputType
  BY InputAssumption DEF TypeOK
<1>2. input[r].kind \in Kind /\ input[r].email \in Email
  BY <1>1 DEF InputType
<1>3. AccountOf(r) \in Address
  BY <1>2, CanonAssumption DEF AccountOf
<1> QED BY <1>2, <1>3 DEF NewProfile, Profile

\* Going on to a call, and answering, keep pc and answer well-typed.
LEMMA ControlTyped ==
  ASSUME TypeOK, NEW r \in Request
  PROVE  /\ \A label \in PC : Goto(r, label) =>
              pc' \in [Request -> PC] /\ answer' \in [Request -> Answer]
         /\ \A status \in Answer : Finish(r, status) =>
              pc' \in [Request -> PC] /\ answer' \in [Request -> Answer]
<1>1. "done" \in PC
  BY DEF PC
<1> QED BY <1>1 DEF TypeOK, Goto, Finish

\* Every step keeps the state well-typed.
LEMMA TypeStep ==
  ASSUME TypeOK, [Next]_vars
  PROVE  TypeOK'
<1> USE DEF TypeOK
<1>1. ASSUME NEW r \in Request, Receive(r) PROVE TypeOK'
  <2>1. FirstCall(r) \in PC
    BY InputTyped DEF FirstCall, PC, Kind
  <2> QED BY <1>1, <2>1, ControlTyped DEF Receive
<1>2. ASSUME NEW r \in Request, Authenticate(r) PROVE TypeOK'
  <2>1. "lookup" \in PC /\ "403" \in Answer /\ "500 credentials" \in Answer
    BY DEF PC, Answer
  <2> QED BY <1>2, <2>1, ControlTyped DEF Authenticate
<1>3. ASSUME NEW r \in Request, Lookup(r) PROVE TypeOK'
  <2>1. "reply" \in PC /\ "check" \in PC
    BY DEF PC
  <2>2. user' \in [Request -> Profile \cup {NoProfile}]
    BY <1>3 DEF Lookup, ByEmail
  <2> QED BY <1>3, <2>1, <2>2, ControlTyped DEF Lookup
<1>4. ASSUME NEW r \in Request, SignUp(r) PROVE TypeOK'
  <2>1. "check" \in PC /\ "409" \in Answer
    BY DEF PC, Answer
  <2> QED BY <1>4, <2>1, ControlTyped DEF SignUp
<1>5. ASSUME NEW r \in Request, CheckEmail(r) PROVE TypeOK'
  <2>1. "insert" \in PC /\ "500 exists" \in Answer
    BY DEF PC, Answer
  <2> QED BY <1>5, <2>1, ControlTyped DEF CheckEmail
<1>6. ASSUME NEW r \in Request, InsertProfile(r) PROVE TypeOK'
  <2>1. "500 conflict" \in Answer /\ "500 key" \in Answer
    BY DEF Answer
  <2> QED BY <1>6, <2>1, InputTyped, ControlTyped DEF InsertProfile
<1>7. ASSUME NEW r \in Request, RefreshSession(r) PROVE TypeOK'
  <2>1. "getUser" \in PC /\ "401" \in Answer
    BY DEF PC, Answer
  <2> QED BY <1>7, <2>1, ControlTyped DEF RefreshSession
<1>8. ASSUME NEW r \in Request, GetUser(r) PROVE TypeOK'
  <2>1. "reply" \in PC
    BY DEF PC
  <2>2. user' \in [Request -> Profile \cup {NoProfile}]
    BY <1>8 DEF GetUser, ById
  <2> QED BY <1>8, <2>1, <2>2, ControlTyped DEF GetUser
<1>9. ASSUME NEW r \in Request, Reply(r) PROVE TypeOK'
  <2>1. "200" \in Answer
    BY DEF Answer
  <2> QED BY <1>9, <2>1, InputTyped, ControlTyped DEF Reply
<1>10. ASSUME NEW r \in Request, InDoubt(r)
       PROVE  /\ accounts' \in [Address -> {"absent", "unconfirmed", "confirmed"}]
              /\ profiles' \subseteq Profile
  BY <1>10, InputTyped DEF InDoubt
<1>11. ASSUME NEW r \in Request, CallFails(r) PROVE TypeOK'
  <2>1. "500 fault" \in Answer
    BY DEF Answer
  <2> QED BY <1>10, <1>11, <2>1, ControlTyped DEF CallFails
<1>12. ASSUME NEW r \in Request, Interrupted(r) PROVE TypeOK'
  <2>1. "lost" \in PC
    BY DEF PC
  <2> QED BY <1>10, <1>12, <2>1, ControlTyped DEF Interrupted
<1>13. ASSUME NEW a \in Address, Confirm(a) PROVE TypeOK'
  BY <1>13 DEF Confirm
<1>14. CASE UNCHANGED vars
  BY <1>14 DEF vars
<1> QED
  BY <1>1, <1>2, <1>3, <1>4, <1>5, <1>6, <1>7, <1>8, <1>9, <1>11, <1>12, <1>13, <1>14
  DEF Next, Step

\* In every reachable state every variable has its type.
THEOREM TypeCorrect == Spec => []TypeOK
<1>1. Init => TypeOK
  BY DEF Init, TypeOK, PC, Answer
<1> QED BY <1>1, TypeStep, PTL DEF Spec

-----------------------------------------------------------------------------
(* The inductive invariant.                                                 *)

\* The account of a has a profile.
Recorded(a) == ById(a) # {}

\* What is true of a request at each call.  A flow reaches the INSERT with an
\* account the provider knows, and its answer with one that is confirmed; a
\* refresh is about an account with a profile;
\* a login of an email on record never reaches the creation of a profile.
Flow(r) ==
  /\ pc[r] = "signUp" => input[r].kind = "register"
  /\ pc[r] \in {"lookup", "check", "insert"} => accounts[AccountOf(r)] # "absent"
  /\ pc[r] \in {"refreshSession", "getUser"} => Recorded(AccountOf(r))
  /\ pc[r] \in {"lookup", "refreshSession", "getUser", "reply"} => accounts[AccountOf(r)] = "confirmed"
  /\ pc[r] = "reply" => user[r] \in profiles /\ user[r].id = AccountOf(r)
  /\ pc[r] # "idle" /\ knownEmail[r] => ByEmail(input[r].email) # {}
  /\ input[r].kind = "login" /\ knownEmail[r] => pc[r] \notin {"check", "insert"}
  /\ pc[r] = "idle" => answer[r] = "none"

\* What is true of its answer: the four properties, request by request.
Answered(r) ==
  /\ answer[r] = "200" => user[r] \in profiles /\ user[r].id = AccountOf(r)
  /\ input[r].kind = "login" /\ answer[r] \in {"200", "500 exists", "500 conflict", "500 key"}
       => Recorded(AccountOf(r))
  /\ input[r].kind = "login" /\ knownEmail[r] =>
       answer[r] \notin {"500 exists", "500 conflict", "500 key"}
  /\ answer[r] = "409" => accounts[AccountOf(r)] = "confirmed"

\* Tokens were only returned for confirmed accounts with a profile.
SessionInv == \A a \in sessions : Recorded(a) /\ accounts[a] = "confirmed"

FlowInv ==
  /\ ProfileBelongsToAccount
  /\ SessionInv
  /\ \A r \in Request : Flow(r) /\ Answered(r)

-----------------------------------------------------------------------------
(* Steps.                                                                   *)

\* The state of one request, the stores left aside.
Own(r) == <<pc[r], answer[r], user[r], knownEmail[r]>>

\* Nothing is ever deleted: profiles stay, accounts only move forward.
Grow ==
  /\ profiles \subseteq profiles'
  /\ \A a \in Address : accounts[a] # "absent" => accounts'[a] # "absent"
  /\ \A a \in Address : accounts[a] = "confirmed" => accounts'[a] = "confirmed"
  /\ input' = input

\* A step of r, or one that fails or interrupts it.
Moves(r) == Receive(r) \/ Step(r) \/ CallFails(r) \/ Interrupted(r)

\* Every step only adds to the stores.
LEMMA StoresGrow ==
  ASSUME TypeOK, [Next]_vars
  PROVE  Grow
<1> USE DEF TypeOK, Grow
<1>1. ASSUME NEW r \in Request, Moves(r) PROVE Grow
  <2>1. AccountOf(r) \in Address
    BY InputTyped
  <2> QED BY <1>1, <2>1
    DEF Moves, Step, Receive, Authenticate, Lookup, SignUp, CheckEmail, InsertProfile,
        RefreshSession, GetUser, Reply, CallFails, Interrupted, InDoubt
<1>2. ASSUME NEW a \in Address, Confirm(a) PROVE Grow
  BY <1>2 DEF Confirm
<1>3. CASE UNCHANGED vars
  BY <1>3 DEF vars
<1> QED BY <1>1, <1>2, <1>3 DEF Next, Moves

\* A step of one request leaves the state of the others alone.
LEMMA OneMoves ==
  ASSUME TypeOK, NEW r \in Request, Moves(r), NEW q \in Request, q # r
  PROVE  Own(q)' = Own(q)
BY DEF TypeOK, Own, Moves, Step, Receive, Authenticate, Lookup, SignUp, CheckEmail,
       InsertProfile, RefreshSession, GetUser, Reply, CallFails, Interrupted, Goto, Finish

\* What is on record stays on record.
LEMMA RecordsStay ==
  ASSUME Grow
  PROVE  /\ \A a \in Address : Recorded(a) => Recorded(a)'
         /\ \A e \in Email : ByEmail(e) # {} => (ByEmail(e) # {})'
BY DEF Grow, Recorded, ById, ByEmail

\* A request that does not move keeps its part of the invariant.
LEMMA FlowFrame ==
  ASSUME TypeOK, Grow, NEW q \in Request, Own(q)' = Own(q), Flow(q), Answered(q)
  PROVE  Flow(q)' /\ Answered(q)'
<1>1. AccountOf(q)' = AccountOf(q) /\ input'[q] = input[q]
  BY DEF Grow, AccountOf
<1>2. AccountOf(q) \in Address /\ input[q].email \in Email
  BY InputTyped
<1>3. Recorded(AccountOf(q)) => Recorded(AccountOf(q))'
  BY <1>1, <1>2 DEF Grow, Recorded, ById
<1>4. ByEmail(input[q].email) # {} => (ByEmail(input[q].email) # {})'
  BY <1>1, <1>2 DEF Grow, ByEmail
<1>5. /\ pc'[q] = pc[q] /\ answer'[q] = answer[q] /\ user'[q] = user[q]
      /\ knownEmail'[q] = knownEmail[q]
  BY DEF Own
<1>6. /\ user[q] \in profiles => user[q] \in profiles'
      /\ accounts[AccountOf(q)] # "absent" => accounts'[AccountOf(q)] # "absent"
      /\ accounts[AccountOf(q)] = "confirmed" => accounts'[AccountOf(q)] = "confirmed"
  BY <1>2 DEF Grow
<1>7. Flow(q)'
  BY <1>1, <1>3, <1>4, <1>5, <1>6 DEF Flow
<1>8. Answered(q)'
  BY <1>1, <1>3, <1>4, <1>5, <1>6 DEF Answered
<1> QED BY <1>7, <1>8

\* A profile on record under the email of a request is that of its account.
LEMMA EmailLeadsToAccount ==
  ASSUME ProfileBelongsToAccount, NEW r \in Request, NEW p \in ByEmail(input[r].email)
  PROVE  p \in profiles /\ p.id = AccountOf(r)
BY DEF ProfileBelongsToAccount, ByEmail, AccountOf

\* The profile a request stores is of its account, which the provider knows.
LEMMA StoredBelongs ==
  ASSUME TypeOK, FlowInv, NEW r \in Request, Moves(r)
  PROVE  ProfileBelongsToAccount'
<1>1. Grow
  BY StoresGrow DEF Moves, Next
<1>2. Flow(r) /\ ProfileBelongsToAccount
  BY DEF FlowInv
<1>3. \/ profiles' = profiles
      \/ pc[r] = "insert" /\ profiles' = profiles \cup {NewProfile(r)}
  BY DEF Moves, Step, Receive, Authenticate, Lookup, SignUp, CheckEmail, InsertProfile,
         RefreshSession, GetUser, Reply, CallFails, Interrupted, InDoubt
<1>4. AccountOf(r) \in Address /\ (pc[r] = "insert" => accounts[AccountOf(r)] # "absent")
  BY <1>2, InputTyped DEF Flow
<1>5. ASSUME NEW p \in profiles' PROVE accounts'[p.id] # "absent" /\ Canon[p.email] = p.id
  <2>1. CASE p \in profiles
    <3>1. p.id \in Address
      BY <2>1 DEF TypeOK, Profile
    <3> QED BY <1>1, <1>2, <2>1, <3>1 DEF ProfileBelongsToAccount, Grow
  <2>2. CASE p \notin profiles
    <3>1. p = NewProfile(r) /\ pc[r] = "insert"
      BY <1>3, <1>5, <2>2
    <3>2. p.id = AccountOf(r) /\ Canon[p.email] = AccountOf(r)
      BY <3>1 DEF NewProfile, AccountOf
    <3> QED BY <1>1, <1>4, <3>1, <3>2 DEF Grow
  <2> QED BY <2>1, <2>2
<1> QED BY <1>5 DEF ProfileBelongsToAccount

\* A request that moves establishes its own part of the invariant.
LEMMA FlowOwn ==
  ASSUME TypeOK, FlowInv, NEW r \in Request, Moves(r)
  PROVE  Flow(r)' /\ Answered(r)'
<1> DEFINE a == AccountOf(r)
           e == input[r].email
<1>1. Grow
  BY StoresGrow DEF Moves, Next
<1>2. Flow(r) /\ Answered(r) /\ ProfileBelongsToAccount
  BY DEF FlowInv
<1>3. AccountOf(r)' = a /\ input'[r] = input[r] /\ a \in Address /\ e \in Email
  BY <1>1, InputTyped DEF Grow, AccountOf
<1>4. Recorded(a) => Recorded(a)'
  BY <1>1, <1>3 DEF Grow, Recorded, ById
<1>5. ByEmail(e) # {} => (ByEmail(e) # {})'
  BY <1>1, <1>3 DEF Grow, ByEmail
<1>6. ByEmail(e) # {} => Recorded(a)
  BY <1>2, EmailLeadsToAccount DEF Recorded, ById
<1>7. /\ accounts[a] # "absent" => accounts'[a] # "absent"
      /\ accounts[a] = "confirmed" => accounts'[a] = "confirmed"
  BY <1>1, <1>3 DEF Grow
<1>8. input[r].kind \in Kind
  BY InputTyped
<1> USE DEF Flow, Answered
<1>10. ASSUME Receive(r) PROVE Flow(r)' /\ Answered(r)'
  <2>1. /\ pc[r] = "idle" /\ answer[r] = "none" /\ answer'[r] = answer[r]
        /\ pc'[r] = FirstCall(r) /\ knownEmail'[r] = (ByEmail(e) # {})
    BY <1>2, <1>10 DEF Receive, Goto, TypeOK
  <2>2. input[r].kind = "refresh" => Recorded(a)
    BY <1>10 DEF Receive, FlowInv, SessionInv
  <2>3. input[r].kind = "refresh" => accounts'[a] = "confirmed"
    BY <1>7, <1>10 DEF Receive, FlowInv, SessionInv
  <2> QED BY <1>3, <1>4, <1>5, <1>8, <2>1, <2>2, <2>3 DEF FirstCall, Kind
<1>11. ASSUME Authenticate(r) PROVE Flow(r)' /\ Answered(r)'
  <2>1. /\ pc[r] = "authenticate" /\ knownEmail' = knownEmail /\ user' = user
        /\ \/ pc'[r] = "lookup" /\ answer'[r] = answer[r] /\ accounts[a] = "confirmed"
           \/ pc'[r] = "done" /\ answer'[r] \in {"403", "500 credentials"}
    BY <1>11 DEF Authenticate, Goto, Finish, TypeOK
  <2> QED BY <1>1, <1>2, <1>3, <1>4, <1>5, <1>7, <2>1 DEF Grow
<1>12. ASSUME Lookup(r) PROVE Flow(r)' /\ Answered(r)'
  <2>1. /\ pc[r] = "lookup" /\ knownEmail' = knownEmail /\ answer'[r] = answer[r]
        /\ \/ pc'[r] = "reply" /\ user'[r] \in ByEmail(e)
           \/ pc'[r] = "check" /\ user'[r] = user[r] /\ ByEmail(e) = {}
    BY <1>12 DEF Lookup, Goto, TypeOK
  <2>2. CASE pc'[r] = "reply" /\ user'[r] \in ByEmail(e)
    <3>1. user'[r] \in profiles' /\ user'[r].id = a
      BY <1>1, <1>2, <2>2, EmailLeadsToAccount DEF Grow
    <3> QED BY <1>2, <1>3, <1>4, <1>5, <1>7, <2>1, <2>2, <3>1
  <2>3. CASE pc'[r] = "check" /\ user'[r] = user[r] /\ ByEmail(e) = {}
    BY <1>1, <1>2, <1>3, <1>4, <1>5, <1>7, <2>1, <2>3 DEF Grow
  <2> QED BY <2>1, <2>2, <2>3
<1>13. ASSUME SignUp(r) PROVE Flow(r)' /\ Answered(r)'
  <2>1. /\ pc[r] = "signUp" /\ knownEmail' = knownEmail /\ user' = user
        /\ \/ pc'[r] = "done" /\ answer'[r] = "409" /\ accounts[a] = "confirmed"
           \/ pc'[r] = "check" /\ answer'[r] = answer[r] /\ accounts'[a] = "unconfirmed"
    BY <1>3, <1>13 DEF SignUp, Goto, Finish, TypeOK
  <2> QED BY <1>1, <1>2, <1>3, <1>4, <1>5, <1>7, <2>1 DEF Grow
<1>14. ASSUME CheckEmail(r) PROVE Flow(r)' /\ Answered(r)'
  <2>1. /\ pc[r] = "check" /\ knownEmail' = knownEmail /\ user' = user
        /\ \/ pc'[r] = "done" /\ answer'[r] = "500 exists" /\ ByEmail(e) # {}
           \/ pc'[r] = "insert" /\ answer'[r] = answer[r]
    BY <1>14 DEF CheckEmail, Goto, Finish, TypeOK
  <2> QED BY <1>1, <1>2, <1>3, <1>4, <1>5, <1>6, <1>7, <2>1 DEF Grow
<1>15. ASSUME InsertProfile(r) PROVE Flow(r)' /\ Answered(r)'
  <2>1. /\ pc[r] = "insert" /\ knownEmail' = knownEmail /\ user' = user
        /\ pc'[r] = "done" /\ answer'[r] \in {"500 conflict", "500 key"}
        /\ Recorded(a) \/ NewProfile(r) \in profiles'
    BY <1>15 DEF InsertProfile, Finish, TypeOK, Recorded
  <2>2. Recorded(a)'
    <3>1. CASE Recorded(a)
      BY <1>4, <3>1
    <3>2. CASE NewProfile(r) \in profiles'
      <4>1. NewProfile(r).id = a
        BY DEF NewProfile
      <4> QED BY <1>3, <3>2, <4>1 DEF Recorded, ById
    <3> QED BY <2>1, <3>1, <3>2
  <2> QED BY <1>2, <1>3, <1>5, <2>1, <2>2
<1>16. ASSUME RefreshSession(r) PROVE Flow(r)' /\ Answered(r)'
  <2>1. /\ pc[r] = "refreshSession" /\ knownEmail' = knownEmail /\ user' = user
        /\ \/ pc'[r] = "getUser" /\ answer'[r] = answer[r]
           \/ pc'[r] = "done" /\ answer'[r] = "401"
    BY <1>16 DEF RefreshSession, Goto, Finish, TypeOK
  <2> QED BY <1>1, <1>2, <1>3, <1>4, <1>5, <1>7, <2>1 DEF Grow
<1>17. ASSUME GetUser(r) PROVE Flow(r)' /\ Answered(r)'
  <2>1. /\ pc[r] = "getUser" /\ knownEmail' = knownEmail /\ answer'[r] = answer[r]
        /\ pc'[r] = "reply" /\ (user'[r] \in ById(a) \/ ById(a) = {})
    BY <1>17 DEF GetUser, Goto, TypeOK
  <2>2. user'[r] \in profiles' /\ user'[r].id = a
    BY <1>1, <1>2, <2>1 DEF Recorded, ById, Grow
  <2> QED BY <1>2, <1>3, <1>4, <1>5, <1>7, <1>17, <2>1, <2>2 DEF GetUser, Goto, TypeOK
<1>18. ASSUME Reply(r) PROVE Flow(r)' /\ Answered(r)'
  <2>1. /\ pc[r] = "reply" /\ knownEmail' = knownEmail /\ user' = user
        /\ pc'[r] = "done" /\ answer'[r] = "200"
    BY <1>18 DEF Reply, Finish, TypeOK
  <2>2. user'[r] \in profiles' /\ user'[r].id = a
    BY <1>1, <1>2, <2>1 DEF Grow
  <2>3. Recorded(a)'
    BY <1>3, <2>2 DEF Recorded, ById
  <2> QED BY <1>2, <1>3, <1>5, <2>1, <2>2, <2>3
<1>19. ASSUME CallFails(r) PROVE Flow(r)' /\ Answered(r)'
  <2>1. /\ pc[r] # "idle" /\ knownEmail' = knownEmail /\ user' = user
        /\ pc'[r] = "done" /\ answer'[r] = "500 fault"
    BY <1>19 DEF CallFails, InFlight, Finish, TypeOK
  <2> QED BY <1>2, <1>3, <1>5, <2>1
<1>20. ASSUME Interrupted(r) PROVE Flow(r)' /\ Answered(r)'
  <2>1. /\ pc[r] # "idle" /\ knownEmail' = knownEmail /\ user' = user
        /\ pc'[r] = "lost" /\ answer'[r] = answer[r]
    BY <1>20 DEF Interrupted, InFlight, Goto, TypeOK
  <2> QED BY <1>1, <1>2, <1>3, <1>4, <1>5, <1>7, <2>1 DEF Grow
<1> QED
  BY <1>10, <1>11, <1>12, <1>13, <1>14, <1>15, <1>16, <1>17, <1>18, <1>19, <1>20 DEF Moves, Step

\* Every step keeps the invariant.
LEMMA FlowStep ==
  ASSUME TypeOK, FlowInv, [Next]_vars
  PROVE  FlowInv'
<1>1. Grow
  BY StoresGrow
<1>2. ASSUME NEW r \in Request, Moves(r) PROVE FlowInv'
  <2>1. \A q \in Request : Flow(q)' /\ Answered(q)'
    BY <1>1, <1>2, OneMoves, FlowFrame, FlowOwn DEF FlowInv
  <2>2. SessionInv'
    <3>1. ASSUME NEW b \in sessions' PROVE Recorded(b)' /\ accounts'[b] = "confirmed"
      <4>1. b \in sessions \/ (b = AccountOf(r) /\ Reply(r))
        BY <1>2, <3>1 DEF Moves, Step, Receive, Authenticate, Lookup, SignUp, CheckEmail,
             InsertProfile, RefreshSession, GetUser, Reply, CallFails, Interrupted
      <4>2. CASE b \in sessions
        <5>1. b \in Address /\ Recorded(b) /\ accounts[b] = "confirmed"
          BY <4>2 DEF FlowInv, SessionInv, TypeOK
        <5> QED BY <1>1, <5>1, RecordsStay DEF Grow
      <4>3. CASE b = AccountOf(r) /\ Reply(r)
        BY <4>3 DEF FlowInv, Flow, Reply, Recorded, ById
      <4> QED BY <4>1, <4>2, <4>3
    <3> QED BY <3>1 DEF SessionInv
  <2> QED BY <1>2, <2>1, <2>2, StoredBelongs DEF FlowInv
<1>3. ASSUME UNCHANGED <<input, pc, answer, user, profiles, sessions, knownEmail>> PROVE FlowInv'
  <2>1. \A q \in Request : Flow(q)' /\ Answered(q)'
    BY <1>1, <1>3, FlowFrame DEF FlowInv, Own
  <2>2. SessionInv'
    BY <1>1, <1>3 DEF FlowInv, SessionInv, Recorded, ById, Grow, TypeOK
  <2>3. ProfileBelongsToAccount'
    BY <1>1, <1>3 DEF FlowInv, ProfileBelongsToAccount, Grow, TypeOK, Profile
  <2> QED BY <2>1, <2>2, <2>3 DEF FlowInv
<1> QED BY <1>2, <1>3 DEF Next, Moves, Confirm, vars

LEMMA FlowCorrect == Spec => []FlowInv
<1>1. Init => FlowInv
  BY DEF Init, FlowInv, ProfileBelongsToAccount, SessionInv, Flow, Answered
<1> QED BY <1>1, FlowStep, TypeCorrect, PTL DEF Spec

-----------------------------------------------------------------------------
(* The properties.                                                          *)

\* Every profile belongs to an account the provider knows, the one its email
\* leads to, whatever calls fail and however requests interleave.
THEOREM ProfilesBelongToAccounts == Spec => []ProfileBelongsToAccount
<1>1. FlowInv => ProfileBelongsToAccount
  BY DEF FlowInv
<1> QED BY <1>1, FlowCorrect, PTL

\* A success carries the stored profile of the account of its session, and the
\* account is confirmed (service.py of auth, execute_login_flow and
\* execute_refresh_flow).
THEOREM SuccessesCarryProfiles == Spec => []SuccessCarriesOwnProfile
<1>1. FlowInv => SuccessCarriesOwnProfile
  BY DEF FlowInv, SessionInv, Answered, SuccessCarriesOwnProfile
<1> QED BY <1>1, FlowCorrect, PTL

\* A login that passed the provider, no call failing, leaves a profile.
THEOREM LoginsLeaveProfiles == Spec => []LoginLeavesProfile
<1>1. FlowInv => LoginLeavesProfile
  BY DEF FlowInv, Answered, LoginLeavesProfile, Recorded
<1> QED BY <1>1, FlowCorrect, PTL

\* Once the typed email is on record, a login meets none of the errors of
\* profile creation.
THEOREM KnownEmailsLogIn == Spec => []KnownEmailLogsIn
<1>1. FlowInv => KnownEmailLogsIn
  BY DEF FlowInv, Answered, KnownEmailLogsIn
<1> QED BY <1>1, FlowCorrect, PTL
=============================================================================
