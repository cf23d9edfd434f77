-------------------------- MODULE WorkspacesProofs --------------------------
(* Theorems about Workspaces, for every set of requests, users and bodies.  *)
EXTENDS Workspaces, TLAPS

-----------------------------------------------------------------------------
(* The rows a request writes have the types of their tables.                *)

\* What the body of a request is made of.
LEMMA InputTyped ==
  ASSUME TypeOK, NEW r \in Request
  PROVE  /\ input[r].user \in User /\ input[r].name \in Name /\ input[r].base \in Base
         /\ input[r].kind \in Kind /\ input[r].app_ids \in Seq(App)
<1>1. input[r] \in InputType
  BY InputAssumption DEF TypeOK
<1> QED BY <1>1 DEF InputType

\* The rows of a request belong to their tables, its folder to the bucket.
LEMMA RowsTyped ==
  ASSUME TypeOK, NEW r \in Request
  PROVE  /\ WorkspaceRow(r) \in WorkspaceRows
         /\ MembershipRow(r) \in MembershipRows
         /\ AppRows(r) \subseteq AppRowsType
         /\ StoragePath(r) \in Request \X User
         /\ RootRow(r) \in FileRows
<1>1. WorkspaceSlug(r) \in Slug
  BY InputTyped, PrefixAssumption DEF WorkspaceSlug, Slug, Range
<1>2. WorkspaceRow(r) \in WorkspaceRows
  BY <1>1, InputTyped DEF WorkspaceRow, WorkspaceRows
<1>3. MembershipRow(r) \in MembershipRows
  BY InputTyped DEF MembershipRow, MembershipRows
<1>4. Range(input[r].app_ids) \subseteq App
  BY InputTyped DEF Range
<1>5. AppRows(r) \subseteq AppRowsType
  BY <1>4 DEF AppRows, AppRowsType
<1>6. StoragePath(r) \in Request \X User
  BY InputTyped DEF StoragePath
<1>7. RootRow(r) \in FileRows
  BY <1>6, InputTyped DEF RootRow, FileRows
<1> QED BY <1>2, <1>3, <1>5, <1>6, <1>7

-----------------------------------------------------------------------------
(* Type correctness.                                                        *)

\* A refused or answered request keeps pc, answer and tx well-typed.
LEMMA RaiseTyped ==
  ASSUME TypeOK, NEW r \in Request, NEW status \in Answer, Raise(r, status)
  PROVE  pc' \in [Request -> PC] /\ answer' \in [Request -> Answer] /\ tx' \in [Request -> TxType]
<1>1. NoTx \in TxType
  BY DEF NoTx, TxType
<1> QED BY <1>1 DEF TypeOK, Raise, PC

\* So does a request that goes on to a statement.
LEMMA GotoTyped ==
  ASSUME TypeOK, NEW r \in Request, NEW label \in PC, Goto(r, label)
  PROVE  pc' \in [Request -> PC] /\ answer' \in [Request -> Answer]
BY DEF TypeOK, Goto

\* So does a transaction buffer that is replaced by a well-typed one.
LEMMA StageTyped ==
  ASSUME TypeOK, NEW r \in Request, NEW b \in TxType, tx' = [tx EXCEPT ![r] = b]
  PROVE  tx' \in [Request -> TxType]
BY DEF TypeOK

\* Staging rows of its own keeps the buffer of a request well-typed.
LEMMA BuffersTyped ==
  ASSUME TypeOK, NEW r \in Request
  PROVE  /\ [tx[r] EXCEPT !.workspaces = {WorkspaceRow(r)}] \in TxType
         /\ [tx[r] EXCEPT !.memberships = {MembershipRow(r)}] \in TxType
         /\ [tx[r] EXCEPT !.apps = AppRows(r)] \in TxType
         /\ [tx[r] EXCEPT !.files = {RootRow(r)}] \in TxType
         /\ [tx[r] EXCEPT !.stamps = {input[r].user}] \in TxType
<1>1. tx[r] \in TxType
  BY DEF TypeOK
<1>2. /\ {WorkspaceRow(r)} \subseteq WorkspaceRows /\ {MembershipRow(r)} \subseteq MembershipRows
      /\ AppRows(r) \subseteq AppRowsType /\ {RootRow(r)} \subseteq FileRows
      /\ {input[r].user} \subseteq User
  BY RowsTyped, InputTyped
<1> QED BY <1>1, <1>2 DEF TxType

\* Every step keeps the state well-typed.
LEMMA TypeStep ==
  ASSUME TypeOK, [Next]_vars
  PROVE  TypeOK'
<1> USE DEF TypeOK
<1> SUFFICES ASSUME Next PROVE TypeOK'
  BY DEF vars, db
<1>1. ASSUME NEW r \in Request, Receive(r) PROVE TypeOK'
  <2>1. pc' \in [Request -> PC] /\ answer' \in [Request -> Answer]
    BY <1>1, GotoTyped DEF Receive, PC
  <2>2. late' \in [Request -> {"no", "arrival", "upload"}]
    BY <1>1 DEF Receive
  <2> QED BY <1>1, <2>1, <2>2 DEF Receive, db
<1>2. ASSUME NEW r \in Request, CheckOwner(r) PROVE TypeOK'
  <2>1. "409" \in Answer /\ "name" \in PC /\ "preName" \in PC
    BY DEF Answer, PC
  <2>2. /\ pc' \in [Request -> PC] /\ answer' \in [Request -> Answer]
        /\ tx' \in [Request -> TxType]
    <3>1. CASE OwnsWorkspace(input[r].user)
      BY <1>2, <2>1, <3>1, RaiseTyped DEF CheckOwner
    <3>2. CASE ~OwnsWorkspace(input[r].user)
      BY <1>2, <2>1, <3>2, GotoTyped DEF CheckOwner
    <3> QED BY <3>1, <3>2
  <2> QED BY <1>2, <2>2 DEF CheckOwner, db
<1>3. ASSUME NEW r \in Request, CheckName(r) PROVE TypeOK'
  <2>1. "409" \in Answer
    BY DEF Answer
  <2>2. AfterName(r) \in PC
    BY <1>3, InputTyped DEF CheckName, AfterName, PC, Kind
  <2>3. /\ pc' \in [Request -> PC] /\ answer' \in [Request -> Answer]
        /\ tx' \in [Request -> TxType]
    <3>1. CASE HasWorkspaceNamed(input[r].user, input[r].name)
      BY <1>3, <2>1, <3>1, RaiseTyped DEF CheckName
    <3>2. CASE ~HasWorkspaceNamed(input[r].user, input[r].name)
      BY <1>3, <2>2, <3>2, GotoTyped DEF CheckName
    <3> QED BY <3>1, <3>2
  <2> QED BY <1>3, <2>3 DEF CheckName, db
<1>4. ASSUME NEW r \in Request, Provision(r) PROVE TypeOK'
  <2>1. "502" \in Answer /\ "owner" \in PC
    BY DEF Answer, PC
  <2>2. folders' \subseteq Request \X User
    BY <1>4, RowsTyped DEF Provision
  <2>3. /\ pc' \in [Request -> PC] /\ answer' \in [Request -> Answer]
        /\ tx' \in [Request -> TxType]
    BY <1>4, <2>1, RaiseTyped, GotoTyped DEF Provision
  <2>4. late' \in [Request -> {"no", "arrival", "upload"}]
    BY <1>4 DEF Provision
  <2> QED BY <1>4, <2>2, <2>3, <2>4 DEF Provision, db
<1>5. ASSUME NEW r \in Request, InsertWorkspace(r) PROVE TypeOK'
  <2>1. "409" \in Answer /\ "500" \in Answer /\ "insertMembership" \in PC
    BY DEF Answer, PC
  <2>2. workspaces' \subseteq WorkspaceRows
    BY <1>5, RowsTyped DEF InsertWorkspace
  <2>3. /\ pc' \in [Request -> PC] /\ answer' \in [Request -> Answer]
        /\ tx' \in [Request -> TxType]
    BY <1>5, <2>1, RaiseTyped, GotoTyped DEF InsertWorkspace
  <2> QED BY <1>5, <2>2, <2>3 DEF InsertWorkspace
<1>6. ASSUME NEW r \in Request, InsertMembership(r) PROVE TypeOK'
  <2>1. pc' \in [Request -> PC] /\ answer' \in [Request -> Answer]
    BY <1>6, GotoTyped DEF InsertMembership, PC
  <2> QED BY <1>6, <2>1, RowsTyped DEF InsertMembership
<1>7. ASSUME NEW r \in Request, TxInsertWorkspace(r) PROVE TypeOK'
  <2>1. "409" \in Answer /\ "500" \in Answer /\ "txMembership" \in PC
    BY DEF Answer, PC
  <2>2. ASSUME tx' = [tx EXCEPT ![r].workspaces = {WorkspaceRow(r)}]
        PROVE  tx' \in [Request -> TxType]
    BY <2>2, BuffersTyped, StageTyped
  <2>3. /\ pc' \in [Request -> PC] /\ answer' \in [Request -> Answer]
        /\ tx' \in [Request -> TxType]
    BY <1>7, <2>1, <2>2, RaiseTyped, GotoTyped DEF TxInsertWorkspace
  <2> QED BY <1>7, <2>3 DEF TxInsertWorkspace, db
<1>8. ASSUME NEW r \in Request, TxInsertMembership(r) PROVE TypeOK'
  <2>1. tx' \in [Request -> TxType]
    BY <1>8, BuffersTyped, StageTyped DEF TxInsertMembership
  <2>2. pc' \in [Request -> PC] /\ answer' \in [Request -> Answer]
    BY <1>8, GotoTyped DEF TxInsertMembership, PC
  <2> QED BY <1>8, <2>1, <2>2 DEF TxInsertMembership, db
<1>9. ASSUME NEW r \in Request, TxInsertApps(r) PROVE TypeOK'
  <2>1. "422" \in Answer /\ "500" \in Answer /\ "txRoot" \in PC
    BY DEF Answer, PC
  <2>2. ASSUME tx' = [tx EXCEPT ![r].apps = AppRows(r)]
        PROVE  tx' \in [Request -> TxType]
    BY <2>2, BuffersTyped, StageTyped
  <2>3. /\ pc' \in [Request -> PC] /\ answer' \in [Request -> Answer]
        /\ tx' \in [Request -> TxType]
    BY <1>9, <2>1, <2>2, RaiseTyped, GotoTyped DEF TxInsertApps
  <2> QED BY <1>9, <2>3 DEF TxInsertApps, db
<1>10. ASSUME NEW r \in Request, TxInsertRoot(r) PROVE TypeOK'
  <2>1. tx' \in [Request -> TxType]
    BY <1>10, BuffersTyped, StageTyped DEF TxInsertRoot
  <2>2. pc' \in [Request -> PC] /\ answer' \in [Request -> Answer]
    BY <1>10, GotoTyped DEF TxInsertRoot, PC
  <2> QED BY <1>10, <2>1, <2>2 DEF TxInsertRoot, db
<1>11. ASSUME NEW r \in Request, TxCompleteOnboarding(r) PROVE TypeOK'
  <2>1. tx' \in [Request -> TxType]
    BY <1>11, BuffersTyped, StageTyped DEF TxCompleteOnboarding
  <2>2. pc' \in [Request -> PC] /\ answer' \in [Request -> Answer]
    BY <1>11, GotoTyped DEF TxCompleteOnboarding, PC
  <2> QED BY <1>11, <2>1, <2>2 DEF TxCompleteOnboarding, db
<1>12. ASSUME NEW r \in Request, Commit(r) PROVE TypeOK'
  <2>1. tx[r] \in TxType /\ NoTx \in TxType
    BY DEF TxType, NoTx
  <2>2. /\ workspaces' \subseteq WorkspaceRows /\ memberships' \subseteq MembershipRows
        /\ workspace_apps' \subseteq AppRowsType /\ files' \subseteq FileRows
    BY <1>12, <2>1 DEF Commit, TxType
  <2>3. onboarded' \in [User -> Request \cup {Never}] /\ tx' \in [Request -> TxType]
    BY <1>12, <2>1 DEF Commit
  <2>4. pc' \in [Request -> PC] /\ answer' \in [Request -> Answer]
    BY <1>12, GotoTyped DEF Commit, PC
  <2> QED BY <1>12, <2>2, <2>3, <2>4 DEF Commit
<1>13. ASSUME NEW r \in Request, Reply(r) PROVE TypeOK'
  BY <1>13, RaiseTyped DEF Reply, Answer, db
<1>14. ASSUME NEW r \in Request, StatementFails(r) PROVE TypeOK'
  BY <1>14, RaiseTyped DEF StatementFails, Answer, db
<1>15. ASSUME NEW r \in Request, Interrupted(r) PROVE TypeOK'
  <2>1. NoTx \in TxType
    BY DEF NoTx, TxType
  <2> QED BY <1>15, <2>1 DEF Interrupted, PC, db
<1>16. ASSUME NEW w \in workspaces, NEW u \in User, Invite(w, u) PROVE TypeOK'
  <2>1. memberships' \subseteq MembershipRows
    BY <1>16 DEF Invite, MembershipRows, WorkspaceRows
  <2> QED BY <1>16, <2>1 DEF Invite
<1> QED
  BY <1>1, <1>2, <1>3, <1>4, <1>5, <1>6, <1>7, <1>8, <1>9, <1>10, <1>11, <1>12, <1>13,
     <1>14, <1>15, <1>16 DEF Next, Step

\* Every reachable state is well-typed.
THEOREM TypeCorrect == Spec => []TypeOK
<1>1. Init => TypeOK
  BY DEF Init, TypeOK, PC, Answer, NoTx, TxType
<1> QED BY <1>1, TypeStep, PTL DEF Spec

-----------------------------------------------------------------------------
(* The control invariant: which endpoint a label belongs to, and what the   *)
(* transaction holds at each label.                                         *)

HoldsWorkspace  == {"txMembership", "txApps", "txRoot", "txOnboarding", "commit"}
HoldsMembership == {"txApps", "txRoot", "txOnboarding", "commit"}
HoldsApps       == {"txRoot", "txOnboarding", "commit"}
HoldsRoot       == {"txOnboarding", "commit"}

LabelOfKind(r) ==
  /\ pc[r] \in {"preOwner", "preName", "provision"} \cup InTransaction => input[r].kind = "onboarding"
  /\ pc[r] \in {"insertWorkspace", "insertMembership"} => input[r].kind = "plain"

Staged(r) ==
  /\ tx[r].workspaces = IF pc[r] \in HoldsWorkspace THEN {WorkspaceRow(r)} ELSE {}
  /\ tx[r].memberships = IF pc[r] \in HoldsMembership THEN {MembershipRow(r)} ELSE {}
  /\ tx[r].apps = IF pc[r] \in HoldsApps THEN AppRows(r) ELSE {}
  /\ tx[r].files = IF pc[r] \in HoldsRoot THEN {RootRow(r)} ELSE {}
  /\ tx[r].stamps \subseteq IF pc[r] = "commit" THEN {input[r].user} ELSE {}

ControlInv == TypeOK /\ \A r \in Request : LabelOfKind(r) /\ Staged(r)

\* The rows of a request never change, for its body does not.
LEMMA SameRows ==
  ASSUME input' = input, NEW r \in Request
  PROVE  /\ WorkspaceRow(r)' = WorkspaceRow(r) /\ MembershipRow(r)' = MembershipRow(r)
         /\ AppRows(r)' = AppRows(r) /\ RootRow(r)' = RootRow(r)
         /\ StoragePath(r)' = StoragePath(r) /\ WorkspaceSlug(r)' = WorkspaceSlug(r)
BY DEF WorkspaceRow, MembershipRow, AppRows, RootRow, StoragePath, WorkspaceSlug

\* A step of another request leaves the label and the buffer of q alone.
LEMMA ControlFrame ==
  ASSUME NEW q \in Request, LabelOfKind(q), Staged(q),
         input' = input, pc'[q] = pc[q], tx'[q] = tx[q]
  PROVE  LabelOfKind(q)' /\ Staged(q)'
BY SameRows DEF LabelOfKind, Staged

\* A request that leaves the transaction holds nothing.
LEMMA ControlFinished ==
  ASSUME NEW r \in Request, input' = input, tx'[r] = NoTx,
         pc'[r] \in {"reply", "done", "lost"}
  PROVE  LabelOfKind(r)' /\ Staged(r)'
BY DEF LabelOfKind, Staged, NoTx, InTransaction, HoldsWorkspace, HoldsMembership, HoldsApps, HoldsRoot

\* Outside the transaction the buffer is empty, before and after.
LEMMA ControlOutside ==
  ASSUME NEW r \in Request, Staged(r), input' = input, tx'[r] = tx[r],
         pc[r] \notin InTransaction \/ pc[r] = "txWorkspace",
         pc'[r] \notin InTransaction \/ pc'[r] = "txWorkspace",
         LabelOfKind(r)'
  PROVE  LabelOfKind(r)' /\ Staged(r)'
BY DEF Staged, InTransaction, HoldsWorkspace, HoldsMembership, HoldsApps, HoldsRoot

\* Only one request at a time moves; the body of none ever changes.
LEMMA OneMoves ==
  ASSUME TypeOK, NEW r \in Request, Receive(r) \/ Step(r) \/ StatementFails(r) \/ Interrupted(r)
  PROVE  /\ input' = input
         /\ \A q \in Request \ {r} : pc'[q] = pc[q] /\ tx'[q] = tx[q] /\ answer'[q] = answer[q]
<1> USE DEF TypeOK, Goto, Raise
<1>1. CASE Receive(r)
  BY <1>1 DEF Receive
<1>2. CASE CheckOwner(r)
  BY <1>2 DEF CheckOwner
<1>3. CASE CheckName(r)
  BY <1>3 DEF CheckName
<1>4. CASE Provision(r)
  BY <1>4 DEF Provision
<1>5. CASE InsertWorkspace(r)
  BY <1>5 DEF InsertWorkspace
<1>6. CASE InsertMembership(r)
  BY <1>6 DEF InsertMembership
<1>7. CASE TxInsertWorkspace(r)
  BY <1>7 DEF TxInsertWorkspace
<1>8. CASE TxInsertMembership(r)
  BY <1>8 DEF TxInsertMembership
<1>9. CASE TxInsertApps(r)
  BY <1>9 DEF TxInsertApps
<1>10. CASE TxInsertRoot(r)
  BY <1>10 DEF TxInsertRoot
<1>11. CASE TxCompleteOnboarding(r)
  BY <1>11 DEF TxCompleteOnboarding
<1>12. CASE Commit(r)
  BY <1>12 DEF Commit
<1>13. CASE Reply(r)
  BY <1>13 DEF Reply
<1>14. CASE StatementFails(r)
  BY <1>14 DEF StatementFails
<1>15. CASE Interrupted(r)
  BY <1>15 DEF Interrupted
<1> QED
  BY <1>1, <1>2, <1>3, <1>4, <1>5, <1>6, <1>7, <1>8, <1>9, <1>10, <1>11, <1>12, <1>13,
     <1>14, <1>15 DEF Step

\* The step a request takes keeps its own label and buffer in agreement.
LEMMA ControlOwn ==
  ASSUME ControlInv, NEW r \in Request,
         Receive(r) \/ Step(r) \/ StatementFails(r) \/ Interrupted(r)
  PROVE  LabelOfKind(r)' /\ Staged(r)'
<1> USE DEF TypeOK
<1>0. TypeOK /\ LabelOfKind(r) /\ Staged(r) /\ input' = input /\ input[r].kind \in Kind
  BY OneMoves, InputTyped DEF ControlInv
<1>a. ASSUME NEW status, Raise(r, status) PROVE LabelOfKind(r)' /\ Staged(r)'
  BY <1>0, <1>a, ControlFinished DEF Raise
<1>1. CASE Receive(r)
  <2>1. LabelOfKind(r)'
    BY <1>0, <1>1 DEF Receive, Goto, LabelOfKind, InTransaction
  <2> QED BY <1>0, <1>1, <2>1, ControlOutside DEF Receive, Goto, InTransaction
<1>2. CASE CheckOwner(r)
  <2>1. CASE Raise(r, "409")
    BY <2>1, <1>a
  <2>2. CASE ~Raise(r, "409")
    <3>1. LabelOfKind(r)'
      BY <1>0, <1>2, <2>2 DEF CheckOwner, Goto, LabelOfKind, InTransaction
    <3> QED BY <1>0, <1>2, <2>2, <3>1, ControlOutside DEF CheckOwner, Goto, InTransaction
  <2> QED BY <2>1, <2>2
<1>3. CASE CheckName(r)
  <2>1. CASE Raise(r, "409")
    BY <2>1, <1>a
  <2>2. CASE ~Raise(r, "409")
    <3>1. LabelOfKind(r)'
      BY <1>0, <1>3, <2>2 DEF CheckName, AfterName, Goto, LabelOfKind, InTransaction, Kind
    <3>2. pc'[r] \notin InTransaction \/ pc'[r] = "txWorkspace"
      BY <1>0, <1>3, <2>2 DEF CheckName, AfterName, Goto, InTransaction, Kind
    <3> QED BY <1>0, <1>3, <2>2, <3>1, <3>2, ControlOutside DEF CheckName, InTransaction
  <2> QED BY <2>1, <2>2
<1>4. CASE Provision(r)
  <2>1. CASE Raise(r, "502")
    BY <2>1, <1>a
  <2>2. CASE ~Raise(r, "502")
    <3>1. LabelOfKind(r)'
      BY <1>0, <1>4, <2>2 DEF Provision, Goto, LabelOfKind, InTransaction
    <3> QED BY <1>0, <1>4, <2>2, <3>1, ControlOutside DEF Provision, Goto, InTransaction
  <2> QED BY <2>1, <2>2
<1>5. CASE InsertWorkspace(r)
  <2>1. CASE \E status \in {"409", "500"} : Raise(r, status)
    BY <2>1, <1>a
  <2>2. CASE ~\E status \in {"409", "500"} : Raise(r, status)
    <3>1. LabelOfKind(r)'
      BY <1>0, <1>5, <2>2 DEF InsertWorkspace, Goto, LabelOfKind, InTransaction
    <3> QED BY <1>0, <1>5, <2>2, <3>1, ControlOutside DEF InsertWorkspace, Goto, InTransaction
  <2> QED BY <2>1, <2>2
<1>6. CASE InsertMembership(r)
  <2>1. LabelOfKind(r)'
    BY <1>0, <1>6 DEF InsertMembership, Goto, LabelOfKind, InTransaction
  <2> QED BY <1>0, <1>6, <2>1, ControlOutside DEF InsertMembership, Goto, InTransaction
<1>7. CASE TxInsertWorkspace(r)
  <2>1. CASE \E status \in {"409", "500"} : Raise(r, status)
    BY <2>1, <1>a
  <2>2. CASE ~\E status \in {"409", "500"} : Raise(r, status)
    <3>1. LabelOfKind(r)'
      BY <1>0, <1>7, <2>2 DEF TxInsertWorkspace, Goto, LabelOfKind, InTransaction
    <3>2. /\ tx'[r] = [tx[r] EXCEPT !.workspaces = {WorkspaceRow(r)}]
          /\ pc[r] = "txWorkspace" /\ pc'[r] = "txMembership"
      BY <1>0, <1>7, <2>2 DEF TxInsertWorkspace, Goto
    <3>3. tx[r] \in TxType
      BY <1>0
    <3>4. Staged(r)'
      BY <1>0, <3>2, <3>3, SameRows DEF Staged, TxType,
         HoldsWorkspace, HoldsMembership, HoldsApps, HoldsRoot
    <3> QED BY <3>1, <3>4
  <2> QED BY <2>1, <2>2
<1>8. CASE TxInsertMembership(r)
  <2>1. LabelOfKind(r)'
    BY <1>0, <1>8 DEF TxInsertMembership, Goto, LabelOfKind, InTransaction
  <2>2. input[r].app_ids = << >> => AppRows(r) = {}
    BY DEF AppRows, Range
  <2>3. Staged(r)'
    BY <1>0, <1>8, <2>2, SameRows DEF TxInsertMembership, Goto, Staged, TxType,
       HoldsWorkspace, HoldsMembership, HoldsApps, HoldsRoot
  <2> QED BY <2>1, <2>3
<1>9. CASE TxInsertApps(r)
  <2>1. CASE \E status \in {"422", "500"} : Raise(r, status)
    BY <2>1, <1>a
  <2>2. CASE ~\E status \in {"422", "500"} : Raise(r, status)
    <3>1. LabelOfKind(r)'
      BY <1>0, <1>9, <2>2 DEF TxInsertApps, Goto, LabelOfKind, InTransaction
    <3>2. /\ tx'[r] = [tx[r] EXCEPT !.apps = AppRows(r)]
          /\ pc[r] = "txApps" /\ pc'[r] = "txRoot"
      BY <1>0, <1>9, <2>2 DEF TxInsertApps, Goto
    <3>3. tx[r] \in TxType
      BY <1>0
    <3>4. Staged(r)'
      BY <1>0, <3>2, <3>3, SameRows DEF Staged, TxType,
         HoldsWorkspace, HoldsMembership, HoldsApps, HoldsRoot
    <3> QED BY <3>1, <3>4
  <2> QED BY <2>1, <2>2
<1>10. CASE TxInsertRoot(r)
  <2>1. LabelOfKind(r)'
    BY <1>0, <1>10 DEF TxInsertRoot, Goto, LabelOfKind, InTransaction
  <2>2. Staged(r)'
    BY <1>0, <1>10, SameRows DEF TxInsertRoot, Goto, Staged, TxType,
       HoldsWorkspace, HoldsMembership, HoldsApps, HoldsRoot
  <2> QED BY <2>1, <2>2
<1>11. CASE TxCompleteOnboarding(r)
  <2>1. LabelOfKind(r)'
    BY <1>0, <1>11 DEF TxCompleteOnboarding, Goto, LabelOfKind, InTransaction
  <2>2. Staged(r)'
    BY <1>0, <1>11, SameRows DEF TxCompleteOnboarding, Goto, Staged, TxType,
       HoldsWorkspace, HoldsMembership, HoldsApps, HoldsRoot
  <2> QED BY <2>1, <2>2
<1>12. CASE Commit(r)
  BY <1>0, <1>12, ControlFinished DEF Commit, Goto
<1>13. CASE Reply(r)
  BY <1>13, <1>a DEF Reply
<1>14. CASE StatementFails(r)
  BY <1>14, <1>a DEF StatementFails
<1>15. CASE Interrupted(r)
  BY <1>0, <1>15, ControlFinished DEF Interrupted
<1> QED
  BY <1>1, <1>2, <1>3, <1>4, <1>5, <1>6, <1>7, <1>8, <1>9, <1>10, <1>11, <1>12, <1>13,
     <1>14, <1>15 DEF Step

\* The control invariant is inductive.
LEMMA ControlStep ==
  ASSUME ControlInv, [Next]_vars
  PROVE  ControlInv'
<1>1. TypeOK /\ TypeOK'
  BY TypeStep DEF ControlInv
<1>2. ASSUME NEW q \in Request PROVE LabelOfKind(q)' /\ Staged(q)'
  <2>0. LabelOfKind(q) /\ Staged(q)
    BY DEF ControlInv
  <2>1. ASSUME NEW r \in Request, Receive(r) \/ Step(r) \/ StatementFails(r) \/ Interrupted(r)
        PROVE  LabelOfKind(q)' /\ Staged(q)'
    <3>1. CASE q = r
      BY <2>1, <3>1, ControlOwn
    <3>2. CASE q # r
      BY <1>1, <2>0, <2>1, <3>2, OneMoves, ControlFrame
    <3> QED BY <3>1, <3>2
  <2>2. ASSUME NEW w \in workspaces, NEW u \in User, Invite(w, u)
        PROVE  LabelOfKind(q)' /\ Staged(q)'
    BY <2>0, <2>2, ControlFrame DEF Invite
  <2>3. CASE UNCHANGED vars
    BY <2>0, <2>3, ControlFrame DEF vars
  <2> QED BY <2>1, <2>2, <2>3 DEF Next
<1> QED BY <1>1, <1>2 DEF ControlInv

\* In every reachable state labels, endpoints and buffers agree.
THEOREM ControlCorrect == Spec => []ControlInv
<1>1. Init => ControlInv
  <2>1. Init => TypeOK
    BY DEF Init, TypeOK, PC, Answer, NoTx, TxType
  <2> QED BY <2>1 DEF Init, ControlInv, LabelOfKind, Staged, NoTx, InTransaction,
             HoldsWorkspace, HoldsMembership, HoldsApps, HoldsRoot
<1> QED BY <1>1, ControlStep, PTL DEF Spec

-----------------------------------------------------------------------------
(* What a step can do to the database and to the bucket.                    *)

MayMove(r) == Receive(r) \/ Step(r) \/ StatementFails(r) \/ Interrupted(r)

WritesRows == {"insertWorkspace", "insertMembership", "commit"}

\* A request writes rows of its own, and only at the two INSERTs of the plain
\* endpoint and at the COMMIT of the other.
LEMMA WritesOwn ==
  ASSUME ControlInv, NEW r \in Request, MayMove(r)
  PROVE  /\ workspaces \subseteq workspaces' /\ workspaces' \subseteq workspaces \cup {WorkspaceRow(r)}
         /\ memberships \subseteq memberships' /\ memberships' \subseteq memberships \cup {MembershipRow(r)}
         /\ workspace_apps \subseteq workspace_apps' /\ workspace_apps' \subseteq workspace_apps \cup AppRows(r)
         /\ files \subseteq files' /\ files' \subseteq files \cup {RootRow(r)}
         /\ folders \subseteq folders' /\ folders' \subseteq folders \cup {StoragePath(r)}
         /\ \A u \in User : onboarded'[u] \in {onboarded[u], r}
         /\ pc[r] \notin WritesRows => UNCHANGED db
         /\ pc[r] # "provision" => UNCHANGED folders
<1> USE DEF db, WritesRows
<1>0. Staged(r) /\ onboarded \in [User -> Request \cup {Never}]
  BY DEF ControlInv, TypeOK
<1>1. CASE Receive(r)
  BY <1>1 DEF Receive
<1>2. CASE CheckOwner(r)
  BY <1>2 DEF CheckOwner
<1>3. CASE CheckName(r)
  BY <1>3 DEF CheckName
<1>4. CASE Provision(r)
  BY <1>4 DEF Provision
<1>5. CASE InsertWorkspace(r)
  BY <1>5 DEF InsertWorkspace
<1>6. CASE InsertMembership(r)
  BY <1>6 DEF InsertMembership
<1>7. CASE TxInsertWorkspace(r)
  BY <1>7 DEF TxInsertWorkspace
<1>8. CASE TxInsertMembership(r)
  BY <1>8 DEF TxInsertMembership
<1>9. CASE TxInsertApps(r)
  BY <1>9 DEF TxInsertApps
<1>10. CASE TxInsertRoot(r)
  BY <1>10 DEF TxInsertRoot
<1>11. CASE TxCompleteOnboarding(r)
  BY <1>11 DEF TxCompleteOnboarding
<1>12. CASE Commit(r)
  <2>1. /\ tx[r].workspaces \subseteq {WorkspaceRow(r)} /\ tx[r].memberships \subseteq {MembershipRow(r)}
        /\ tx[r].apps \subseteq AppRows(r) /\ tx[r].files \subseteq {RootRow(r)}
    BY <1>0 DEF Staged
  <2> QED BY <1>12, <2>1 DEF Commit
<1>13. CASE Reply(r)
  BY <1>13 DEF Reply
<1>14. CASE StatementFails(r)
  BY <1>14 DEF StatementFails
<1>15. CASE Interrupted(r)
  BY <1>15 DEF Interrupted
<1> QED
  BY <1>1, <1>2, <1>3, <1>4, <1>5, <1>6, <1>7, <1>8, <1>9, <1>10, <1>11, <1>12, <1>13, <1>14,
     <1>15 DEF Step, MayMove

\* An invitation writes one membership, into a workspace that exists.
LEMMA InviteWrites ==
  ASSUME NEW w \in workspaces, NEW u \in User, Invite(w, u)
  PROVE  /\ memberships \subseteq memberships'
         /\ \A m \in memberships' : m \in memberships \/ m.workspace = w.id
         /\ UNCHANGED <<input, pc, answer, tx, workspaces, workspace_apps, files, onboarded,
                        folders, late>>
BY DEF Invite

\* Rows and folders stay, and so does the fact that a user is onboarded.
LEMMA RowsStay ==
  ASSUME ControlInv, [Next]_vars
  PROVE  /\ input' = input
         /\ workspaces \subseteq workspaces' /\ memberships \subseteq memberships'
         /\ workspace_apps \subseteq workspace_apps' /\ files \subseteq files'
         /\ folders \subseteq folders'
         /\ \A u \in User : onboarded[u] # Never => onboarded'[u] # Never
<1>1. ASSUME NEW r \in Request, MayMove(r)
      PROVE  /\ input' = input
             /\ workspaces \subseteq workspaces' /\ memberships \subseteq memberships'
             /\ workspace_apps \subseteq workspace_apps' /\ files \subseteq files'
             /\ folders \subseteq folders'
             /\ \A u \in User : onboarded[u] # Never => onboarded'[u] # Never
  <2>1. input' = input
    BY <1>1, OneMoves DEF MayMove, ControlInv
  <2> QED BY <1>1, <2>1, WritesOwn, NeverAssumption
<1>2. CASE \E w \in workspaces, u \in User : Invite(w, u)
  BY <1>2, InviteWrites
<1>3. CASE UNCHANGED vars
  BY <1>3 DEF vars, db
<1> QED BY <1>1, <1>2, <1>3 DEF Next, MayMove

\* What a request has published stays published.
LEMMA PublishedStays ==
  ASSUME ControlInv, [Next]_vars, NEW q \in Request, Published(q)
  PROVE  Published(q)'
<1>1. input[q].user \in User
  BY InputTyped DEF ControlInv
<1> QED BY <1>1, RowsStay, SameRows DEF Published

\* A step of another request writes nothing on behalf of q.
LEMMA UnwrittenFrame ==
  ASSUME ControlInv, NEW r \in Request, MayMove(r), NEW q \in Request, q # r, Unwritten(q)
  PROVE  Unwritten(q)'
<1>1. /\ WorkspaceRow(r).id = r /\ MembershipRow(r).workspace = r /\ RootRow(r).workspace = r
      /\ \A a \in AppRows(r) : a.workspace = r
  BY DEF WorkspaceRow, MembershipRow, RootRow, AppRows
<1> QED BY <1>1, WritesOwn DEF Unwritten

\* Nor does an invitation: nobody is invited to what does not exist.
LEMMA UnwrittenInvite ==
  ASSUME NEW w \in workspaces, NEW u \in User, Invite(w, u), NEW q \in Request, Unwritten(q)
  PROVE  Unwritten(q)'
BY InviteWrites DEF Unwritten

-----------------------------------------------------------------------------
(* Storage: the folder exists from the upload on.                           *)

PastUpload(r) == input[r].kind = "onboarding" /\ pc[r] \in {"owner", "name"} \cup InTransaction

FolderInv == FolderBacksRoot /\ \A r \in Request : PastUpload(r) => StoragePath(r) \in folders

\* Only a successful upload leads past the upload.
LEMMA UploadOrigin ==
  ASSUME ControlInv, NEW r \in Request, MayMove(r), PastUpload(r)'
  PROVE  PastUpload(r) \/ StoragePath(r) \in folders'
<1>0. TypeOK /\ LabelOfKind(r) /\ input' = input /\ input[r].kind \in Kind
  BY OneMoves, InputTyped DEF ControlInv, MayMove
<1> USE <1>0 DEF TypeOK, PastUpload, LabelOfKind, InTransaction, Goto, Raise, Kind
<1>1. CASE Receive(r)
  BY <1>1 DEF Receive
<1>2. CASE CheckOwner(r)
  BY <1>2 DEF CheckOwner
<1>3. CASE CheckName(r)
  BY <1>3 DEF CheckName, AfterName
<1>4. CASE Provision(r)
  BY <1>4 DEF Provision
<1>5. CASE InsertWorkspace(r)
  BY <1>5 DEF InsertWorkspace
<1>6. CASE InsertMembership(r)
  BY <1>6 DEF InsertMembership
<1>7. CASE TxInsertWorkspace(r)
  BY <1>7 DEF TxInsertWorkspace
<1>8. CASE TxInsertMembership(r)
  BY <1>8 DEF TxInsertMembership
<1>9. CASE TxInsertApps(r)
  BY <1>9 DEF TxInsertApps
<1>10. CASE TxInsertRoot(r)
  BY <1>10 DEF TxInsertRoot
<1>11. CASE TxCompleteOnboarding(r)
  BY <1>11 DEF TxCompleteOnboarding
<1>12. CASE Commit(r)
  BY <1>12 DEF Commit
<1>13. CASE Reply(r)
  BY <1>13 DEF Reply
<1>14. CASE StatementFails(r)
  BY <1>14 DEF StatementFails
<1>15. CASE Interrupted(r)
  BY <1>15 DEF Interrupted
<1> QED
  BY <1>1, <1>2, <1>3, <1>4, <1>5, <1>6, <1>7, <1>8, <1>9, <1>10, <1>11, <1>12, <1>13, <1>14,
     <1>15 DEF Step, MayMove

\* The storage invariant is inductive, given the control invariant.
LEMMA FolderStep ==
  ASSUME ControlInv, FolderInv, [Next]_vars
  PROVE  FolderInv'
<1>0. input' = input /\ folders \subseteq folders'
  BY RowsStay
<1>1. ASSUME NEW r \in Request, MayMove(r) PROVE FolderInv'
  <2>1. ASSUME NEW f \in files' PROVE f.path \in folders'
    <3>1. CASE f \in files
      BY <1>0, <3>1 DEF FolderInv, FolderBacksRoot
    <3>2. CASE f \notin files
      <4>1. f = RootRow(r) /\ pc[r] \in WritesRows
        BY <1>1, <3>2, WritesOwn DEF db
      <4>2. pc[r] = "commit"
        BY <1>1, <3>2, <4>1 DEF MayMove, WritesRows, Receive, Step, CheckOwner, CheckName,
           Provision, InsertWorkspace, InsertMembership, TxInsertWorkspace, TxInsertMembership,
           TxInsertApps, TxInsertRoot, TxCompleteOnboarding, Commit, Reply, StatementFails,
           Interrupted, db
      <4>3. PastUpload(r)
        BY <4>2 DEF ControlInv, LabelOfKind, PastUpload, InTransaction
      <4> QED BY <1>0, <4>1, <4>3 DEF FolderInv, RootRow
    <3> QED BY <3>1, <3>2
  <2>2. ASSUME NEW q \in Request, PastUpload(q)' PROVE StoragePath(q)' \in folders'
    <3>1. CASE q = r
      BY <1>0, <1>1, <2>2, <3>1, UploadOrigin, SameRows DEF FolderInv
    <3>2. CASE q # r
      <4>1. PastUpload(q)
        BY <1>0, <1>1, <2>2, <3>2, OneMoves DEF PastUpload, MayMove, ControlInv
      <4> QED BY <1>0, <4>1, SameRows DEF FolderInv
    <3> QED BY <3>1, <3>2
  <2> QED BY <2>1, <2>2 DEF FolderInv, FolderBacksRoot
<1>2. CASE \E w \in workspaces, u \in User : Invite(w, u)
  BY <1>2, InviteWrites, SameRows DEF FolderInv, FolderBacksRoot, PastUpload
<1>3. CASE UNCHANGED vars
  BY <1>3, SameRows DEF FolderInv, FolderBacksRoot, PastUpload, vars, db
<1> QED BY <1>1, <1>2, <1>3 DEF Next, MayMove

\* The database never names a folder the bucket does not hold.
THEOREM FoldersBackRoots == Spec => []FolderBacksRoot
<1>1. Init => FolderInv
  BY DEF Init, FolderInv, FolderBacksRoot, PastUpload, InTransaction
<1>2. FolderInv => FolderBacksRoot
  BY DEF FolderInv
<1> QED BY <1>1, <1>2, FolderStep, ControlCorrect, PTL DEF Spec

-----------------------------------------------------------------------------
(* The profile row: at most one transaction holds its update, and a         *)
(* transaction that is ready to commit without one found the column set.    *)

StampInv ==
  /\ \A r \in Request, u \in User : u \in tx[r].stamps => onboarded[u] = Never
  /\ \A r, q \in Request, u \in User : u \in tx[r].stamps /\ u \in tx[q].stamps => r = q
  /\ \A r \in Request : pc[r] = "commit" /\ tx[r].stamps = {} => onboarded[input[r].user] # Never

\* Only the onboarding UPDATE stages a stamp and leads to the COMMIT; only the
\* COMMIT stamps the profile row, with what is staged.
LEMMA StampMoves ==
  ASSUME ControlInv, NEW r \in Request, MayMove(r)
  PROVE  \/ TxCompleteOnboarding(r)
         \/ /\ tx'[r].stamps \subseteq tx[r].stamps /\ pc'[r] # "commit"
            /\ \/ UNCHANGED onboarded
               \/ /\ tx'[r].stamps = {}
                  /\ onboarded' = [u \in User |-> IF u \in tx[r].stamps THEN r ELSE onboarded[u]]
<1>0. TypeOK /\ input[r].kind \in Kind
  BY InputTyped DEF ControlInv
<1>a. NoTx.stamps = {}
  BY DEF NoTx
<1> USE <1>0, <1>a DEF TypeOK, Goto, Raise, db
<1>1. CASE Receive(r)
  BY <1>1 DEF Receive
<1>2. CASE CheckOwner(r)
  BY <1>2 DEF CheckOwner
<1>3. CASE CheckName(r)
  BY <1>3 DEF CheckName, AfterName, Kind
<1>4. CASE Provision(r)
  BY <1>4 DEF Provision
<1>5. CASE InsertWorkspace(r)
  BY <1>5 DEF InsertWorkspace
<1>6. CASE InsertMembership(r)
  BY <1>6 DEF InsertMembership
<1>7. CASE TxInsertWorkspace(r)
  BY <1>7 DEF TxInsertWorkspace, TxType
<1>8. CASE TxInsertMembership(r)
  <2>1. tx[r] \in TxType /\ tx'[r] = [tx[r] EXCEPT !.memberships = {MembershipRow(r)}]
    BY <1>8 DEF TxInsertMembership
  <2> QED BY <1>8, <2>1 DEF TxInsertMembership, TxType
<1>9. CASE TxInsertApps(r)
  BY <1>9 DEF TxInsertApps, TxType
<1>10. CASE TxInsertRoot(r)
  <2>1. tx[r] \in TxType /\ tx'[r] = [tx[r] EXCEPT !.files = {RootRow(r)}]
    BY <1>10 DEF TxInsertRoot
  <2> QED BY <1>10, <2>1 DEF TxInsertRoot, TxType
<1>11. CASE TxCompleteOnboarding(r)
  BY <1>11
<1>12. CASE Commit(r)
  BY <1>12 DEF Commit
<1>13. CASE Reply(r)
  BY <1>13 DEF Reply
<1>14. CASE StatementFails(r)
  BY <1>14 DEF StatementFails
<1>15. CASE Interrupted(r)
  BY <1>15 DEF Interrupted
<1> QED
  BY <1>1, <1>2, <1>3, <1>4, <1>5, <1>6, <1>7, <1>8, <1>9, <1>10, <1>11, <1>12, <1>13,
     <1>14, <1>15 DEF Step, MayMove

\* The stamp invariant is inductive, given the control invariant.
LEMMA StampStep ==
  ASSUME ControlInv, StampInv, [Next]_vars
  PROVE  StampInv'
<1>0. TypeOK /\ \A q \in Request : input[q].user \in User
  BY InputTyped DEF ControlInv
<1>1. ASSUME NEW r \in Request, TxCompleteOnboarding(r) PROVE StampInv'
  <2>1. /\ input' = input /\ onboarded' = onboarded
        /\ \A q \in Request \ {r} : tx'[q] = tx[q] /\ pc'[q] = pc[q]
    BY <1>1, OneMoves DEF ControlInv, Step, TxCompleteOnboarding, db
  <2>2. tx[r].stamps = {}
    BY <1>1 DEF ControlInv, Staged, TxCompleteOnboarding
  <2>3. \/ tx'[r].stamps = {} /\ onboarded[input[r].user] # Never
        \/ /\ tx'[r].stamps = {input[r].user} /\ onboarded[input[r].user] = Never
           /\ \A q \in Request \ {r} : input[r].user \notin tx[q].stamps
    BY <1>0, <1>1, <2>2 DEF TxCompleteOnboarding, ProfileLocked, TypeOK, TxType
  <2> QED BY <2>1, <2>3 DEF StampInv
<1>2. ASSUME NEW r \in Request, MayMove(r), ~TxCompleteOnboarding(r) PROVE StampInv'
  <2>1. /\ input' = input
        /\ \A q \in Request \ {r} : tx'[q] = tx[q] /\ pc'[q] = pc[q]
    BY <1>2, OneMoves DEF ControlInv, MayMove
  <2>2. /\ tx'[r].stamps \subseteq tx[r].stamps /\ pc'[r] # "commit"
        /\ \/ UNCHANGED onboarded
           \/ /\ tx'[r].stamps = {}
              /\ onboarded' = [u \in User |-> IF u \in tx[r].stamps THEN r ELSE onboarded[u]]
    BY <1>2, StampMoves
  <2>3. \A u \in User : onboarded[u] # Never => onboarded'[u] # Never
    BY RowsStay
  <2>4. \A q \in Request, u \in User : u \in tx'[q].stamps => onboarded'[u] = Never
    <3> SUFFICES ASSUME NEW q \in Request, NEW u \in User, u \in tx'[q].stamps
                 PROVE  onboarded'[u] = Never
      OBVIOUS
    <3>1. u \in tx[q].stamps /\ onboarded[u] = Never
      BY <2>1, <2>2 DEF StampInv
    <3>2. tx'[r].stamps = {} => u \notin tx[r].stamps
      BY <2>1, <3>1 DEF StampInv
    <3> QED BY <2>2, <3>1, <3>2
  <2>5. \A p, q \in Request, u \in User : u \in tx'[p].stamps /\ u \in tx'[q].stamps => p = q
    BY <2>1, <2>2 DEF StampInv
  <2>6. \A q \in Request : pc'[q] = "commit" /\ tx'[q].stamps = {} => onboarded'[input[q].user] # Never
    BY <1>0, <2>1, <2>2, <2>3 DEF StampInv
  <2> QED BY <2>1, <2>4, <2>5, <2>6 DEF StampInv
<1>3. CASE \E w \in workspaces, u \in User : Invite(w, u)
  BY <1>3, InviteWrites DEF StampInv
<1>4. CASE UNCHANGED vars
  BY <1>4 DEF StampInv, vars, db
<1> QED BY <1>1, <1>2, <1>3, <1>4 DEF Next, MayMove

\* In every reachable state the stamps are exclusive and fresh.
LEMMA StampCorrect == Spec => []StampInv
<1>1. Init => StampInv
  BY DEF Init, StampInv, NoTx
<1> QED BY <1>1, StampStep, ControlCorrect, PTL DEF Spec

\* A step leaves a stamped profile row as it is.
LEMMA StampKept ==
  ASSUME ControlInv, StampInv, [Next]_vars, NEW u \in User, onboarded[u] # Never
  PROVE  onboarded'[u] = onboarded[u]
<1>1. ASSUME NEW r \in Request, MayMove(r) PROVE onboarded'[u] = onboarded[u]
  <2>1. CASE TxCompleteOnboarding(r)
    BY <2>1 DEF TxCompleteOnboarding, db
  <2>2. CASE ~TxCompleteOnboarding(r)
    BY <1>1, <2>2, StampMoves DEF StampInv
  <2> QED BY <2>1, <2>2
<1>2. CASE \E w \in workspaces, v \in User : Invite(w, v)
  BY <1>2, InviteWrites
<1>3. CASE UNCHANGED vars
  BY <1>3 DEF vars, db
<1> QED BY <1>1, <1>2, <1>3 DEF Next, MayMove

\* onboarding_completed_at keeps its first value, whatever races.
THEOREM OnboardingStamped == Spec => OnboardingStampedOnce
<1>1. ControlInv /\ StampInv /\ [Next]_vars
        => [\A u \in User : onboarded[u] # Never => onboarded'[u] = onboarded[u]]_vars
  BY StampKept
<1> QED BY <1>1, StampCorrect, ControlCorrect, PTL DEF Spec, OnboardingStampedOnce

-----------------------------------------------------------------------------
(* Atomicity: nothing is written before the first INSERT or the COMMIT.     *)

BeforeWrites(r) == pc[r] \notin {"insertMembership", "reply", "done", "lost"}

AtomicityInv ==
  /\ OnboardingAllOrNothing
  /\ \A r \in Request : BeforeWrites(r) => Unwritten(r)

\* A step of a request either writes no row and leads no request back before
\* its writes, or is one of the three steps that write.
LEMMA QuietOrWrites ==
  ASSUME ControlInv, NEW r \in Request, MayMove(r)
  PROVE  \/ UNCHANGED db /\ (BeforeWrites(r)' => BeforeWrites(r))
         \/ input[r].kind = "plain" /\ ~BeforeWrites(r)'
         \/ Commit(r)
<1>0. TypeOK /\ LabelOfKind(r)
  BY DEF ControlInv
<1> USE <1>0 DEF TypeOK, Goto, Raise, BeforeWrites, LabelOfKind
<1>1. CASE Receive(r)
  BY <1>1 DEF Receive
<1>2. CASE CheckOwner(r)
  BY <1>2 DEF CheckOwner
<1>3. CASE CheckName(r)
  BY <1>3 DEF CheckName
<1>4. CASE Provision(r)
  BY <1>4 DEF Provision
<1>5. CASE InsertWorkspace(r)
  BY <1>5 DEF InsertWorkspace
<1>6. CASE InsertMembership(r)
  BY <1>6 DEF InsertMembership
<1>7. CASE TxInsertWorkspace(r)
  BY <1>7 DEF TxInsertWorkspace
<1>8. CASE TxInsertMembership(r)
  BY <1>8 DEF TxInsertMembership
<1>9. CASE TxInsertApps(r)
  BY <1>9 DEF TxInsertApps
<1>10. CASE TxInsertRoot(r)
  BY <1>10 DEF TxInsertRoot
<1>11. CASE TxCompleteOnboarding(r)
  BY <1>11 DEF TxCompleteOnboarding
<1>12. CASE Commit(r)
  BY <1>12
<1>13. CASE Reply(r)
  BY <1>13 DEF Reply
<1>14. CASE StatementFails(r)
  BY <1>14 DEF StatementFails
<1>15. CASE Interrupted(r)
  BY <1>15 DEF Interrupted
<1> QED
  BY <1>1, <1>2, <1>3, <1>4, <1>5, <1>6, <1>7, <1>8, <1>9, <1>10, <1>11, <1>12, <1>13,
     <1>14, <1>15 DEF Step, MayMove

\* COMMIT publishes everything the request staged.
LEMMA CommitPublishes ==
  ASSUME ControlInv, StampInv, NEW r \in Request, Commit(r)
  PROVE  Published(r)' /\ ~BeforeWrites(r)'
<1>0. /\ Staged(r) /\ input' = input /\ input[r].user \in User /\ pc[r] = "commit"
      /\ pc'[r] = "reply" /\ onboarded \in [User -> Request \cup {Never}]
  BY InputTyped DEF ControlInv, Commit, Goto, TypeOK
<1>1. /\ WorkspaceRow(r) \in workspaces' /\ MembershipRow(r) \in memberships'
      /\ AppRows(r) \subseteq workspace_apps' /\ RootRow(r) \in files'
  BY <1>0 DEF Commit, Staged, HoldsWorkspace, HoldsMembership, HoldsApps, HoldsRoot
<1>2. onboarded'[input[r].user] # Never
  <2>1. CASE input[r].user \in tx[r].stamps
    BY <1>0, <2>1, NeverAssumption DEF Commit
  <2>2. CASE input[r].user \notin tx[r].stamps
    <3>1. tx[r].stamps = {}
      BY <1>0, <2>2 DEF Staged
    <3> QED BY <1>0, <3>1 DEF Commit, StampInv
  <2> QED BY <2>1, <2>2
<1> QED BY <1>0, <1>1, <1>2, SameRows DEF Published, BeforeWrites

\* The atomicity invariant is inductive, given control and stamps.
LEMMA AtomicityStep ==
  ASSUME ControlInv, StampInv, AtomicityInv, [Next]_vars
  PROVE  AtomicityInv'
<1>0. input' = input
  BY RowsStay
<1>a. ASSUME UNCHANGED db
      PROVE  \A q \in Request : Unwritten(q)' <=> Unwritten(q)
  BY <1>a DEF Unwritten, db
<1>1. ASSUME NEW r \in Request, MayMove(r) PROVE AtomicityInv'
  <2>1. ASSUME NEW q \in Request, BeforeWrites(q)' PROVE Unwritten(q)'
    <3>1. CASE q # r
      <4>1. BeforeWrites(q)
        BY <1>1, <2>1, <3>1, OneMoves DEF BeforeWrites, MayMove, ControlInv
      <4> QED BY <1>1, <3>1, <4>1, UnwrittenFrame DEF AtomicityInv
    <3>2. CASE q = r
      BY <1>1, <1>a, <2>1, <3>2, QuietOrWrites, CommitPublishes DEF AtomicityInv
    <3> QED BY <3>1, <3>2
  <2>2. ASSUME NEW q \in Request, input[q].kind = "onboarding"
        PROVE  Published(q)' \/ Unwritten(q)'
    <3>1. CASE Published(q)
      BY <3>1, PublishedStays
    <3>2. CASE Unwritten(q) /\ q # r
      BY <1>1, <3>2, UnwrittenFrame
    <3>3. CASE Unwritten(q) /\ q = r
      BY <1>1, <1>a, <2>2, <3>3, QuietOrWrites, CommitPublishes
    <3> QED BY <2>2, <3>1, <3>2, <3>3 DEF AtomicityInv, OnboardingAllOrNothing
  <2> QED BY <1>0, <2>1, <2>2 DEF AtomicityInv, OnboardingAllOrNothing
<1>2. ASSUME NEW w \in workspaces, NEW u \in User, Invite(w, u) PROVE AtomicityInv'
  BY <1>0, <1>2, PublishedStays, UnwrittenInvite, InviteWrites
     DEF AtomicityInv, OnboardingAllOrNothing, BeforeWrites
<1>3. CASE UNCHANGED vars
  BY <1>0, <1>3, <1>a, PublishedStays DEF AtomicityInv, OnboardingAllOrNothing, BeforeWrites, vars
<1> QED BY <1>1, <1>2, <1>3 DEF Next, MayMove

\* In every reachable state, rows appear only where the code writes them.
LEMMA AtomicityCorrect == Spec => []AtomicityInv
<1>1. Init => AtomicityInv
  <2>1. Init => \A r \in Request : Unwritten(r)
    BY NeverAssumption DEF Init, Unwritten
  <2> QED BY <2>1 DEF AtomicityInv, OnboardingAllOrNothing
<1> QED BY <1>1, AtomicityStep, StampCorrect, ControlCorrect, PTL DEF Spec

\* An onboarding request has written everything or nothing.
THEOREM OnboardingAtomic == Spec => []OnboardingAllOrNothing
<1>1. AtomicityInv => OnboardingAllOrNothing
  BY DEF AtomicityInv
<1> QED BY <1>1, AtomicityCorrect, PTL

\* A step keeps the workspace behind every recorded onboarding, and records an
\* onboarding only along with its workspace.
LEMMA OnboardedStep ==
  ASSUME ControlInv, StampInv, OnboardedHasWorkspace, [Next]_vars
  PROVE  OnboardedHasWorkspace'
<1>0. /\ input' = input /\ memberships \subseteq memberships' /\ files \subseteq files'
      /\ onboarded' \in [User -> Request \cup {Never}]
  BY RowsStay, ControlStep DEF ControlInv, TypeOK
<1>1. ASSUME NEW u \in User, NEW q \in Request, onboarded'[u] = q
      PROVE  input[q].user = u /\ MembershipRow(q) \in memberships' /\ RootRow(q) \in files'
  <2>1. CASE onboarded[u] = q
    BY <1>0, <2>1, NeverAssumption DEF OnboardedHasWorkspace
  <2>2. ASSUME onboarded[u] # q, NEW r \in Request, MayMove(r)
        PROVE  input[q].user = u /\ MembershipRow(q) \in memberships' /\ RootRow(q) \in files'
    <3>1. u \in tx[r].stamps /\ q = r
      BY <1>1, <2>2, StampMoves DEF TxCompleteOnboarding, db
    <3>2. u = input[r].user /\ pc[r] = "commit"
      BY <3>1 DEF ControlInv, Staged
    <3>3. input[r].kind = "onboarding" /\ ~UNCHANGED db
      BY <1>1, <2>2, <3>2 DEF ControlInv, LabelOfKind, InTransaction, db
    <3>4. Commit(r)
      BY <2>2, <3>3, QuietOrWrites
    <3>5. Published(r)'
      BY <3>4, CommitPublishes
    <3> QED BY <1>0, <3>1, <3>2, <3>5, SameRows DEF Published
  <2>3. CASE onboarded[u] # q /\ \E w \in workspaces, v \in User : Invite(w, v)
    BY <1>1, <2>3, InviteWrites
  <2>4. CASE onboarded[u] # q /\ UNCHANGED vars
    BY <1>1, <2>4 DEF vars, db
  <2> QED BY <2>1, <2>2, <2>3, <2>4 DEF Next, MayMove
<1>2. \A q \in Request : MembershipRow(q)' = MembershipRow(q) /\ RootRow(q)' = RootRow(q)
  BY <1>0, SameRows
<1> QED BY <1>0, <1>1, <1>2 DEF OnboardedHasWorkspace

\* Every user recorded as onboarded owns the workspace that recorded it.
THEOREM OnboardedUsersHaveWorkspaces == Spec => []OnboardedHasWorkspace
<1>1. Init => OnboardedHasWorkspace
  BY DEF Init, OnboardedHasWorkspace
<1> QED BY <1>1, OnboardedStep, StampCorrect, ControlCorrect, PTL DEF Spec

-----------------------------------------------------------------------------
(* A request that comes late, or is overtaken, stops at its next query.      *)

NoFolder(r) == \A u \in User : <<r, u>> \notin folders

\* Until the query r has nothing but the folder it may have uploaded.
LateInv ==
  /\ \A r \in Request : pc[r] \in {"idle", "preOwner", "preName", "provision"} => NoFolder(r)
  /\ \A r \in Request : input[r].kind = "plain" => NoFolder(r)
  /\ \A r \in Request : late[r] # "no" =>
       /\ OwnsWorkspace(input[r].user) /\ Unwritten(r)
       /\ Finished(r) \/ pc[r] \in {"preOwner", "owner"}
  /\ \A r \in Request : late[r] = "arrival" => NoFolder(r)

\* When a request is found late or overtaken, where a step can lead a request
\* whose user already owns a workspace, and where one that has not reached the
\* upload comes from.
LEMMA LateMoves ==
  ASSUME ControlInv, NEW r \in Request, MayMove(r)
  PROVE  /\ \/ late' = late
            \/ /\ pc[r] = "idle" /\ pc'[r] \in {"preOwner", "owner"}
               /\ late' = [late EXCEPT ![r] = IF OwnsWorkspace(input[r].user) THEN "arrival" ELSE @]
            \/ /\ pc[r] = "provision" /\ pc'[r] = "owner"
               /\ late' = [late EXCEPT ![r] = IF OwnsWorkspace(input[r].user) THEN "upload" ELSE @]
         /\ pc[r] \in {"preOwner", "owner"} /\ OwnsWorkspace(input[r].user) => Finished(r)'
         /\ ~Finished(r)
         /\ pc'[r] \in {"idle", "preOwner", "preName", "provision"}
              => pc[r] \in {"idle", "preOwner", "preName"}
<1>0. TypeOK /\ input[r].kind \in Kind
  BY InputTyped DEF ControlInv
<1> USE <1>0 DEF TypeOK, Goto, Raise, Finished, InFlight, BeforeWrites, Kind
<1>1. CASE Receive(r)
  BY <1>1 DEF Receive
<1>2. CASE CheckOwner(r)
  BY <1>2 DEF CheckOwner
<1>3. CASE CheckName(r)
  BY <1>3 DEF CheckName, AfterName
<1>4. CASE Provision(r)
  BY <1>4 DEF Provision
<1>5. CASE InsertWorkspace(r)
  BY <1>5 DEF InsertWorkspace
<1>6. CASE InsertMembership(r)
  BY <1>6 DEF InsertMembership
<1>7. CASE TxInsertWorkspace(r)
  BY <1>7 DEF TxInsertWorkspace
<1>8. CASE TxInsertMembership(r)
  BY <1>8 DEF TxInsertMembership
<1>9. CASE TxInsertApps(r)
  BY <1>9 DEF TxInsertApps
<1>10. CASE TxInsertRoot(r)
  BY <1>10 DEF TxInsertRoot
<1>11. CASE TxCompleteOnboarding(r)
  BY <1>11 DEF TxCompleteOnboarding
<1>12. CASE Commit(r)
  BY <1>12 DEF Commit
<1>13. CASE Reply(r)
  BY <1>13 DEF Reply
<1>14. CASE StatementFails(r)
  BY <1>14 DEF StatementFails
<1>15. CASE Interrupted(r)
  BY <1>15 DEF Interrupted
<1> QED
  BY <1>1, <1>2, <1>3, <1>4, <1>5, <1>6, <1>7, <1>8, <1>9, <1>10, <1>11, <1>12, <1>13,
     <1>14, <1>15 DEF Step, MayMove

\* The late-request invariant is inductive, given control and atomicity.
LEMMA LateStep ==
  ASSUME ControlInv, AtomicityInv, LateInv, [Next]_vars
  PROVE  LateInv'
<1>0. /\ input' = input /\ TypeOK /\ workspaces \subseteq workspaces'
      /\ memberships \subseteq memberships'
  BY RowsStay DEF ControlInv
<1>a. \A q \in Request : OwnsWorkspace(input[q].user) => OwnsWorkspace(input[q].user)'
  BY <1>0 DEF OwnsWorkspace
<1>1. ASSUME NEW r \in Request, MayMove(r) PROVE LateInv'
  <2>0. \A q \in Request \ {r} : pc'[q] = pc[q]
    BY <1>1, OneMoves DEF MayMove, ControlInv
  <2>1. ASSUME NEW q \in Request, q # r, NoFolder(q) PROVE NoFolder(q)'
    BY <1>1, <2>1, WritesOwn DEF NoFolder, StoragePath
  <2>2. ASSUME NoFolder(r), pc[r] # "provision" PROVE NoFolder(r)'
    BY <1>1, <2>2, WritesOwn DEF NoFolder
  <2>3. ASSUME NEW q \in Request, pc'[q] \in {"idle", "preOwner", "preName", "provision"}
        PROVE  NoFolder(q)'
    <3>1. CASE q # r
      BY <2>0, <2>1, <2>3, <3>1 DEF LateInv
    <3>2. CASE q = r
      BY <1>1, <2>2, <2>3, <3>2, LateMoves DEF LateInv
    <3> QED BY <3>1, <3>2
  <2>4. ASSUME NEW q \in Request, input[q].kind = "plain" PROVE NoFolder(q)'
    <3>1. NoFolder(q) /\ pc[q] # "provision"
      BY <2>4 DEF LateInv, ControlInv, LabelOfKind
    <3> QED BY <2>1, <2>2, <3>1
  <2>5. ASSUME NEW q \in Request, late'[q] # "no"
        PROVE  /\ OwnsWorkspace(input[q].user)' /\ Unwritten(q)'
               /\ Finished(q)' \/ pc'[q] \in {"preOwner", "owner"}
               /\ late'[q] = "arrival" => NoFolder(q)'
    <3>1. CASE q # r
      <4>1. late'[q] = late[q]
        BY <1>0, <1>1, <3>1, LateMoves DEF TypeOK
      <4>2. /\ OwnsWorkspace(input[q].user) /\ Unwritten(q)
            /\ Finished(q) \/ pc[q] \in {"preOwner", "owner"}
            /\ late[q] = "arrival" => NoFolder(q)
        BY <2>5, <4>1 DEF LateInv
      <4> QED BY <1>1, <1>a, <2>0, <2>1, <3>1, <4>1, <4>2, UnwrittenFrame DEF Finished
    <3>2. CASE q = r /\ late[r] # "no"
      <4>1. /\ OwnsWorkspace(input[r].user) /\ Unwritten(r)
            /\ pc[r] \in {"preOwner", "owner"}
            /\ late[r] = "arrival" => NoFolder(r)
        BY <1>1, <3>2, LateMoves DEF LateInv
      <4>2. UNCHANGED db /\ late' = late /\ Finished(r)'
        BY <1>1, <4>1, WritesOwn, LateMoves DEF WritesRows
      <4>3. Unwritten(r)'
        BY <4>1, <4>2 DEF Unwritten, db
      <4> QED BY <1>a, <2>2, <3>2, <4>1, <4>2, <4>3
    <3>3. CASE q = r /\ late[r] = "no"
      <4>1. /\ pc[r] \in {"idle", "provision"} /\ OwnsWorkspace(input[r].user)
            /\ pc'[r] \in {"preOwner", "owner"}
            /\ late'[r] = "arrival" => pc[r] = "idle"
        BY <1>0, <1>1, <2>5, <3>3, LateMoves DEF TypeOK
      <4>2. Unwritten(r) /\ NoFolder(r)
        BY <4>1 DEF AtomicityInv, BeforeWrites, LateInv
      <4>3. UNCHANGED db
        BY <1>1, <4>1, WritesOwn DEF WritesRows
      <4>4. Unwritten(r)'
        BY <4>2, <4>3 DEF Unwritten, db
      <4> QED BY <1>a, <2>2, <3>3, <4>1, <4>2, <4>4
    <3> QED BY <3>1, <3>2, <3>3
  <2> QED BY <1>0, <2>3, <2>4, <2>5 DEF LateInv
<1>2. ASSUME NEW w \in workspaces, NEW v \in User, Invite(w, v) PROVE LateInv'
  <2>1. \A q \in Request : Unwritten(q) => Unwritten(q)'
    BY <1>2, UnwrittenInvite
  <2> QED BY <1>2, <1>a, <2>1, InviteWrites DEF LateInv, NoFolder, Finished
<1>3. CASE UNCHANGED vars
  <2>1. UNCHANGED <<workspaces, memberships, workspace_apps, files, onboarded, input>>
    BY <1>3 DEF vars, db
  <2>2. \A q \in Request : Unwritten(q)' <=> Unwritten(q)
    BY <2>1 DEF Unwritten
  <2> QED BY <1>3, <1>a, <2>1, <2>2 DEF LateInv, NoFolder, Finished, vars
<1> QED BY <1>1, <1>2, <1>3 DEF Next, MayMove

\* It holds in every reachable state.
LEMMA LateCorrect == Spec => []LateInv
<1>1. Init => LateInv
  BY DEF Init, LateInv, NoFolder
<1> QED BY <1>1, LateStep, AtomicityCorrect, ControlCorrect, PTL DEF Spec

\* A request whose user owns a workspace when it arrives leaves no row and no
\* folder behind.
THEOREM LateRequestsLeaveNothing == Spec => []LateRequestLeavesNothing
<1>1. LateInv => LateRequestLeavesNothing
  BY DEF LateInv, LateRequestLeavesNothing, NoFolder
<1> QED BY <1>1, LateCorrect, PTL

\* A request whose user came to own a workspace while it uploaded its folder
\* writes no row: the adapter repeats the check that was made before the await
\* (user_can_create_workspace).
THEOREM OvertakenWriteNothing == Spec => []OvertakenWritesNothing
<1>1. LateInv => OvertakenWritesNothing
  BY DEF LateInv, OvertakenWritesNothing
<1> QED BY <1>1, LateCorrect, PTL

-----------------------------------------------------------------------------
(* What an answer means, and what a reader can make of the rows.            *)

Reserved(r) == WorkspaceRow(r) \in workspaces /\ \A m \in memberships : m.workspace # r

Usable(r) == WorkspaceRow(r) \in workspaces /\ MembershipRow(r) \in memberships

Cause(r) ==
  \/ OwnsWorkspace(input[r].user)
  \/ HasWorkspaceNamed(input[r].user, input[r].name)
  \/ SlugTaken(WorkspaceSlug(r))

OneMembership ==
  \A m1, m2 \in memberships : m1.workspace = m2.workspace /\ m1.user = m2.user => m1 = m2

RowInv ==
  /\ \A r \in Request : input[r].kind = "plain" => Unwritten(r) \/ Reserved(r) \/ Usable(r)
  /\ \A r \in Request : pc[r] = "insertMembership" => Reserved(r)
  /\ \A r \in Request : pc[r] = "reply" \/ answer[r] = "201" => Usable(r)
  /\ \A r \in Request : answer[r] # "none" => pc[r] = "done"
  /\ OneMembership
  /\ OrphanHasInterruptedCreate
  /\ RefusalCommitsNothing
  /\ ConflictHasCause

\* The four ways a step writes no row ...
GoesOn(r) ==
  /\ UNCHANGED <<db, answer>>
  /\ pc'[r] \notin {"insertMembership", "reply", "done"}
  /\ pc[r] = "insertMembership" => pc'[r] = "lost"

Refuses(r) ==
  /\ UNCHANGED db /\ BeforeWrites(r) /\ pc'[r] = "done"
  /\ answer'[r] \in {"409", "422", "502"}
  /\ answer'[r] = "409" => Cause(r)

Breaks(r) == UNCHANGED db /\ pc'[r] = "done" /\ answer'[r] = "500"

Confirms(r) == UNCHANGED db /\ pc[r] = "reply" /\ pc'[r] = "done" /\ answer'[r] = "201"

\* ... and the two ways the plain endpoint writes one.
Reserves(r) ==
  /\ pc[r] = "insertWorkspace" /\ pc'[r] = "insertMembership"
  /\ ~SlugTaken(WorkspaceSlug(r)) /\ ~SlugLocked(r)
  /\ workspaces' = workspaces \cup {WorkspaceRow(r)}
  /\ UNCHANGED <<answer, memberships, workspace_apps, files, onboarded>>

Owns(r) ==
  /\ pc[r] = "insertMembership" /\ pc'[r] = "reply"
  /\ memberships' = memberships \cup {MembershipRow(r)}
  /\ UNCHANGED <<answer, workspaces, workspace_apps, files, onboarded>>

\* Every step of a request is one of these, or its COMMIT.
LEMMA RowMoves ==
  ASSUME ControlInv, NEW r \in Request, MayMove(r)
  PROVE  /\ ~Finished(r)
         /\ \/ GoesOn(r) \/ Refuses(r) \/ Breaks(r) \/ Confirms(r) \/ Reserves(r) \/ Owns(r)
            \/ Commit(r)
<1>0. TypeOK /\ input[r].kind \in Kind
  BY InputTyped DEF ControlInv
<1> USE <1>0 DEF TypeOK, Goto, Raise, Finished, InFlight, BeforeWrites, Kind, db,
                 GoesOn, Refuses, Breaks, Confirms, Reserves, Owns, Cause
<1>1. CASE Receive(r)
  BY <1>1 DEF Receive
<1>2. CASE CheckOwner(r)
  BY <1>2 DEF CheckOwner
<1>3. CASE CheckName(r)
  BY <1>3 DEF CheckName, AfterName
<1>4. CASE Provision(r)
  BY <1>4 DEF Provision
<1>5. CASE InsertWorkspace(r)
  BY <1>5 DEF InsertWorkspace
<1>6. CASE InsertMembership(r)
  BY <1>6 DEF InsertMembership
<1>7. CASE TxInsertWorkspace(r)
  BY <1>7 DEF TxInsertWorkspace
<1>8. CASE TxInsertMembership(r)
  BY <1>8 DEF TxInsertMembership
<1>9. CASE TxInsertApps(r)
  BY <1>9 DEF TxInsertApps
<1>10. CASE TxInsertRoot(r)
  BY <1>10 DEF TxInsertRoot
<1>11. CASE TxCompleteOnboarding(r)
  BY <1>11 DEF TxCompleteOnboarding
<1>12. CASE Commit(r)
  BY <1>12 DEF Commit
<1>13. CASE Reply(r)
  BY <1>13 DEF Reply
<1>14. CASE StatementFails(r)
  BY <1>14 DEF StatementFails
<1>15. CASE Interrupted(r)
  BY <1>15 DEF Interrupted
<1> QED
  BY <1>1, <1>2, <1>3, <1>4, <1>5, <1>6, <1>7, <1>8, <1>9, <1>10, <1>11, <1>12, <1>13,
     <1>14, <1>15 DEF Step, MayMove

\* Rows only accumulate, and with them the causes of a conflict.
LEMMA CauseStays ==
  ASSUME ControlInv, [Next]_vars, NEW q \in Request, Cause(q)
  PROVE  Cause(q)'
<1>1. input' = input /\ workspaces \subseteq workspaces' /\ memberships \subseteq memberships'
  BY RowsStay
<1>2. WorkspaceSlug(q)' = WorkspaceSlug(q)
  BY <1>1, SameRows
<1>3. CASE OwnsWorkspace(input[q].user)
  BY <1>1, <1>3 DEF OwnsWorkspace, Cause
<1>4. CASE HasWorkspaceNamed(input[q].user, input[q].name)
  BY <1>1, <1>4 DEF HasWorkspaceNamed, Cause
<1>5. CASE SlugTaken(WorkspaceSlug(q))
  BY <1>1, <1>2, <1>5 DEF SlugTaken, Cause
<1> QED BY <1>3, <1>4, <1>5 DEF Cause

\* So do the rows of a workspace that is usable.
LEMMA UsableStays ==
  ASSUME ControlInv, [Next]_vars, NEW q \in Request, Usable(q)
  PROVE  Usable(q)'
BY RowsStay, SameRows DEF Usable

\* Nobody but its request takes a workspace out of the reserved state.
LEMMA ReservedStays ==
  ASSUME ControlInv, [Next]_vars, NEW q \in Request, Reserved(q),
         MayMove(q) => UNCHANGED memberships
  PROVE  Reserved(q)'
<1>1. input' = input /\ workspaces \subseteq workspaces'
  BY RowsStay
<1>2. WorkspaceRow(q)' = WorkspaceRow(q)
  BY <1>1, SameRows
<1>3. ASSUME NEW r \in Request, MayMove(r), r # q PROVE Reserved(q)'
  <2>1. MembershipRow(r).workspace = r
    BY DEF MembershipRow
  <2> QED BY <1>1, <1>2, <1>3, <2>1, WritesOwn DEF Reserved
<1>4. CASE MayMove(q)
  BY <1>1, <1>2, <1>4 DEF Reserved
<1>5. ASSUME NEW w \in workspaces, NEW u \in User, Invite(w, u) PROVE Reserved(q)'
  <2>1. w.id # q
    BY <1>5 DEF Invite, Reserved
  <2> QED BY <1>1, <1>2, <1>5, <2>1, InviteWrites DEF Reserved
<1>6. CASE UNCHANGED vars
  BY <1>1, <1>2, <1>6 DEF Reserved, vars, db
<1> QED BY <1>3, <1>4, <1>5, <1>6 DEF Next, MayMove

\* A COMMIT finds nothing written for its request and leaves all of it.
LEMMA CommitMakesUsable ==
  ASSUME ControlInv, StampInv, AtomicityInv, NEW r \in Request, Commit(r)
  PROVE  /\ pc[r] = "commit" /\ pc'[r] = "reply" /\ answer' = answer
         /\ input[r].kind = "onboarding" /\ Unwritten(r) /\ Usable(r)'
<1>1. pc[r] = "commit" /\ pc'[r] = "reply" /\ answer' = answer
  BY DEF Commit, Goto, ControlInv, TypeOK
<1>2. input[r].kind = "onboarding"
  BY <1>1 DEF ControlInv, LabelOfKind, InTransaction
<1>3. Unwritten(r)
  BY <1>1 DEF AtomicityInv, BeforeWrites
<1>4. Usable(r)'
  BY CommitPublishes DEF Published, Usable
<1> QED BY <1>1, <1>2, <1>3, <1>4

\* The stages of a plain workspace, and the labels that go with them.
LEMMA StagesStep ==
  ASSUME ControlInv, StampInv, AtomicityInv, RowInv, [Next]_vars, NEW q \in Request
  PROVE  /\ input[q].kind = "plain" => (Unwritten(q) \/ Reserved(q) \/ Usable(q))'
         /\ pc'[q] = "insertMembership" => Reserved(q)'
         /\ pc'[q] = "reply" \/ answer'[q] = "201" => Usable(q)'
         /\ answer'[q] # "none" => pc'[q] = "done"
<1>0. input' = input /\ input[q].kind \in Kind /\ WorkspaceRow(q)' = WorkspaceRow(q)
  BY RowsStay, InputTyped, SameRows DEF ControlInv
<1>i. /\ input[q].kind = "plain" => Unwritten(q) \/ Reserved(q) \/ Usable(q)
      /\ pc[q] = "insertMembership" => Reserved(q)
      /\ pc[q] = "reply" \/ answer[q] = "201" => Usable(q)
      /\ answer[q] # "none" => pc[q] = "done"
  BY DEF RowInv
<1>a. ASSUME UNCHANGED db
      PROVE  /\ Unwritten(q) => Unwritten(q)'
             /\ Reserved(q) => Reserved(q)'
             /\ Usable(q) => Usable(q)'
  BY <1>a, UsableStays, ReservedStays DEF Unwritten, db
<1>1. CASE MayMove(q)
  <2>0. ~Finished(q) /\ answer[q] = "none"
    BY <1>1, <1>i, RowMoves DEF Finished
  <2>1. CASE GoesOn(q)
    BY <1>i, <1>a, <2>0, <2>1 DEF GoesOn
  <2>2. CASE Refuses(q) \/ Breaks(q) \/ Confirms(q)
    BY <1>i, <1>a, <2>2 DEF Refuses, Breaks, Confirms
  <2>3. CASE Reserves(q)
    <3>1. Unwritten(q)
      BY <2>3 DEF Reserves, AtomicityInv, BeforeWrites
    <3>2. Reserved(q)'
      BY <1>0, <2>3, <3>1 DEF Reserves, Reserved, Unwritten
    <3> QED BY <2>0, <2>3, <3>2 DEF Reserves
  <2>4. CASE Owns(q)
    <3>1. Usable(q)'
      BY <1>0, <1>i, <2>4, SameRows DEF Owns, Usable, Reserved
    <3> QED BY <2>0, <2>4, <3>1 DEF Owns
  <2>5. CASE Commit(q)
    BY <2>0, <2>5, CommitMakesUsable
  <2> QED BY <1>1, <2>1, <2>2, <2>3, <2>4, <2>5, RowMoves
<1>2. ASSUME NEW r \in Request, MayMove(r), r # q, ~MayMove(q)
      PROVE  /\ input[q].kind = "plain" => (Unwritten(q) \/ Reserved(q) \/ Usable(q))'
             /\ pc'[q] = "insertMembership" => Reserved(q)'
             /\ pc'[q] = "reply" \/ answer'[q] = "201" => Usable(q)'
             /\ answer'[q] # "none" => pc'[q] = "done"
  <2>1. pc'[q] = pc[q] /\ answer'[q] = answer[q]
    BY <1>2, OneMoves DEF MayMove, ControlInv
  <2> QED BY <1>2, <1>i, <2>1, UnwrittenFrame, ReservedStays, UsableStays
<1>3. CASE ~MayMove(q) /\ \E w \in workspaces, u \in User : Invite(w, u)
  BY <1>3, <1>i, InviteWrites, UnwrittenInvite, ReservedStays, UsableStays
<1>4. CASE UNCHANGED vars
  BY <1>4, <1>i, <1>a DEF vars
<1> QED BY <1>1, <1>2, <1>3, <1>4 DEF Next, MayMove

\* No step gives a user two memberships of one workspace.
LEMMA OneMembershipStep ==
  ASSUME ControlInv, AtomicityInv, RowInv, [Next]_vars
  PROVE  OneMembership'
<1>0. OneMembership
  BY DEF RowInv
<1>1. ASSUME NEW r \in Request, MayMove(r) PROVE OneMembership'
  <2>1. MembershipRow(r).workspace = r
    BY DEF MembershipRow
  <2>2. memberships' \subseteq memberships \cup {MembershipRow(r)}
    BY <1>1, WritesOwn
  <2>3. \/ UNCHANGED memberships
        \/ \A m \in memberships : m.workspace # r
    <3>1. CASE pc[r] = "insertMembership"
      BY <3>1 DEF RowInv, Reserved
    <3>2. CASE pc[r] # "insertMembership" /\ pc[r] \in WritesRows
      BY <3>2 DEF WritesRows, AtomicityInv, BeforeWrites, Unwritten
    <3>3. CASE pc[r] \notin WritesRows
      BY <1>1, <3>3, WritesOwn DEF db
    <3> QED BY <3>1, <3>2, <3>3
  <2> QED BY <1>0, <2>1, <2>2, <2>3 DEF OneMembership
<1>2. ASSUME NEW w \in workspaces, NEW u \in User, Invite(w, u) PROVE OneMembership'
  BY <1>0, <1>2 DEF Invite, OneMembership
<1>3. CASE UNCHANGED vars
  BY <1>0, <1>3 DEF OneMembership, vars, db
<1> QED BY <1>1, <1>2, <1>3 DEF Next, MayMove

\* A workspace without an owner keeps its cause until it has one.
LEMMA OrphanStep ==
  ASSUME ControlInv, StampInv, AtomicityInv, RowInv, [Next]_vars
  PROVE  OrphanHasInterruptedCreate'
<1>0. /\ input' = input /\ workspaces \subseteq workspaces' /\ memberships \subseteq memberships'
      /\ \A q \in Request : input[q].kind \in Kind
  BY RowsStay, InputTyped DEF ControlInv
<1> DEFINE Owned(w) == \E m \in memberships : m.workspace = w.id /\ m.role = "owner"
           Stopped(w) == /\ input[w.id].kind = "plain"
                         /\ pc[w.id] \in {"insertMembership", "lost"} \/ answer[w.id] = "500"
<1>1. \A w \in workspaces : w.id \in Request
  BY DEF ControlInv, TypeOK, WorkspaceRows
<1>2. \A q \in Request : Usable(q)' => Owned(WorkspaceRow(q))'
  <2>1. \A q \in Request : /\ MembershipRow(q)'.workspace = q /\ MembershipRow(q)'.role = "owner"
                           /\ WorkspaceRow(q)'.id = q
    BY DEF MembershipRow, WorkspaceRow
  <2> QED BY <2>1 DEF Usable
<1>3. ASSUME NEW w \in workspaces' PROVE Owned(w)' \/ Stopped(w)'
  <2>1. CASE w \in workspaces /\ Owned(w)
    BY <1>0, <2>1
  <2>2. CASE w \in workspaces /\ ~Owned(w)
    <3>1. Stopped(w) /\ w.id \in Request
      BY <1>1, <2>2 DEF RowInv, OrphanHasInterruptedCreate
    <3>2. CASE MayMove(w.id)
      <4>1. pc[w.id] = "insertMembership"
        BY <3>1, <3>2, RowMoves DEF RowInv, Finished
      <4>2. GoesOn(w.id) \/ Breaks(w.id) \/ Owns(w.id)
        BY <3>1, <3>2, <4>1, RowMoves DEF Refuses, Confirms, Reserves, BeforeWrites, Commit
      <4>3. CASE GoesOn(w.id) \/ Breaks(w.id)
        BY <1>0, <3>1, <4>1, <4>3 DEF GoesOn, Breaks
      <4>4. CASE Owns(w.id)
        <5>1. MembershipRow(w.id).workspace = w.id /\ MembershipRow(w.id).role = "owner"
          BY DEF MembershipRow
        <5> QED BY <4>4, <5>1 DEF Owns
      <4> QED BY <4>2, <4>3, <4>4
    <3>3. ASSUME NEW r \in Request, MayMove(r), r # w.id PROVE Stopped(w)'
      BY <1>0, <3>1, <3>3, OneMoves DEF MayMove, ControlInv
    <3>4. CASE \E v \in workspaces, u \in User : Invite(v, u)
      BY <3>1, <3>4, InviteWrites
    <3>5. CASE UNCHANGED vars
      BY <3>1, <3>5 DEF vars
    <3> QED BY <3>2, <3>3, <3>4, <3>5 DEF Next, MayMove
  <2>3. CASE w \notin workspaces
    <3>1. PICK r \in Request : MayMove(r)
      BY <2>3, InviteWrites DEF Next, MayMove, vars, db
    <3>2. w = WorkspaceRow(r) /\ w.id = r
      BY <2>3, <3>1, WritesOwn DEF WorkspaceRow
    <3>3. Reserves(r) \/ Commit(r)
      BY <2>3, <3>1, RowMoves DEF GoesOn, Refuses, Breaks, Confirms, Owns, db
    <3>4. CASE Reserves(r)
      <4>1. input[r].kind = "plain"
        BY <3>4 DEF Reserves, ControlInv, LabelOfKind
      <4> QED BY <1>0, <3>2, <3>4, <4>1 DEF Reserves
    <3>5. CASE Commit(r)
      <4>1. Owned(WorkspaceRow(r))' /\ WorkspaceRow(r)' = WorkspaceRow(r)
        BY <1>0, <1>2, <3>5, CommitMakesUsable, SameRows
      <4> QED BY <3>2, <4>1
    <3> QED BY <3>3, <3>4, <3>5
  <2> QED BY <2>1, <2>2, <2>3
<1> QED BY <1>3 DEF OrphanHasInterruptedCreate

\* A refused request has written nothing and never will, and the cause of a
\* conflict stays.
LEMMA RefusalStep ==
  ASSUME ControlInv, AtomicityInv, RowInv, [Next]_vars
  PROVE  RefusalCommitsNothing' /\ ConflictHasCause'
<1>1. ASSUME NEW q \in Request, answer'[q] \in {"409", "422", "502"}
      PROVE  Unwritten(q)' /\ (answer'[q] = "409" => Cause(q)')
  <2>i. /\ answer[q] \in {"409", "422", "502"} => Unwritten(q)
        /\ answer[q] = "409" => Cause(q)
        /\ answer[q] # "none" => pc[q] = "done"
    BY DEF RowInv, RefusalCommitsNothing, ConflictHasCause, Cause
  <2>1. CASE MayMove(q)
    <3>1. answer[q] = "none"
      BY <2>i, <2>1, RowMoves DEF Finished
    <3>2. Refuses(q)
      BY <1>1, <2>1, <3>1, RowMoves DEF GoesOn, Breaks, Confirms, Reserves, Owns, Commit, Goto
    <3>3. Unwritten(q)'
      BY <3>2 DEF Refuses, AtomicityInv, Unwritten, db
    <3>4. answer'[q] = "409" => Cause(q)'
      BY <3>2, CauseStays DEF Refuses
    <3> QED BY <3>3, <3>4
  <2>2. ASSUME NEW r \in Request, MayMove(r), r # q
        PROVE  Unwritten(q)' /\ (answer'[q] = "409" => Cause(q)')
    <3>1. answer'[q] = answer[q]
      BY <2>2, OneMoves DEF MayMove, ControlInv
    <3> QED BY <1>1, <2>i, <2>2, <3>1, UnwrittenFrame, CauseStays
  <2>3. CASE \E w \in workspaces, u \in User : Invite(w, u)
    BY <1>1, <2>i, <2>3, InviteWrites, UnwrittenInvite, CauseStays
  <2>4. CASE UNCHANGED vars
    <3>1. Unwritten(q)' <=> Unwritten(q)
      BY <2>4 DEF vars, db, Unwritten
    <3> QED BY <1>1, <2>i, <2>4, <3>1, CauseStays DEF vars
  <2> QED BY <2>1, <2>2, <2>3, <2>4 DEF Next, MayMove
<1>2. RefusalCommitsNothing'
  BY <1>1 DEF RefusalCommitsNothing
<1>3. ConflictHasCause'
  BY <1>1 DEF ConflictHasCause, Cause
<1> QED BY <1>2, <1>3

\* In every reachable state rows, labels and answers agree.
LEMMA RowCorrect == Spec => []RowInv
<1>1. Init => RowInv
  <2>1. Init => \A r \in Request : Unwritten(r)
    BY NeverAssumption DEF Init, Unwritten
  <2> QED BY <2>1 DEF Init, RowInv, OneMembership, OrphanHasInterruptedCreate,
                      RefusalCommitsNothing, ConflictHasCause
<1>2. ControlInv /\ StampInv /\ AtomicityInv /\ RowInv /\ [Next]_vars => RowInv'
  <2> SUFFICES ASSUME ControlInv, StampInv, AtomicityInv, RowInv, [Next]_vars PROVE RowInv'
    OBVIOUS
  <2>1. input' = input
    BY RowsStay
  <2> QED BY <2>1, StagesStep, OneMembershipStep, OrphanStep, RefusalStep DEF RowInv
<1> QED BY <1>1, <1>2, AtomicityCorrect, StampCorrect, ControlCorrect, PTL DEF Spec

\* A workspace without an owner comes from a plain create that was cut short.
THEOREM OrphansHaveInterruptedCreates == Spec => []OrphanHasInterruptedCreate
<1>1. RowInv => OrphanHasInterruptedCreate
  BY DEF RowInv
<1> QED BY <1>1, RowCorrect, PTL

\* A request answered 409, 422 or 502 has left no row.
THEOREM RefusalsCommitNothing == Spec => []RefusalCommitsNothing
<1>1. RowInv => RefusalCommitsNothing
  BY DEF RowInv
<1> QED BY <1>1, RowCorrect, PTL

\* A 409 always has one of its three causes in the database.
THEOREM ConflictsHaveCauses == Spec => []ConflictHasCause
<1>1. RowInv => ConflictHasCause
  BY DEF RowInv
<1> QED BY <1>1, RowCorrect, PTL

\* A workspace answered 201 is listed for its creator, who owns it.
THEOREM CreatedAreUsable == Spec => []CreatedIsUsable
<1>1. ASSUME RowInv, NEW r \in Request, answer[r] = "201"
      PROVE  /\ r \in ListWorkspaces(input[r].user)
             /\ GetWorkspace(r, input[r].user) = "owner"
  <2>1. WorkspaceRow(r) \in workspaces /\ MembershipRow(r) \in memberships
    BY <1>1 DEF RowInv, Usable
  <2>2. /\ WorkspaceRow(r).id = r
        /\ MembershipRow(r).workspace = r /\ MembershipRow(r).user = input[r].user
        /\ MembershipRow(r).role = "owner"
    BY DEF WorkspaceRow, MembershipRow
  <2>3. r \in ListWorkspaces(input[r].user)
    <3>1. WorkspaceRow(r) \in {x \in workspaces : \E m \in memberships :
                                 m.workspace = x.id /\ m.user = input[r].user}
      BY <2>1, <2>2
    <3> QED BY <2>2, <3>1 DEF ListWorkspaces
  <2>4. GetWorkspace(r, input[r].user) = "owner"
    <3>1. \A m \in memberships : m.workspace = r /\ m.user = input[r].user => m = MembershipRow(r)
      BY <1>1, <2>1, <2>2 DEF RowInv, OneMembership
    <3>2. (CHOOSE m \in memberships : m.workspace = r /\ m.user = input[r].user) = MembershipRow(r)
      BY <2>1, <2>2, <3>1
    <3> QED BY <2>1, <2>2, <3>2 DEF GetWorkspace
  <2> QED BY <2>3, <2>4
<1>2. RowInv => CreatedIsUsable
  BY <1>1 DEF CreatedIsUsable
<1> QED BY <1>2, RowCorrect, PTL

-----------------------------------------------------------------------------
(* Slugs: whoever is past its INSERT holds its slug alone.                  *)

SlugInv ==
  \A r \in Request : pc[r] \in HoldsWorkspace =>
    /\ ~SlugTaken(WorkspaceSlug(r))
    /\ \A q \in Request : pc[q] \in HoldsWorkspace /\ WorkspaceSlug(q) = WorkspaceSlug(r) => q = r

\* Only an INSERT that found the slug free and unlocked enters the section
\* that holds it, and only Reserves and Commit end with a workspace row.
LEMMA SlugMoves ==
  ASSUME ControlInv, NEW r \in Request, MayMove(r)
  PROVE  /\ pc'[r] \in HoldsWorkspace => \/ pc[r] \in HoldsWorkspace
                                         \/ ~SlugTaken(WorkspaceSlug(r)) /\ ~SlugLocked(r)
         /\ \/ UNCHANGED workspaces
            \/ Reserves(r)
            \/ Commit(r)
<1>0. TypeOK /\ input[r].kind \in Kind
  BY InputTyped DEF ControlInv
<1> USE <1>0 DEF TypeOK, Goto, Raise, HoldsWorkspace, Kind, db
<1>1. CASE Receive(r)
  BY <1>1 DEF Receive
<1>2. CASE CheckOwner(r)
  BY <1>2 DEF CheckOwner
<1>3. CASE CheckName(r)
  BY <1>3 DEF CheckName, AfterName
<1>4. CASE Provision(r)
  BY <1>4 DEF Provision
<1>5. CASE InsertWorkspace(r)
  BY <1>5 DEF InsertWorkspace, Reserves
<1>6. CASE InsertMembership(r)
  BY <1>6 DEF InsertMembership
<1>7. CASE TxInsertWorkspace(r)
  BY <1>7 DEF TxInsertWorkspace
<1>8. CASE TxInsertMembership(r)
  BY <1>8 DEF TxInsertMembership
<1>9. CASE TxInsertApps(r)
  BY <1>9 DEF TxInsertApps
<1>10. CASE TxInsertRoot(r)
  BY <1>10 DEF TxInsertRoot
<1>11. CASE TxCompleteOnboarding(r)
  BY <1>11 DEF TxCompleteOnboarding
<1>12. CASE Commit(r)
  BY <1>12 DEF Commit
<1>13. CASE Reply(r)
  BY <1>13 DEF Reply
<1>14. CASE StatementFails(r)
  BY <1>14 DEF StatementFails
<1>15. CASE Interrupted(r)
  BY <1>15 DEF Interrupted
<1> QED
  BY <1>1, <1>2, <1>3, <1>4, <1>5, <1>6, <1>7, <1>8, <1>9, <1>10, <1>11, <1>12, <1>13,
     <1>14, <1>15 DEF Step, MayMove

\* Two requests past their INSERTs never hold the same slug: the key locks.
LEMMA SlugStep ==
  ASSUME ControlInv, SlugInv, [Next]_vars
  PROVE  SlugInv'
<1>0. input' = input /\ \A q \in Request : WorkspaceSlug(q)' = WorkspaceSlug(q)
  BY RowsStay, SameRows
<1>1. ASSUME NEW r \in Request, MayMove(r) PROVE SlugInv'
  <2>0. \A q \in Request \ {r} : pc'[q] = pc[q]
    BY <1>1, OneMoves DEF MayMove, ControlInv
  <2>1. /\ ~SlugLocked(r) => \A q \in Request \ {r} : pc[q] \in HoldsWorkspace
                               => WorkspaceSlug(q) # WorkspaceSlug(r)
    <3> SUFFICES ASSUME ~SlugLocked(r), NEW q \in Request \ {r}, pc[q] \in HoldsWorkspace
                 PROVE  WorkspaceSlug(q) # WorkspaceSlug(r)
      OBVIOUS
    <3>1. WorkspaceRow(q) \in tx[q].workspaces /\ WorkspaceRow(q).slug = WorkspaceSlug(q)
      BY DEF ControlInv, Staged, WorkspaceRow
    <3> QED BY <3>1 DEF SlugLocked
  <2>2. ASSUME NEW p \in Request, NEW q \in Request, pc'[p] \in HoldsWorkspace,
               pc'[q] \in HoldsWorkspace, WorkspaceSlug(q) = WorkspaceSlug(p)
        PROVE  q = p
    BY <1>1, <2>0, <2>1, <2>2, SlugMoves DEF SlugInv
  <2>3. ASSUME NEW q \in Request, pc'[q] \in HoldsWorkspace
        PROVE  \A w \in workspaces' : w.slug # WorkspaceSlug(q)
    <3>1. \A w \in workspaces : w.slug # WorkspaceSlug(q)
      <4>1. ~SlugTaken(WorkspaceSlug(q))
        BY <1>1, <2>0, <2>3, SlugMoves DEF SlugInv
      <4> QED BY <4>1 DEF SlugTaken
    <3>2. CASE UNCHANGED workspaces
      BY <3>1, <3>2
    <3>3. ASSUME Reserves(r) \/ Commit(r) PROVE WorkspaceSlug(r) # WorkspaceSlug(q) /\ q # r
      <4>1. CASE Reserves(r)
        BY <2>0, <2>1, <2>3, <4>1 DEF Reserves, HoldsWorkspace
      <4>2. CASE Commit(r)
        <5>1. pc[r] = "commit" /\ pc'[r] = "reply"
          BY <4>2 DEF Commit, Goto, ControlInv, TypeOK
        <5> QED BY <2>0, <2>3, <5>1 DEF SlugInv, HoldsWorkspace
      <4> QED BY <3>3, <4>1, <4>2
    <3>4. workspaces' \subseteq workspaces \cup {WorkspaceRow(r)} /\ WorkspaceRow(r).slug = WorkspaceSlug(r)
      BY <1>1, WritesOwn DEF WorkspaceRow
    <3> QED BY <1>1, <3>1, <3>2, <3>3, <3>4, SlugMoves
  <2> QED BY <1>0, <2>2, <2>3 DEF SlugInv, SlugTaken
<1>2. CASE \E w \in workspaces, u \in User : Invite(w, u)
  <2>1. workspaces' = workspaces /\ pc' = pc
    BY <1>2, InviteWrites
  <2> QED BY <1>0, <2>1 DEF SlugInv, SlugTaken
<1>3. CASE UNCHANGED vars
  <2>1. workspaces' = workspaces /\ pc' = pc
    BY <1>3 DEF vars, db
  <2> QED BY <1>0, <2>1 DEF SlugInv, SlugTaken
<1> QED BY <1>1, <1>2, <1>3 DEF Next, MayMove

\* In every reachable state a slug past its INSERT is held alone.
LEMMA SlugCorrect == Spec => []SlugInv
<1>1. Init => SlugInv
  BY DEF Init, SlugInv, HoldsWorkspace
<1> QED BY <1>1, SlugStep, ControlCorrect, PTL DEF Spec

-----------------------------------------------------------------------------
(* Refinement: every step is a step of the promise, or none of its.         *)

\* A request has written nothing exactly if it has written no workspace row.
LEMMA WrittenHasRow ==
  ASSUME ControlInv, AtomicityInv, RowInv, NEW r \in Request
  PROVE  Unwritten(r) <=> \A w \in workspaces : w.id # r
<1>1. input[r].kind \in Kind /\ WorkspaceRow(r).id = r
  BY InputTyped DEF ControlInv, WorkspaceRow
<1>2. CASE input[r].kind = "onboarding"
  BY <1>1, <1>2 DEF AtomicityInv, OnboardingAllOrNothing, Published, Unwritten
<1>3. CASE input[r].kind = "plain"
  BY <1>1, <1>3 DEF RowInv, Reserved, Usable, Unwritten
<1> QED BY <1>1, <1>2, <1>3 DEF Kind

\* What the stage of a request is, under the invariants.
Invs == ControlInv /\ StampInv /\ AtomicityInv /\ RowInv /\ SlugInv

StageMeans(r) ==
  /\ Unwritten(r) <=> \A w \in workspaces : w.id # r
  /\ Stage(r) = "absent" <=> Unwritten(r)
  /\ input[r].kind = "onboarding" => (Stage(r) = "usable" <=> ~Unwritten(r))
  /\ input[r].kind = "plain" => (Stage(r) = "reserved" <=> Reserved(r))
  /\ input[r].kind = "plain" => (Stage(r) = "usable" <=> Usable(r))
  /\ Stage(r) \in {"absent", "reserved", "usable"}

\* Under the invariants the torn stage never shows.
LEMMA StageIs == Invs => \A r \in Request : StageMeans(r)
<1> SUFFICES ASSUME Invs, NEW r \in Request PROVE StageMeans(r)
  OBVIOUS
<1>1. input[r].kind \in Kind
  BY InputTyped DEF Invs, ControlInv
<1>2. WorkspaceRow(r).id = r /\ MembershipRow(r).workspace = r
  BY DEF WorkspaceRow, MembershipRow
<1>3. Unwritten(r) <=> \A w \in workspaces : w.id # r
  BY WrittenHasRow DEF Invs
<1>4. CASE Unwritten(r)
  <2>1. WorkspaceRow(r) \notin workspaces
    BY <1>2, <1>4 DEF Unwritten
  <2> QED BY <1>1, <1>3, <1>4, <2>1 DEF StageMeans, Stage, Published, Reserved, Usable, Kind
<1>5. CASE ~Unwritten(r) /\ input[r].kind = "onboarding"
  BY <1>3, <1>5 DEF StageMeans, Stage, Invs, AtomicityInv, OnboardingAllOrNothing
<1>6. CASE ~Unwritten(r) /\ input[r].kind = "plain"
  BY <1>2, <1>3, <1>6 DEF StageMeans, Stage, Invs, RowInv, Reserved, Usable
<1> QED BY <1>1, <1>4, <1>5, <1>6 DEF Kind

\* The invariants, and what the stages mean, hold at both ends of a step.
LEMMA StageIsNext ==
  ASSUME Invs, [Next]_vars
  PROVE  Invs' /\ \A r \in Request : StageMeans(r)'
<1>1. RowInv'
  <2>1. input' = input
    BY RowsStay DEF Invs
  <2> QED BY <2>1, StagesStep, OneMembershipStep, OrphanStep, RefusalStep DEF RowInv, Invs
<1>2. Invs'
  BY <1>1, ControlStep, StampStep, AtomicityStep, SlugStep DEF Invs
<1>3. Invs' => (\A r \in Request : StageMeans(r))'
  BY StageIs, PTL
<1> QED BY <1>2, <1>3

\* The stage of a request changes only through a step of its own.
LEMMA StageFrame ==
  ASSUME Invs, [Next]_vars, NEW q \in Request,
         (MayMove(q) => UNCHANGED db) \/ \E r \in Request : r # q /\ MayMove(r)
  PROVE  Stage(q)' = Stage(q)
<1>0. /\ StageMeans(q) /\ StageMeans(q)' /\ input' = input /\ input[q].kind \in Kind
      /\ ControlInv
  BY StageIs, StageIsNext, RowsStay, InputTyped DEF Invs, ControlInv
<1>1. Unwritten(q) => Unwritten(q)'
  <2>1. ASSUME NEW r \in Request, MayMove(r), r # q PROVE Unwritten(q) => Unwritten(q)'
    BY <1>0, <2>1, UnwrittenFrame
  <2>2. CASE UNCHANGED db
    BY <2>2 DEF db, Unwritten
  <2>3. CASE \E w \in workspaces, u \in User : Invite(w, u)
    BY <2>3, UnwrittenInvite
  <2>4. CASE UNCHANGED vars
    BY <2>4 DEF vars, db, Unwritten
  <2> QED BY <2>1, <2>2, <2>3, <2>4 DEF Next, MayMove
<1>2. Usable(q) => Usable(q)'
  BY <1>0, UsableStays
<1>3. Reserved(q) => Reserved(q)'
  <2>1. ASSUME NEW r \in Request, r # q, MayMove(r), MayMove(q) PROVE UNCHANGED memberships
    <3>1. MembershipRow(r) # MembershipRow(q)
      BY <2>1 DEF MembershipRow
    <3>2. /\ memberships \subseteq memberships'
          /\ memberships' \subseteq memberships \cup {MembershipRow(r)}
          /\ memberships' \subseteq memberships \cup {MembershipRow(q)}
      BY <1>0, <2>1, WritesOwn
    <3> QED BY <3>1, <3>2
  <2>2. MayMove(q) => UNCHANGED memberships
    BY <2>1 DEF db
  <2> QED BY <1>0, <2>2, ReservedStays
<1>4. Unwritten(q)' => Unwritten(q)
  BY <1>0, RowsStay DEF StageMeans
<1> QED BY <1>0, <1>1, <1>2, <1>3, <1>4 DEF StageMeans, Kind

\* A free slug is free in the promise.
LEMMA SlugIsFree ==
  ASSUME Invs, NEW r \in Request, ~SlugTaken(WorkspaceSlug(r))
  PROVE  Promise!SlugFree(r)
<1>1. ASSUME NEW q \in Request, WorkspaceSlug(q) = WorkspaceSlug(r) PROVE Stage(q) = "absent"
  <2>1. WorkspaceRow(q) \notin workspaces
    BY <1>1 DEF SlugTaken, WorkspaceRow
  <2>2. input[q].kind \in Kind
    BY InputTyped DEF Invs, ControlInv
  <2>3. Unwritten(q)
    BY <2>1, <2>2 DEF Invs, Kind, AtomicityInv, OnboardingAllOrNothing, Published,
                      RowInv, Reserved, Usable
  <2> QED BY <2>3, StageIs DEF StageMeans
<1> QED BY <1>1 DEF Promise!SlugFree, Asked

\* What a step that changes one stage does to the promise.
LEMMA StageMoves ==
  ASSUME Invs, [Next]_vars, NEW r \in Request, MayMove(r), NEW s, Stage(r)' = s
  PROVE  /\ [q \in Request |-> Stage(q)]' = [[q \in Request |-> Stage(q)] EXCEPT ![r] = s]
         /\ [q \in Request |-> Asked(q)]' = [q \in Request |-> Asked(q)]
<1>1. \A q \in Request : q # r => Stage(q)' = Stage(q)
  BY StageFrame
<1>2. input' = input /\ \A q \in Request : WorkspaceSlug(q)' = WorkspaceSlug(q)
  BY RowsStay, SameRows DEF Invs
<1>3. \A q \in Request : Asked(q)' = Asked(q)
  BY <1>2 DEF Asked
<1> QED BY <1>1, <1>3

\* A step that writes no row, of anybody, is no step of the promise.
LEMMA QuietStutters ==
  ASSUME Invs, [Next]_vars, UNCHANGED onboarded,
         \A q \in Request : MayMove(q) => UNCHANGED db
  PROVE  UNCHANGED Promise!promise
<1>1. \A q \in Request : Stage(q)' = Stage(q)
  BY StageFrame
<1>2. input' = input /\ \A q \in Request : WorkspaceSlug(q)' = WorkspaceSlug(q)
  BY RowsStay, SameRows DEF Invs
<1>3. \A q \in Request : Asked(q)' = Asked(q)
  BY <1>2 DEF Asked
<1>4. /\ [q \in Request |-> Stage(q)]' = [q \in Request |-> Stage(q)]
      /\ [q \in Request |-> Asked(q)]' = [q \in Request |-> Asked(q)]
  BY <1>1, <1>3
<1> QED BY <1>4 DEF Promise!promise

\* Every step of the endpoints is a step of the promise or none.
LEMMA PromiseStep ==
  ASSUME Invs, [Next]_vars
  PROVE  [Promise!Next]_(Promise!promise)
<1> DEFINE stage == [q \in Request |-> Stage(q)]
           asked == [q \in Request |-> Asked(q)]
<1>0. /\ \A q \in Request : StageMeans(q) /\ StageMeans(q)'
      /\ \A q \in Request : WorkspaceRow(q)' = WorkspaceRow(q)
      /\ input' = input
  BY StageIs, StageIsNext, RowsStay, SameRows DEF Invs
<1>1. ASSUME NEW r \in Request, MayMove(r), UNCHANGED db PROVE UNCHANGED Promise!promise
  BY <1>1, QuietStutters DEF db
<1>2. ASSUME NEW r \in Request, MayMove(r), Reserves(r) PROVE Promise!Reserve(r)
  <2>1. input[r].kind = "plain" /\ Unwritten(r)
    BY <1>2 DEF Reserves, Invs, ControlInv, LabelOfKind, AtomicityInv, BeforeWrites
  <2>2. Reserved(r)'
    BY <1>0, <1>2, <2>1 DEF Reserves, Reserved, Unwritten
  <2>3. Stage(r) = "absent" /\ Stage(r)' = "reserved"
    BY <1>0, <2>1, <2>2 DEF StageMeans
  <2>4. stage' = [stage EXCEPT ![r] = "reserved"] /\ asked' = asked
    BY <1>2, <2>3, StageMoves
  <2>5. Promise!SlugFree(r)
    BY <1>2, SlugIsFree DEF Reserves
  <2>6. UNCHANGED onboarded
    BY <1>2 DEF Reserves
  <2> QED BY <2>1, <2>3, <2>4, <2>5, <2>6 DEF Promise!Reserve, Asked
<1>3. ASSUME NEW r \in Request, MayMove(r), Owns(r) PROVE Promise!Own(r)
  <2>1. input[r].kind = "plain" /\ Reserved(r)
    BY <1>3 DEF Owns, Invs, ControlInv, LabelOfKind, RowInv
  <2>2. Usable(r)'
    BY <1>0, <1>3, <2>1, SameRows DEF Owns, Usable, Reserved
  <2>3. Stage(r) = "reserved" /\ Stage(r)' = "usable"
    BY <1>0, <2>1, <2>2 DEF StageMeans
  <2>4. stage' = [stage EXCEPT ![r] = "usable"] /\ asked' = asked
    BY <1>3, <2>3, StageMoves
  <2>5. UNCHANGED onboarded
    BY <1>3 DEF Owns
  <2> QED BY <2>3, <2>4, <2>5 DEF Promise!Own
<1>4. ASSUME NEW r \in Request, MayMove(r), Commit(r) PROVE Promise!Onboard(r)
  <2>1. /\ input[r].kind = "onboarding" /\ Unwritten(r) /\ Usable(r)' /\ pc[r] = "commit"
        /\ input[r].user \in User /\ onboarded \in [User -> Request \cup {Never}]
    BY <1>4, CommitMakesUsable, InputTyped DEF Invs, ControlInv, TypeOK
  <2>2. ~Unwritten(r)'
    BY <1>0, <2>1 DEF StageMeans, Usable, WorkspaceRow
  <2>3. Stage(r) = "absent" /\ Stage(r)' = "usable"
    BY <1>0, <2>1, <2>2 DEF StageMeans
  <2>4. stage' = [stage EXCEPT ![r] = "usable"] /\ asked' = asked
    BY <1>4, <2>3, StageMoves
  <2>5. Promise!SlugFree(r)
    BY <2>1, SlugIsFree DEF Invs, SlugInv, HoldsWorkspace
  <2>6. onboarded' = [onboarded EXCEPT ![input[r].user] = IF @ = Never THEN r ELSE @]
    <3>1. tx[r].stamps = {} \/ tx[r].stamps = {input[r].user}
      BY <2>1 DEF Invs, ControlInv, Staged
    <3>2. CASE tx[r].stamps = {}
      <4>1. onboarded[input[r].user] # Never
        BY <2>1, <3>2 DEF Invs, StampInv
      <4> QED BY <1>4, <2>1, <3>2, <4>1 DEF Commit
    <3>3. CASE tx[r].stamps = {input[r].user}
      <4>1. onboarded[input[r].user] = Never
        BY <2>1, <3>3 DEF Invs, StampInv
      <4> QED BY <1>4, <2>1, <3>3, <4>1 DEF Commit
    <3> QED BY <3>1, <3>2, <3>3
  <2> QED BY <2>1, <2>3, <2>4, <2>5, <2>6 DEF Promise!Onboard, Asked
<1>5. ASSUME NEW r \in Request, MayMove(r) PROVE [Promise!Next]_(Promise!promise)
  <2>1. UNCHANGED db \/ Reserves(r) \/ Owns(r) \/ Commit(r)
    BY <1>5, RowMoves DEF Invs, GoesOn, Refuses, Breaks, Confirms
  <2> QED BY <1>1, <1>2, <1>3, <1>4, <1>5, <2>1 DEF Promise!Next
<1>6. CASE (\A r \in Request : ~MayMove(r)) /\ \E w \in workspaces, u \in User : Invite(w, u)
  BY <1>6, InviteWrites, QuietStutters
<1>7. CASE UNCHANGED vars
  BY <1>7, QuietStutters DEF vars, db
<1> QED BY <1>5, <1>6, <1>7 DEF Next, MayMove

\* Statement by statement, with locks, rollbacks and crashes, the two
\* endpoints do what the promise says and nothing else a reader can tell.
THEOREM EndpointsKeepPromise == Spec => ImplementsPromise
<1>1. Init => Promise!Init
  <2> SUFFICES ASSUME Init PROVE Promise!Init
    OBVIOUS
  <2>1. TypeOK
    BY DEF Init, TypeOK, PC, Answer, NoTx, TxType
  <2>2. \A r \in Request : Asked(r) \in [kind : {"plain", "onboarding"}, user : User, slug : Slug]
    BY <2>1, InputTyped, PrefixAssumption DEF Asked, WorkspaceSlug, Slug, Range, Kind
  <2>3. ASSUME NEW r \in Request PROVE Stage(r) = "absent"
    <3>1. Unwritten(r) /\ WorkspaceRow(r) \notin workspaces
      BY NeverAssumption DEF Init, Unwritten
    <3> QED BY <3>1 DEF Stage, Published
  <2>4. onboarded = [u \in User |-> Never]
    BY DEF Init
  <2> QED BY <2>2, <2>3, <2>4 DEF Promise!Init
<1>2. Spec => []Invs
  BY RowCorrect, SlugCorrect, AtomicityCorrect, StampCorrect, ControlCorrect, PTL DEF Invs
<1>3. Invs /\ [Next]_vars => [Promise!Next]_(Promise!promise)
  BY PromiseStep
<1> QED BY <1>1, <1>2, <1>3, PTL DEF Spec, ImplementsPromise, Promise!Spec

-----------------------------------------------------------------------------
(* What readers of the database can rely on.                                *)

\* The theorems of the promise, read of the rows the endpoints write.
Reader == INSTANCE PromiseProofs WITH
  asked <- [r \in Request |-> Asked(r)],
  stage <- [r \in Request |-> Stage(r)]

\* Whatever statements fail, wait and interleave: a slug names one workspace at
\* most, whichever endpoints race for it; a user recorded as onboarded has a
\* usable workspace of their own making; and nothing a reader has seen, a
\* usable workspace, a taken slug or a completed onboarding, is taken back.
THEOREM ReadersCanRely ==
  Spec => /\ []Reader!SlugHasOneHolder
          /\ []Reader!OnboardedIsUsable
          /\ Reader!NothingIsTakenBack
<1>1. ImplementsPromise => Reader!Spec
  BY DEF ImplementsPromise, Promise!Spec, Reader!Spec, Promise!Init, Reader!Init,
         Promise!Next, Reader!Next, Promise!promise, Reader!promise,
         Promise!Reserve, Reader!Reserve, Promise!Own, Reader!Own,
         Promise!Onboard, Reader!Onboard, Promise!SlugFree, Reader!SlugFree
<1>2. Reader!Spec => []Reader!SlugHasOneHolder
  BY Reader!SlugsHaveOneHolder
<1>3. Reader!Spec => []Reader!OnboardedIsUsable
  BY Reader!OnboardedAreUsable
<1>4. Reader!Spec => Reader!NothingIsTakenBack
  BY Reader!NothingTakenBack
<1> QED
  BY <1>1, <1>2, <1>3, <1>4, EndpointsKeepPromise, PTL
=============================================================================
