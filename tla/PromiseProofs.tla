--------------------------- MODULE PromiseProofs ---------------------------
(* Theorems about WorkspacePromise, for any requests, users and slugs.      *)
EXTENDS WorkspacePromise, TLAPS

Inv == TypeOK /\ SlugHasOneHolder /\ OnboardedIsUsable

LEMMA InitInv == Init => Inv
BY DEF Init, Inv, TypeOK, SlugHasOneHolder, OnboardedIsUsable

LEMMA InvStep ==
  ASSUME Inv, [Next]_promise
  PROVE  Inv'
<1> USE DEF Inv, TypeOK, SlugHasOneHolder, OnboardedIsUsable, SlugFree
<1>1. CASE UNCHANGED promise
  BY <1>1 DEF promise
<1>2. ASSUME NEW r \in Request, Reserve(r) PROVE Inv'
  BY <1>2 DEF Reserve
<1>3. ASSUME NEW r \in Request, Own(r) PROVE Inv'
  BY <1>3 DEF Own
<1>4. ASSUME NEW r \in Request, Onboard(r) PROVE Inv'
  <2>1. asked[r].user \in User
    OBVIOUS
  <2>2. TypeOK'
    BY <1>4, <2>1 DEF Onboard
  <2>3. SlugHasOneHolder'
    BY <1>4 DEF Onboard
  <2>4. OnboardedIsUsable'
    BY <1>4, <2>1 DEF Onboard
  <2> QED
    BY <2>2, <2>3, <2>4
<1> QED
  BY <1>1, <1>2, <1>3, <1>4 DEF Next

LEMMA Invariance == Spec => []Inv
BY InitInv, InvStep, PTL DEF Spec

\* The stages and the onboardings keep their types.
THEOREM PromiseTypeCorrect == Spec => []TypeOK
<1>1. Inv => TypeOK
  BY DEF Inv
<1> QED
  BY <1>1, Invariance, PTL

\* A slug names one workspace at most, whichever endpoints ask for it.
THEOREM SlugsHaveOneHolder == Spec => []SlugHasOneHolder
<1>1. Inv => SlugHasOneHolder
  BY DEF Inv
<1> QED
  BY <1>1, Invariance, PTL

\* A user recorded as onboarded has a usable workspace of their own making.
THEOREM OnboardedAreUsable == Spec => []OnboardedIsUsable
<1>1. Inv => OnboardedIsUsable
  BY DEF Inv
<1> QED
  BY <1>1, Invariance, PTL

\* Usable workspaces, taken slugs and completed onboardings are for ever.
THEOREM NothingTakenBack == Spec => NothingIsTakenBack
<1>1. ASSUME TypeOK, [Next]_promise
      PROVE  [/\ \A r \in Request : stage[r] = "usable" => stage'[r] = "usable"
              /\ \A r \in Request : stage[r] # "absent" => stage'[r] # "absent"
              /\ \A u \in User : onboarded[u] # Never => onboarded'[u] = onboarded[u]
              /\ asked' = asked]_promise
  BY <1>1 DEF TypeOK, Next, Reserve, Own, Onboard
<1> QED
  BY <1>1, PromiseTypeCorrect, PTL DEF Spec, NothingIsTakenBack
=============================================================================
