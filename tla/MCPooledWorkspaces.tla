------------------------- MODULE MCPooledWorkspaces -------------------------
(* An instance of PooledWorkspaces for TLC: more requests than connections. *)
EXTENDS PooledWorkspaces, TLC

CONSTANTS alice, bob, crm, r1, r2, r3

MCRequest == {r1, r2, r3}
MCUser    == {alice, bob}
MCPrefix  == alice :> "p1" @@ bob :> "p1"
MCApp     == {crm}

Body(k, u, b, n) ==
  [kind |-> k, user |-> u, base |-> b, name |-> n, app_ids |-> IF k = "plain" THEN << >> ELSE <<crm>>]

\* Two users whose prefixes, hence slugs, collide: the request of bob and the
\* first of alice wait for one key, the two of alice for one profile.
Plain == Body("plain", bob, "a", "acme")
Same  == Body("onboarding", alice, "a", "acme")
Other == Body("onboarding", alice, "b", "bar")

MCInput == {Plain, Same, Other}

\* Liveness does not admit symmetry, so that each body has its request here.
MCInit ==
  /\ PooledInit
  /\ input = r1 :> Plain @@ r2 :> Same @@ r3 :> Other

MCSpec == MCInit /\ [][PooledNext]_pooledVars /\ PooledFairness
=============================================================================
