---------------------------- MODULE MCWorkspaces ----------------------------
(* Instances of Workspaces for TLC.                                         *)
EXTENDS Workspaces, TLC

CONSTANTS alice, bob, carol, crm, mail, bogus

MCUser    == {alice, bob, carol}
MCProfile == {alice, bob}
MCPrefix  == alice :> "p1" @@ bob :> "p2" @@ carol :> "p3"
MCApp     == {crm, mail, bogus}
MCCatalog == {crm, mail}

Body(k, u, b, n, a) == [kind |-> k, user |-> u, base |-> b, name |-> n, app_ids |-> a]

Creates(us, bs, ns)        == {Body("plain", u, b, n, << >>) : u \in us, b \in bs, n \in ns}
Onboards(us, bs, ns, apps) == {Body("onboarding", u, b, n, a) : u \in us, b \in bs, n \in ns, a \in apps}

\* Every body that behaves differently: one or two users, same or different
\* slug and name, each kind of app selection, and a user without a profile.
BroadInput ==
  Creates({alice}, {"a", "b"}, {"acme"})
  \cup Creates({bob}, {"a"}, {"acme"})
  \cup Onboards({alice}, {"a"}, {"acme"}, {<<crm>>, <<crm, mail>>, << >>, <<bogus>>, <<crm, crm>>})
  \cup Onboards({alice}, {"b"}, {"acme"}, {<<crm>>})
  \cup Onboards({bob}, {"a"}, {"acme"}, {<<crm>>})
  \cup Onboards({carol}, {"a"}, {"acme"}, {<<crm>>})

Symmetry == Permutations(Request)
=============================================================================
