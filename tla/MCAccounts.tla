----------------------------- MODULE MCAccounts -----------------------------
(* Instances of Accounts for TLC.                                           *)
EXTENDS Accounts, TLC

CONSTANTS ann, bea

\* Ann's address has two spellings, which the provider does not tell apart.
MCAddress == {ann, bea}
MCEmail   == {"ann", "Ann", "bea"}
MCCanon   == [e \in MCEmail |-> IF e = "bea" THEN bea ELSE ann]

Body(k, e, p) == [kind |-> k, email |-> e, password |-> p]

MCInput ==
  {Body(k, e, "right") : k \in {"register", "login"}, e \in MCEmail}
  \cup {Body("login", "ann", "wrong"), Body("refresh", "ann", "right"), Body("refresh", "Ann", "right")}

Symmetry == Permutations(Request)
=============================================================================
