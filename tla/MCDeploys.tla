------------------------------ MODULE MCDeploys ------------------------------
(* Instances of Deploys for TLC.                                            *)
EXTENDS Deploys, TLC

Dir(first, second) == 1 :> first @@ 2 :> second

\* One migration, and a second that is sound or broken.
MCTree == {Dir("sound", "absent"), Dir("sound", "sound"), Dir("sound", "broken")}
=============================================================================
