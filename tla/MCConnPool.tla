----------------------------- MODULE MCConnPool -----------------------------
(***************************************************************************)
(* An instance of ConnPool for TLC.                                        *)
(***************************************************************************)
EXTENDS ConnPool, TLC

CONSTANTS s1, s2, g1, g2

\* Both servers are in a group; one changes its group; one is gone.
Changes == {s1 :> g1 @@ s2 :> g1, s1 :> g2 @@ s2 :> g1, s1 :> NoGroup @@ s2 :> g1}
=============================================================================
