----------------------------- MODULE MCFidAlloc -----------------------------
(***************************************************************************)
(* Instances of FidAlloc for TLC.                                          *)
(***************************************************************************)
EXTENDS FidAlloc

CONSTANTS s1, u1, u2

OneServer == {s1}
TwoUploads == {u1, u2}
=============================================================================
