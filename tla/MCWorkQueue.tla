---------------------------- MODULE MCWorkQueue -----------------------------
(***************************************************************************)
(* An instance of WorkQueue for TLC.                                       *)
(***************************************************************************)
EXTENDS WorkQueue

\* Three threads, of which two end when there is no work.
Three == {3}
=============================================================================
