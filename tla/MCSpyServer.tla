---------------------------- MODULE MCSpyServer -----------------------------
(***************************************************************************)
(* Instances of SpyServer for TLC.                                         *)
(***************************************************************************)
EXTENDS SpyServer, TLC

CONSTANTS f1, f2, c1, c2, c3

\* A small and a large file.
OneFid == {f1}
TwoFids == {f1, f2}
FileSizes == [f \in Fids |-> IF f = f2 THEN 2 ELSE 1]

TwoConns == {c1, c2}
ThreeConns == {c1, c2, c3}

\* The error a connection is answered with decides nothing: states that differ in
\* it alone are one.
ErrorsAside ==
  <<storeVars, mode, [c \in Conns |-> <<conn[c].state, conn[c].readable>>], job,
    chunks, writing_chunks, pending_writes, pending_writes_size, free_io_jobs,
    index, statistic, acked, sb_failed, crashes>>

ConnSymmetry == Permutations(Conns)
=============================================================================
