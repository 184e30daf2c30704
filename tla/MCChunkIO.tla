----------------------------- MODULE MCChunkIO -----------------------------
(***************************************************************************)
(* An instance of ChunkIO for TLC.  The widths are scaled so that a chunk  *)
(* of 32 cells meets an int of 6 bits as the chunk of 2^31 bytes meets the *)
(* int of 32: after files 1 and 2 its offset is the largest int, and file  *)
(* 3 after file 1 would fill the chunk to the last cell.                   *)
(***************************************************************************)
EXTENDS ChunkIO

CONSTANTS c1, c2

MCClients == {c1, c2}
MCFids == {1, 2, 3}
MCBody == <<<<31, 7, 0, 9>>, <<>>, <<5>>>>
MCMagic == <<17>>

MCRequest(op, fid) == [op |-> op, server_id |-> SERVER_ID, fid |-> fid]

MCRequests ==
  (c1 :> {MCRequest(OPCODE_WRITE, f) : f \in MCFids}) @@
  (c2 :> {MCRequest(op, 1) : op \in Opcodes \ {OPCODE_WRITE}})

MCCuts == (c1 :> {1}) @@ (c2 :> {})
MCMaxRequests == (c1 :> 2) @@ (c2 :> 1)

\* The state without what nothing reads before it is written again: the
\* opcode between requests, the response's header while none is sent, the
\* owner of a descriptor without events.
DeadAside ==
  LET Live(conn) ==
        IF conn = NULL THEN NULL
        ELSE [conn EXCEPT !.opcode     = IF conn.state = "RECEIVE_HDR" THEN 0 ELSE @,
                          !.rsp_header = IF conn.state = "SEND_RSP" THEN @ ELSE <<>>]
      Owner(fd) == IF proc.el.mask[fd] = AE_NONE THEN NoOwner ELSE proc.el.owner[fd]
  IN <<mode, file,
       [proc EXCEPT !.conn     = [c \in Clients |-> Live(@[c])],
                    !.el.owner = [fd \in Fds |-> Owner(fd)]],
       fired, client, acked, asked, crashes>>
=============================================================================
