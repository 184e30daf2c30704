---------------------------- MODULE MCChunkMaster ----------------------------
(* Instances of ChunkMaster for TLC.                                         *)
EXTENDS ChunkMaster, TLC

CONSTANTS s1, s2, h1, h2

OneServer == {s1}
TwoServers == {s1, s2}
OneHandler == {h1}
TwoHandlers == {h1, h2}
==============================================================================
