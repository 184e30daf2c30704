---------------------------- MODULE MCImageServer ----------------------------
(* An instance of ImageServer for TLC.                                       *)
EXTENDS ImageServer

CONSTANTS s1, s2, h1, h2, tag, blob, dest

TwoServers == {s1, s2}
TwoHandlers == {h1, h2}
OneTag == {tag}
ThreePaths == {tag, blob, dest}
\* The registry driver says v1, other clients may not.
TagAndBlob ==
  {[op |-> op, path |-> tag, dest |-> None, version |-> v] : op \in {"whole", "delete"}, v \in Versions}
    \cup {[op |-> op, path |-> blob, dest |-> None, version |-> "v2"] :
             op \in {"whole", "fragment"}}
    \cup {[op |-> "move", path |-> blob, dest |-> dest, version |-> "v2"]}
==============================================================================
