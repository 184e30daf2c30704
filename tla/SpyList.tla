------------------------------ MODULE SpyList -------------------------------
(***************************************************************************)
(* The linked lists of the chunk server (chunkserver/spy_list.h).  A list  *)
(* is a sequence; list_add is <<x>> \o s and list_add_tail is Append.      *)
(***************************************************************************)
EXTENDS Integers, Sequences, FiniteSets, FiniteSetsExt, Functions

\* list_del of the entry at position i.
list_del(s, i) == SubSeq(s, 1, i - 1) \o SubSeq(s, i + 1, Len(s))

\* list_for_each_entry left at the first of the positions whose entry passes a
\* test, 0 if there is none.
list_find(passing) == IF passing # {} THEN Min(passing) ELSE 0
=============================================================================
