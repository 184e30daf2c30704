--------------------------- MODULE SpyServerFacts ---------------------------
(***************************************************************************)
(* The inductive invariant of SpyServer, that it has the checked           *)
(* properties, what the proofs that it is inductive rest on (what the      *)
(* searches find and what each kind of step leaves alone), and that every  *)
(* step preserves the type invariant.                                      *)
(***************************************************************************)
EXTENDS SpyServer, WellFoundedInduction, TLAPS

-----------------------------------------------------------------------------
(* Sequences, of which the provers know what they are.                     *)

(* A sequence is a function on an initial segment of the numbers.           *)
LEMMA SeqDef == \A S : Seq(S) = UNION {[1..n -> S] : n \in Nat}
OBVIOUS

(* The elements of a sequence.                                              *)
LEMMA ElementOfSeq ==
  ASSUME NEW S, NEW q \in Seq(S), NEW i \in 1..Len(q)
  PROVE  q[i] \in S
OBVIOUS

(* The empty sequence, and those that are not.                              *)
LEMMA EmptySeq ==
  ASSUME NEW S
  PROVE  /\ <<>> \in Seq(S) /\ Len(<<>>) = 0
         /\ \A q \in Seq(S) : q # <<>> => Len(q) \in Nat \ {0}
OBVIOUS

(* Length and domain.                                                       *)
LEMMA LenProperties ==
  ASSUME NEW S, NEW q \in Seq(S)
  PROVE  /\ Len(q) \in Nat
         /\ q \in [1..Len(q) -> S] /\ DOMAIN q = 1..Len(q)
OBVIOUS

(* Two sequences joined.                                                    *)
LEMMA ConcatProperties ==
  ASSUME NEW S, NEW q \in Seq(S), NEW r \in Seq(S)
  PROVE  /\ q \o r \in Seq(S) /\ Len(q \o r) = Len(q) + Len(r)
         /\ \A i \in 1..(Len(q) + Len(r)) :
              (q \o r)[i] = IF i <= Len(q) THEN q[i] ELSE r[i - Len(q)]
OBVIOUS

(* A part of a sequence.                                                    *)
LEMMA SubSeqProperties ==
  ASSUME NEW S, NEW q, NEW i \in Int, NEW k \in Int, \A j \in i..k : q[j] \in S
  PROVE  /\ SubSeq(q, i, k) \in Seq(S)
         /\ Len(SubSeq(q, i, k)) = IF i <= k THEN k - i + 1 ELSE 0
         /\ \A j \in 1..(k - i + 1) : SubSeq(q, i, k)[j] = q[i + j - 1]
OBVIOUS

(* An element put at the end.                                               *)
LEMMA AppendProperties ==
  ASSUME NEW S, NEW q \in Seq(S), NEW e \in S
  PROVE  /\ Append(q, e) \in Seq(S) /\ Append(q, e) # <<>>
         /\ Len(Append(q, e)) = Len(q) + 1
         /\ \A i \in 1..Len(q) : Append(q, e)[i] = q[i]
         /\ Append(q, e)[Len(q) + 1] = e
OBVIOUS

-----------------------------------------------------------------------------
(* The operators on sequences that model the linked lists: the first       *)
(* element that passes a test, an element taken out of the middle, an      *)
(* element added at either end.                                            *)

(* A set of natural numbers that is not empty has a least element, and Min  *)
(* is that element.                                                        *)
LEMMA MinOfNats ==
  ASSUME NEW S \in SUBSET Nat, S # {}
  PROVE  /\ Min(S) \in S
         /\ \A y \in S : Min(S) <= y
<1> DEFINE R == {ss \in Nat \X Nat : ss[1] < ss[2]}
<1>1. IsWellFoundedOn(R, Nat)
  BY NatLessThanWellFounded, Zenon DEF OpToRel
<1>2. PICK x \in S : \A y \in S : ~(<<y, x>> \in R)
  <2> HIDE DEF R
  <2> QED BY <1>1, WFMin, Zenon
<1>3. \A y \in S : x <= y
  <2> SUFFICES ASSUME NEW y \in S, x > y PROVE FALSE
    OBVIOUS
  <2>1. <<y, x>> \in Nat \X Nat /\ <<y, x>>[1] < <<y, x>>[2]
    OBVIOUS
  <2> QED BY <1>2, <2>1
<1>4. QED
  BY <1>3, Zenon DEF Min

-----------------------------------------------------------------------------
(* list_del of the i-th element: one shorter, the rest in order.            *)
LEMMA RemoveAtProperties ==
  ASSUME NEW S, NEW s \in Seq(S), NEW i \in 1..Len(s)
  PROVE  /\ list_del(s, i) \in Seq(S)
         /\ Len(list_del(s, i)) = Len(s) - 1
         /\ \A j \in 1..(Len(s) - 1) :
              list_del(s, i)[j] = IF j < i THEN s[j] ELSE s[j + 1]
<1> DEFINE a == SubSeq(s, 1, i - 1)
           b == SubSeq(s, i + 1, Len(s))
<1>0. Len(s) \in Nat /\ \A j \in 1..Len(s) : s[j] \in S
  BY LenProperties, ElementOfSeq
<1>1. /\ a \in Seq(S)
      /\ Len(a) = i - 1
      /\ \A j \in 1..(i - 1) : a[j] = s[j]
  <2>1. \A j \in 1..(i - 1) : s[j] \in S
    BY <1>0
  <2> QED BY <1>0, <2>1, SubSeqProperties
<1>2. /\ b \in Seq(S)
      /\ Len(b) = Len(s) - i
      /\ \A j \in 1..(Len(s) - i) : b[j] = s[i + j]
  <2>1. \A j \in (i + 1)..Len(s) : s[j] \in S
    BY <1>0
  <2>2. /\ SubSeq(s, i + 1, Len(s)) \in Seq(S)
        /\ Len(b) = IF i + 1 <= Len(s) THEN Len(s) - (i + 1) + 1 ELSE 0
        /\ \A j \in 1..(Len(s) - (i + 1) + 1) : b[j] = s[(i + 1) + j - 1]
    <3> HIDE DEF a
    <3>1. i + 1 \in Int /\ Len(s) \in Int
      BY <1>0
    <3> QED BY <2>1, <3>1, SubSeqProperties
  <2> QED BY <1>0, <2>2
<1>3. list_del(s, i) = a \o b
  BY DEF list_del
<1> HIDE DEF a, b
<1>4. QED
  <2>1. /\ a \o b \in Seq(S)
        /\ Len(a \o b) = Len(a) + Len(b)
        /\ \A j \in 1..(Len(a) + Len(b)) :
             (a \o b)[j] = IF j <= Len(a) THEN a[j] ELSE b[j - Len(a)]
    BY <1>1, <1>2, ConcatProperties, Zenon
  <2>2. ASSUME NEW j \in 1..(Len(s) - 1)
        PROVE  (a \o b)[j] = IF j < i THEN s[j] ELSE s[j + 1]
    <3>1. CASE j < i
      BY <1>0, <1>1, <1>2, <2>1, <3>1
    <3>2. CASE ~(j < i)
      <4>1. j - Len(a) \in 1..(Len(s) - i) /\ i + (j - Len(a)) = j + 1
        BY <1>0, <1>1, <3>2
      <4>2. (a \o b)[j] = b[j - Len(a)]
        <5>1. j \in 1..(Len(a) + Len(b)) /\ ~(j <= Len(a))
          BY <1>0, <1>1, <1>2, <3>2
        <5> QED BY <2>1, <5>1
      <4>3. b[j - Len(a)] = s[j + 1]
        BY <1>2, <4>1, Zenon
      <4> QED BY <3>2, <4>2, <4>3
    <3> QED BY <3>1, <3>2, Zenon
  <2> QED BY <1>0, <1>1, <1>2, <1>3, <2>1, <2>2

(* list_del from a list that holds each element once takes that element out *)
(* of the set of elements and leaves each of the others once.               *)
LEMMA RemoveAtInjective ==
  ASSUME NEW S, NEW s \in Seq(S), NEW i \in 1..Len(s), IsInjective(s)
  PROVE  /\ IsInjective(list_del(s, i))
         /\ Range(list_del(s, i)) = Range(s) \ {s[i]}
<1> DEFINE r == list_del(s, i)
<1>1. /\ r \in Seq(S)
      /\ Len(r) = Len(s) - 1
      /\ \A j \in 1..(Len(s) - 1) : r[j] = IF j < i THEN s[j] ELSE s[j + 1]
  BY RemoveAtProperties, Zenon
<1>2. Len(s) \in Nat /\ DOMAIN s = 1..Len(s) /\ DOMAIN r = 1..(Len(s) - 1)
  BY <1>1, LenProperties
<1> HIDE DEF r
<1>3. \A j, k \in 1..Len(s) : s[j] = s[k] => j = k
  BY <1>2 DEF IsInjective
<1>4. \A j, k \in 1..(Len(s) - 1) : r[j] = r[k] => j = k
  BY <1>1, <1>2, <1>3
<1>5. ASSUME NEW e \in Range(r)
      PROVE  e \in Range(s) \ {s[i]}
  <2>1. PICK j \in 1..(Len(s) - 1) : e = r[j]
    BY <1>2 DEF Range
  <2> DEFINE m == IF j < i THEN j ELSE j + 1
  <2>2. m \in 1..Len(s) /\ m # i /\ e = s[m]
    BY <1>1, <1>2, <2>1
  <2> QED BY <1>2, <1>3, <2>2 DEF Range
<1>6. ASSUME NEW e \in Range(s) \ {s[i]}
      PROVE  e \in Range(r)
  <2>1. PICK j \in 1..Len(s) : e = s[j]
    BY <1>2 DEF Range
  <2> DEFINE m == IF j < i THEN j ELSE j - 1
  <2>2. j # i
    BY <2>1
  <2>3. m \in 1..(Len(s) - 1) /\ r[m] = s[j]
    BY <1>1, <1>2, <2>2
  <2> QED BY <1>2, <2>1, <2>3 DEF Range
<1>7. QED
  BY <1>2, <1>4, <1>5, <1>6 DEF IsInjective, r

(* list_add_tail of a new element.                                          *)
LEMMA AppendInjectiveSet ==
  ASSUME NEW S, NEW s \in Seq(S), NEW e \in S
  PROVE  /\ Range(Append(s, e)) = Range(s) \cup {e}
         /\ IsInjective(s) /\ e \notin Range(s) => IsInjective(Append(s, e))
<1> DEFINE r == Append(s, e)
<1>1. /\ r \in Seq(S)
      /\ Len(r) = Len(s) + 1
      /\ \A j \in 1..Len(s) : r[j] = s[j]
      /\ r[Len(s) + 1] = e
  BY AppendProperties
<1>2. Len(s) \in Nat /\ DOMAIN s = 1..Len(s) /\ DOMAIN r = 1..(Len(s) + 1)
  BY <1>1, LenProperties
<1> HIDE DEF r
<1>3. Range(r) = Range(s) \cup {e}
  BY <1>1, <1>2 DEF Range
<1>4. ASSUME IsInjective(s), e \notin Range(s)
      PROVE  IsInjective(r)
  BY <1>1, <1>2, <1>4 DEF Range, IsInjective
<1>5. QED
  BY <1>3, <1>4 DEF r

(* list_add of a new element at the head.                                   *)
LEMMA PushInjectiveSet ==
  ASSUME NEW S, NEW s \in Seq(S), NEW e \in S
  PROVE  /\ <<e>> \o s \in Seq(S)
         /\ Len(<<e>> \o s) = Len(s) + 1
         /\ Range(<<e>> \o s) = Range(s) \cup {e}
         /\ IsInjective(s) /\ e \notin Range(s) => IsInjective(<<e>> \o s)
<1> DEFINE r == <<e>> \o s
<1>0. Len(s) \in Nat /\ <<e>> \in Seq(S) /\ Len(<<e>>) = 1 /\ <<e>>[1] = e
  BY LenProperties
<1>1. /\ r \in Seq(S)
      /\ Len(r) = Len(s) + 1
      /\ \A j \in 1..(Len(s) + 1) : r[j] = IF j = 1 THEN e ELSE s[j - 1]
  <2>1. /\ r \in Seq(S)
        /\ Len(r) = 1 + Len(s)
        /\ \A j \in 1..(1 + Len(s)) :
             r[j] = IF j <= 1 THEN <<e>>[j] ELSE s[j - 1]
    BY <1>0, ConcatProperties
  <2> HIDE DEF r
  <2> QED BY <1>0, <2>1
<1>2. DOMAIN s = 1..Len(s) /\ DOMAIN r = 1..(Len(s) + 1)
  BY <1>1, LenProperties
<1> HIDE DEF r
<1>3. Range(r) \subseteq Range(s) \cup {e}
  BY <1>0, <1>1, <1>2 DEF Range
<1>4. Range(s) \cup {e} \subseteq Range(r)
  <2>1. e \in Range(r)
    BY <1>0, <1>1, <1>2 DEF Range
  <2>2. ASSUME NEW j \in 1..Len(s) PROVE s[j] \in Range(r)
    <3>1. j + 1 \in 1..(Len(s) + 1) /\ r[j + 1] = s[j]
      BY <1>0, <1>1
    <3> QED BY <1>2, <3>1 DEF Range
  <2> QED BY <1>2, <2>1, <2>2 DEF Range
<1>5. ASSUME IsInjective(s), e \notin Range(s)
      PROVE  IsInjective(r)
  <2>1. \A j, k \in 1..Len(s) : s[j] = s[k] => j = k
    BY <1>2, <1>5 DEF IsInjective
  <2>2. \A j \in 1..Len(s) : s[j] # e
    BY <1>2, <1>5 DEF Range
  <2>3. ASSUME NEW j \in 1..(Len(s) + 1), NEW k \in 1..(Len(s) + 1), r[j] = r[k]
        PROVE  j = k
    <3>1. CASE j = 1 /\ k # 1
      <4>1. r[j] = e /\ r[k] = s[k - 1] /\ k - 1 \in 1..Len(s)
        BY <1>0, <1>1, <3>1
      <4> QED BY <2>2, <2>3, <4>1, Zenon
    <3>2. CASE j # 1 /\ k = 1
      <4>1. r[k] = e /\ r[j] = s[j - 1] /\ j - 1 \in 1..Len(s)
        BY <1>0, <1>1, <3>2
      <4> QED BY <2>2, <2>3, <4>1
    <3>3. CASE j # 1 /\ k # 1
      <4>1. /\ r[k] = s[k - 1] /\ k - 1 \in 1..Len(s)
            /\ r[j] = s[j - 1] /\ j - 1 \in 1..Len(s)
        BY <1>0, <1>1, <3>3
      <4>2. j - 1 = k - 1
        BY <2>1, <2>3, <4>1
      <4> QED BY <4>2
    <3> QED BY <3>1, <3>2, <3>3
  <2> QED BY <1>2, <2>3 DEF IsInjective
<1>6. QED
  BY <1>1, <1>3, <1>4, <1>5 DEF r

(* The length that is left, by cases or not.                                *)
LEMMA LengthLeft ==
  ASSUME NEW m \in Nat, NEW n \in 0..m
  PROVE  (IF n + 1 <= m THEN m - (n + 1) + 1 ELSE 0) = m - n
<1>1. CASE n + 1 <= m
  BY <1>1
<1>2. CASE ~(n + 1 <= m)
  <2>1. n = m
    BY <1>2
  <2> QED BY <2>1
<1> QED BY <1>1, <1>2

(* The list without its first n elements.                                   *)
LEMMA DropInjectiveSet ==
  ASSUME NEW S, NEW s \in Seq(S), NEW n \in 0..Len(s)
  PROVE  /\ SubSeq(s, n + 1, Len(s)) \in Seq(S)
         /\ Len(SubSeq(s, n + 1, Len(s))) = Len(s) - n
         /\ IsInjective(s) =>
              /\ IsInjective(SubSeq(s, n + 1, Len(s)))
              /\ \A e : e \in Range(SubSeq(s, n + 1, Len(s)))
                         <=> e \in Range(s) /\ \A i \in 1..n : s[i] # e
<1> DEFINE r == SubSeq(s, n + 1, Len(s))
<1>0. Len(s) \in Nat /\ DOMAIN s = 1..Len(s) /\ \A j \in 1..Len(s) : s[j] \in S
  BY LenProperties, ElementOfSeq
<1>1. /\ r \in Seq(S)
      /\ Len(r) = Len(s) - n
      /\ \A j \in 1..(Len(s) - n) : r[j] = s[n + j]
  <2>1. \A j \in (n + 1)..Len(s) : s[j] \in S
    BY <1>0
  <2>2. n + 1 \in Int /\ Len(s) \in Int
    BY <1>0
  <2>3. /\ r \in Seq(S)
        /\ Len(r) = IF n + 1 <= Len(s) THEN Len(s) - (n + 1) + 1 ELSE 0
        /\ \A j \in 1..(Len(s) - (n + 1) + 1) : r[j] = s[(n + 1) + j - 1]
    BY <2>1, <2>2, SubSeqProperties
  <2> HIDE DEF r
  <2>4. Len(r) = Len(s) - n
    <3>1. Len(r) = IF n + 1 <= Len(s) THEN Len(s) - (n + 1) + 1 ELSE 0
      BY <2>3
    <3>2. Len(s) \in Nat
      BY <1>0
    <3> QED BY <3>1, <3>2, LengthLeft
  <2>5. ASSUME NEW j \in 1..(Len(s) - n) PROVE r[j] = s[n + j]
    <3>1. j \in 1..(Len(s) - (n + 1) + 1) /\ (n + 1) + j - 1 = n + j
      BY <1>0
    <3> QED BY <2>3, <3>1
  <2> QED BY <2>3, <2>4, <2>5
<1>2. DOMAIN r = 1..(Len(s) - n)
  BY <1>1, LenProperties
<1> HIDE DEF r
<1>3. ASSUME IsInjective(s)
      PROVE  /\ IsInjective(r)
             /\ \A e : e \in Range(r) <=> e \in Range(s) /\ \A i \in 1..n : s[i] # e
  <2>1. \A j, k \in 1..Len(s) : s[j] = s[k] => j = k
    BY <1>0, <1>3 DEF IsInjective
  <2>2. \A j, k \in 1..(Len(s) - n) : r[j] = r[k] => j = k
    BY <1>0, <1>1, <2>1
  <2>3. ASSUME NEW e \in Range(r)
        PROVE  e \in Range(s) /\ \A i \in 1..n : s[i] # e
    <3>1. PICK j \in 1..(Len(s) - n) : e = r[j]
      BY <1>2 DEF Range
    <3>2. n + j \in 1..Len(s) /\ e = s[n + j]
      BY <1>0, <1>1, <3>1
    <3>3. \A i \in 1..n : s[i] # s[n + j]
      BY <1>0, <2>1, <3>2
    <3> QED BY <1>0, <3>2, <3>3 DEF Range
  <2>4. ASSUME NEW e \in Range(s), \A i \in 1..n : s[i] # e
        PROVE  e \in Range(r)
    <3>1. PICK j \in 1..Len(s) : e = s[j]
      BY <1>0 DEF Range
    <3>2. j - n \in 1..(Len(s) - n) /\ n + (j - n) = j
      BY <1>0, <2>4, <3>1
    <3>3. r[j - n] = s[j]
      BY <1>1, <3>2
    <3> QED BY <1>2, <3>1, <3>2, <3>3 DEF Range
  <2> QED BY <1>2, <2>2, <2>3, <2>4 DEF IsInjective
<1>4. QED
  BY <1>1, <1>3 DEF r

-----------------------------------------------------------------------------
(* The values.                                                             *)

(* The sizes are numbers.                                                   *)
LEMMA Sizes ==
  /\ CHUNK_SIZE \in Nat /\ SUPERBLOCK_SIZE \in Nat /\ FILE_META_SIZE \in Nat
  /\ SUPERBLOCK_SIZE > 0 /\ FILE_META_SIZE > 0
BY StoreAssumption

(* A record takes room: it has at least its metadata.                       *)
LEMMA RecordSizeNat ==
  ASSUME NEW f \in Fids
  PROVE  RecordSize(f) \in Nat /\ RecordSize(f) > 0 /\ FILE_META_SIZE <= RecordSize(f)
BY StoreAssumption DEF RecordSize

(* The jobs the handlers make are jobs.                                     *)
LEMMA JobTypes ==
  /\ NoJob \in Job
  /\ \A f \in Fids : PendingJob(f) \in Job
  /\ \A f \in Fids, ch \in Chunks, off \in 0..CHUNK_SIZE : WriteJob(f, ch, off) \in Job
  /\ \A kind \in {"check", "dump"}, ch \in Chunks : OtherJob(kind, ch) \in Job
<1>1. NoJob \in Job
  BY StoreAssumption DEF NoJob, JobOf, Job
<1>2. ASSUME NEW f \in Fids PROVE PendingJob(f) \in Job
  BY StoreAssumption DEF JobOf, Job, PendingJob
<1>3. ASSUME NEW f \in Fids, NEW ch \in Chunks, NEW off \in 0..CHUNK_SIZE
      PROVE  WriteJob(f, ch, off) \in Job
  BY StoreAssumption DEF JobOf, Job, WriteJob, Chunks
<1>4. ASSUME NEW kind \in {"check", "dump"}, NEW ch \in Chunks
      PROVE  OtherJob(kind, ch) \in Job
  BY StoreAssumption DEF JobOf, Job, OtherJob, Chunks
<1> QED BY <1>1, <1>2, <1>3, <1>4

(* The fields of a connection.                                              *)
LEMMA ConnTypes ==
  /\ Closed \in Connection
  /\ Receiving \in Connection
BY DEF Closed, Receiving, Connection, Errors

(* Answering a connection or letting it wait keeps the type of conn.        *)
LEMMA ReplyType ==
  ASSUME NEW c \in Conns, conn \in [Conns -> Connection]
  PROVE  /\ \A error \in Errors : Reply(c, error) \in [Conns -> Connection]
         /\ Await(c) \in [Conns -> Connection]
BY Zenon DEF Reply, Await, Connection

(* A worker that moves its job on keeps the type of job.                    *)
LEMMA JobStepType ==
  ASSUME NEW c \in Conns, job \in [Conns -> Job]
  PROVE  /\ \A phase \in {"meta", "body", "done"} :
              [job EXCEPT ![c].phase = phase] \in [Conns -> Job]
         /\ \A ret \in {0, -1} : Finish(c, ret) \in [Conns -> Job]
<1>1. job[c] \in Job
  OBVIOUS
<1>2. ASSUME NEW phase \in {"meta", "body", "done"}
      PROVE  [job EXCEPT ![c].phase = phase] \in [Conns -> Job]
  BY DEF Job
<1>3. ASSUME NEW ret \in {0, -1}
      PROVE  Finish(c, ret) \in [Conns -> Job]
  <2>1. [job[c] EXCEPT !.phase = "done", !.retcode = ret] \in Job
    BY <1>1, Zenon DEF Job
  <2> QED BY <2>1 DEF Finish
<1> QED BY <1>2, <1>3

-----------------------------------------------------------------------------
(* The inductive invariant.                                                *)

\* A chunk is on one list, once, the counter of pending writes is the length of
\* their list, what is pending is a write and a write has a fid.
Lists ==
  /\ IsInjective(chunks)
  /\ writing_chunks \cap Range(chunks) = {}
  /\ pending_writes_size = Len(pending_writes)
  /\ \A c \in Conns : job[c].phase = "pending" => job[c].kind = "write"
  /\ \A c \in Conns : job[c].kind = "write" => job[c].fid \in Fids

\* There is no work, as in a process that has just started.
AtRest ==
  /\ conn = [c \in Conns |-> Closed]
  /\ job = [c \in Conns |-> NoJob]
  /\ IsInjective(chunks)
  /\ writing_chunks = {}
  /\ pending_writes = <<>>
  /\ pending_writes_size = 0

\* While the process is down, fails to start or creates its files, there is no
\* work; chunk files are created in the order of their ids.
Idle ==
  /\ mode # "up" => AtRest /\ index = [f \in Fids |-> NoEntry]
  /\ mode \in {"down", "aborted"} => chunks = <<>>
  /\ mode = "creating" => files = 1..Len(chunks) /\ acked = {}

Owners ==
  /\ \A c \in Writers : job[c].chunk \in writing_chunks
  /\ \A c, d \in Writers : c # d => job[c].chunk # job[d].chunk

\* The next record goes behind the superblock, and what is not used is free.
Balanced(info) ==
  /\ info.current_offset >= SUPERBLOCK_SIZE
  /\ info.current_offset + info.avail_space = CHUNK_SIZE

\* The chunks whose spy_chunk_t is in memory.
Loaded == IF mode \in {"up", "creating"} THEN files ELSE {}

\* What is below the current_offset of the superblock, and what is below that of
\* the chunk in memory, is whole records; the superblock is never ahead.
Layout ==
  /\ \A ch \in Chunks : sb[ch] # NoSuperblock =>
       ch \in files /\ Balanced(sb[ch]) /\ Tiled(ch, sb[ch].current_offset)
  /\ \A ch \in Loaded :
       /\ Balanced(chunk[ch])
       /\ Tiled(ch, chunk[ch].current_offset)
       /\ sb[ch].current_offset <= chunk[ch].current_offset

\* A write that has not changed the chunk yet goes to its current_offset, where
\* there is room; one that has, and did not fail, is the last record of it.
Placement ==
  \A c \in Writers :
    /\ job[c].phase \in {"queued", "meta"} =>
         /\ job[c].offset = chunk[job[c].chunk].current_offset
         /\ Fits(job[c].chunk, job[c].fid)
    /\ job[c].phase = "meta" =>
         \A k \in 0..(FILE_META_SIZE - 1) :
           cells[job[c].chunk][job[c].offset + k] = <<job[c].fid, k>>
    /\ job[c].phase = "body" \/ (job[c].phase = "done" /\ job[c].retcode = 0) =>
         /\ job[c].offset >= SUPERBLOCK_SIZE
         /\ job[c].offset + RecordSize(job[c].fid) = chunk[job[c].chunk].current_offset
         /\ Intact(job[c].chunk, job[c].offset, job[c].fid)
    /\ job[c].phase = "done" /\ job[c].retcode = 0 =>
         \/ job[c].chunk \in sb_failed
         \/ job[c].offset + RecordSize(job[c].fid) <= sb[job[c].chunk].current_offset

\* An entry of the index points at a whole record below the current_offset of its
\* chunk, and below that of the superblock unless its last write failed.
IndexPlaced ==
  \A f \in Indexed :
    /\ index[f].chunk \in files
    /\ index[f].offset >= SUPERBLOCK_SIZE
    /\ index[f].offset + RecordSize(f) <= chunk[index[f].chunk].current_offset
    /\ Intact(index[f].chunk, index[f].offset, f)
    /\ \/ index[f].chunk \in sb_failed
       \/ index[f].offset + RecordSize(f) <= sb[index[f].chunk].current_offset

\* A promised file is in the index, or on disk when there is no index.
Promised ==
  \A f \in acked :
    IF mode = "up" THEN f \in Indexed
                   ELSE \E ch \in files, p \in Offsets : Committed(ch, p, f)

IInv ==
  /\ TypeOK
  /\ Lists
  /\ JobHasConnection
  /\ Idle
  /\ Owners
  /\ Layout
  /\ Placement
  /\ IndexPlaced
  /\ Promised
  /\ NoStrandedPending

(* The invariant has what the checked properties say.                       *)
LEMMA IInvImplies == IInv => ChunkExclusive /\ IndexIntact /\ AckedDurable
<1> SUFFICES ASSUME IInv PROVE ChunkExclusive /\ IndexIntact /\ AckedDurable
  OBVIOUS
<1>1. ChunkExclusive
  BY DEF IInv, Lists, Owners, ChunkExclusive
<1>2. IndexIntact
  BY DEF IInv, IndexPlaced, IndexIntact
<1>3. AckedDurable
  <2> SUFFICES ASSUME NEW f \in acked
               PROVE  /\ \/ \E ch \in files, p \in Offsets : Committed(ch, p, f)
                         \/ mode = "up" /\ index[f].chunk \in sb_failed
                      /\ mode = "up" => f \in Indexed
    BY DEF AckedDurable
  <2>1. CASE mode # "up"
    BY <2>1 DEF IInv, Promised
  <2>2. CASE mode = "up" /\ index[f].chunk \notin sb_failed
    <3>1. f \in Indexed /\ f \in Fids
      BY <2>2 DEF IInv, Promised, Indexed
    <3> DEFINE ch == index[f].chunk
               p  == index[f].offset
    <3>2. /\ ch \in files /\ ch \in Chunks
          /\ p >= SUPERBLOCK_SIZE
          /\ p + RecordSize(f) <= sb[ch].current_offset
          /\ Intact(ch, p, f)
      BY <2>2, <3>1 DEF IInv, IndexPlaced, TypeOK
    <3>3. p \in Offsets
      <4>1. sb[ch].current_offset \in 0..CHUNK_SIZE
        BY <3>2 DEF IInv, TypeOK, ChunkInfo
      <4>2. p \in 0..CHUNK_SIZE
        BY <3>1 DEF IInv, TypeOK, Entry
      <4> QED BY <3>1, <3>2, <4>1, <4>2, RecordSizeNat, StoreAssumption DEF Offsets
    <3> QED BY <3>1, <3>2, <3>3 DEF Committed
  <2>3. CASE mode = "up" /\ index[f].chunk \in sb_failed
    BY <2>3 DEF IInv, Promised
  <2> QED BY <2>1, <2>2, <2>3
<1> QED BY <1>1, <1>2, <1>3

-----------------------------------------------------------------------------
(* The searches through the lists.                                         *)

(* ChunkFor finds a chunk with room when there is one.                      *)
LEMMA ChunkForFact ==
  ASSUME TypeOK, NEW f \in Fids
  PROVE  /\ ChunkFor(f) # 0 =>
              /\ ChunkFor(f) \in 1..Len(chunks)
              /\ chunks[ChunkFor(f)] \in files
              /\ chunks[ChunkFor(f)] \in Range(chunks)
              /\ Fits(chunks[ChunkFor(f)], f)
         /\ ChunkFor(f) = 0 => \A ch \in Range(chunks) : ~Fits(ch, f)
<1> DEFINE I == {i \in 1..Len(chunks) : Fits(chunks[i], f)}
<1>1. chunks \in Seq(files) /\ Len(chunks) \in Nat
  BY LenProperties DEF TypeOK
<1>2. ChunkFor(f) = IF I = {} THEN 0 ELSE Min(I)
  BY DEF ChunkFor, list_find
<1>3. I \in SUBSET Nat
  BY <1>1
<1> HIDE DEF I
<1>4. I # {} => Min(I) \in I
  BY <1>3, MinOfNats
<1>5. Range(chunks) = {chunks[i] : i \in 1..Len(chunks)}
  BY <1>1, LenProperties DEF Range
<1>6. \A i \in 1..Len(chunks) : chunks[i] \in files
  BY <1>1, ElementOfSeq
<1>7. CASE I # {}
  <2>1. /\ ChunkFor(f) = Min(I)
        /\ ChunkFor(f) \in 1..Len(chunks)
        /\ Fits(chunks[ChunkFor(f)], f)
    BY <1>2, <1>4, <1>7 DEF I
  <2>2. ChunkFor(f) # 0
    BY <1>1, <2>1
  <2> QED BY <1>5, <1>6, <2>1, <2>2
<1>8. CASE I = {}
  <2>1. ChunkFor(f) = 0
    BY <1>2, <1>8
  <2>2. \A i \in 1..Len(chunks) : ~Fits(chunks[i], f)
    BY <1>8 DEF I
  <2> QED BY <1>5, <2>1, <2>2
<1> QED BY <1>7, <1>8

(* PendingFor finds a pending write that the chunk has room for.            *)
LEMMA PendingForFact ==
  ASSUME TypeOK, NEW ch \in Chunks
  PROVE  /\ PendingFor(ch) # 0 =>
              /\ PendingFor(ch) \in 1..Len(pending_writes)
              /\ pending_writes[PendingFor(ch)] \in Conns
              /\ pending_writes[PendingFor(ch)] \in Range(pending_writes)
              /\ Fits(ch, job[pending_writes[PendingFor(ch)]].fid)
         /\ PendingFor(ch) = 0 => \A d \in Range(pending_writes) : ~Fits(ch, job[d].fid)
<1> DEFINE I == {i \in 1..Len(pending_writes) : Fits(ch, job[pending_writes[i]].fid)}
<1>1. pending_writes \in Seq(Conns) /\ Len(pending_writes) \in Nat
  BY LenProperties DEF TypeOK
<1>2. PendingFor(ch) = IF I = {} THEN 0 ELSE Min(I)
  BY DEF PendingFor, list_find
<1>3. I \in SUBSET Nat
  BY <1>1
<1> HIDE DEF I
<1>4. I # {} => Min(I) \in I
  BY <1>3, MinOfNats
<1>5. Range(pending_writes) = {pending_writes[i] : i \in 1..Len(pending_writes)}
  BY <1>1, LenProperties DEF Range
<1>6. \A i \in 1..Len(pending_writes) : pending_writes[i] \in Conns
  BY <1>1, ElementOfSeq
<1>7. CASE I # {}
  <2>1. /\ PendingFor(ch) = Min(I)
        /\ PendingFor(ch) \in 1..Len(pending_writes)
        /\ Fits(ch, job[pending_writes[PendingFor(ch)]].fid)
    BY <1>2, <1>4, <1>7 DEF I
  <2>2. PendingFor(ch) # 0
    BY <1>1, <2>1
  <2> QED BY <1>5, <1>6, <2>1, <2>2
<1>8. CASE I = {}
  <2>1. PendingFor(ch) = 0
    BY <1>2, <1>8
  <2>2. \A i \in 1..Len(pending_writes) : ~Fits(ch, job[pending_writes[i]].fid)
    BY <1>8 DEF I
  <2> QED BY <1>5, <2>1, <2>2
<1> QED BY <1>7, <1>8

(* The cron finds no more timed-out writes than there are pending ones.     *)
LEMMA TimedOutFact ==
  ASSUME TypeOK
  PROVE  TimedOut \in 0..Len(pending_writes)
<1> DEFINE young == {i \in 1..Len(pending_writes) :
                       job[pending_writes[i]].age + 1 < PENDING_WRITE_TIMEOUT}
<1>1. Len(pending_writes) \in Nat
  BY LenProperties DEF TypeOK
<1>2. TimedOut = IF young = {} THEN Len(pending_writes) ELSE Min(young) - 1
  BY DEF TimedOut
<1>3. young \in SUBSET (1..Len(pending_writes)) /\ young \in SUBSET Nat
  BY <1>1
<1> HIDE DEF young
<1>4. young # {} => Min(young) \in young
  BY <1>3, MinOfNats
<1>5. CASE young = {}
  BY <1>1, <1>2, <1>5
<1>6. CASE young # {}
  <2>1. TimedOut = Min(young) - 1 /\ Min(young) \in 1..Len(pending_writes)
    BY <1>2, <1>3, <1>4, <1>6, Zenon
  <2> QED BY <1>1, <2>1
<1> QED BY <1>5, <1>6

(* What Abandon leaves of the list.                                         *)
LEMMA AbandonFact ==
  ASSUME TypeOK, IsInjective(pending_writes), NEW n \in 0..Len(pending_writes),
         NEW cs, NEW error, Abandon(n, cs, error)
  PROVE  /\ pending_writes' \in Seq(Conns)
         /\ Len(pending_writes') = Len(pending_writes) - n
         /\ IsInjective(pending_writes')
         /\ Range(pending_writes') = Range(pending_writes) \ Oldest(n)
         /\ Oldest(n) \subseteq Range(pending_writes)
         /\ Range(pending_writes) \subseteq Conns
<1>1. /\ pending_writes \in Seq(Conns)
      /\ Len(pending_writes) \in Nat
      /\ DOMAIN pending_writes = 1..Len(pending_writes)
      /\ \A i \in 1..Len(pending_writes) : pending_writes[i] \in Conns
  BY LenProperties, ElementOfSeq DEF TypeOK
<1>2. pending_writes' = SubSeq(pending_writes, n + 1, Len(pending_writes))
  BY Zenon DEF Abandon
<1>3. Oldest(n) \subseteq Range(pending_writes) /\ Range(pending_writes) \subseteq Conns
  BY <1>1 DEF Oldest, Range
<1> DEFINE r == SubSeq(pending_writes, n + 1, Len(pending_writes))
<1>4. /\ r \in Seq(Conns)
      /\ Len(r) = Len(pending_writes) - n
      /\ IsInjective(r)
      /\ Range(r) = Range(pending_writes) \ Oldest(n)
  <2>1. \A e : e \in Oldest(n) <=> \E i \in 1..n : pending_writes[i] = e
    BY DEF Oldest
  <2> HIDE DEF r
  <2>2. /\ r \in Seq(Conns)
        /\ Len(r) = Len(pending_writes) - n
        /\ IsInjective(r)
        /\ \A e : e \in Range(r)
                  <=> e \in Range(pending_writes) /\ \A i \in 1..n : pending_writes[i] # e
    BY <1>1, DropInjectiveSet, Zenon DEF r
  <2> QED BY <2>1, <2>2
<1> HIDE DEF r
<1>5. pending_writes' = r
  BY <1>2 DEF r
<1> QED BY <1>3, <1>4, <1>5

-----------------------------------------------------------------------------
(* What each kind of step leaves alone.                                    *)

(* What the socket handlers leave alone.                                    *)
LEMMA SocketFrame ==
  ASSUME NEW c \in Conns, Socket(c)
  PROVE  /\ UNCHANGED <<files, sb, cells, chunk, mode, job, chunks, writing_chunks>>
         /\ UNCHANGED <<pending_writes, pending_writes_size, free_io_jobs>>
         /\ UNCHANGED <<index, acked, sb_failed, crashes>>
BY DEF Socket, spy_accept_handler, spy_read_handler_closes, spy_write_handler, storeVars

(* What the request handlers leave alone, and when they run.                *)
LEMMA RequestFrame ==
  ASSUME NEW c \in Conns, Request(c)
  PROVE  /\ UNCHANGED <<files, sb, cells, chunk, mode>>
         /\ UNCHANGED <<index, acked, sb_failed, crashes>>
         /\ mode = "up"
         /\ conn[c].state = "RECEIVE_HDR"
<1>1. ASSUME NEW f \in Fids, spy_handle_write(c, f) PROVE UNCHANGED index
  BY <1>1 DEF spy_handle_write, ErrorReply, WriteToChunk, WriteLater
<1>2. ASSUME NEW f \in Fids, spy_handle_write(c, f)
      PROVE  /\ UNCHANGED <<files, sb, cells, chunk, mode>>
             /\ UNCHANGED <<acked, sb_failed, crashes>>
             /\ mode = "up"
             /\ conn[c].state = "RECEIVE_HDR"
  BY <1>2 DEF spy_handle_write, Requested, storeVars
<1>3. ASSUME NEW f \in Fids, spy_handle_read(c, f)
      PROVE  /\ UNCHANGED <<files, sb, cells, chunk, mode>>
             /\ UNCHANGED <<index, acked, sb_failed, crashes>>
             /\ mode = "up"
             /\ conn[c].state = "RECEIVE_HDR"
  BY <1>3 DEF spy_handle_read, Requested, ErrorReply, storeVars
<1>4. ASSUME NEW ch \in Chunks, spy_dump_chunk(c, ch)
      PROVE  /\ UNCHANGED <<files, sb, cells, chunk, mode>>
             /\ UNCHANGED <<index, acked, sb_failed, crashes>>
             /\ mode = "up"
             /\ conn[c].state = "RECEIVE_HDR"
  BY <1>4 DEF spy_dump_chunk, Requested, ErrorReply, storeVars
<1>5. ASSUME \/ spy_handle_check_disk(c) \/ spy_handle_ping(c)
             \/ spy_query_infos(c) \/ spy_kill_pending_writes(c)
      PROVE  /\ UNCHANGED <<files, sb, cells, chunk, mode>>
             /\ UNCHANGED <<index, acked, sb_failed, crashes>>
             /\ mode = "up"
             /\ conn[c].state = "RECEIVE_HDR"
  BY <1>5 DEF spy_handle_check_disk, spy_handle_ping, spy_query_infos,
              spy_kill_pending_writes, Requested, ErrorReply, storeVars
<1> QED BY <1>1, <1>2, <1>3, <1>4, <1>5 DEF Request

(* What the worker threads leave alone: all the lists of the event loop.    *)
LEMMA WorkerFrames ==
  ASSUME NEW c \in Conns, Worker(c)
  PROVE  /\ UNCHANGED <<files, mode, conn, chunks, writing_chunks>>
         /\ UNCHANGED <<pending_writes, pending_writes_size, free_io_jobs>>
         /\ UNCHANGED <<index, statistic, acked, crashes>>
         /\ mode = "up"
BY DEF Worker, spy_write_file_meta, spy_write_file_body, spy_write_file_superblock,
       spy_read_file, spy_check_chunk, spy_dump_chunkfile, WorkerFrame, Working

(* What the done callbacks leave alone, and when they run.                  *)
LEMMA DoneFrame ==
  ASSUME NEW c \in Conns, Done(c)
  PROVE  /\ UNCHANGED <<files, sb, cells, chunk, mode>>
         /\ UNCHANGED <<sb_failed, crashes>>
         /\ mode = "up"
         /\ job[c].kind # "none"
         /\ job[c].phase = "done"
BY DEF Done, spy_write_file_done, spy_read_file_done, spy_check_chunk_done,
       spy_dump_chunkfile_done, Working, storeVars

(* What spy_server_cron leaves alone.                                       *)
LEMMA CronFrame ==
  ASSUME spy_server_cron
  PROVE  /\ UNCHANGED <<files, sb, cells, chunk, mode, chunks, writing_chunks>>
         /\ UNCHANGED <<index, statistic, acked, sb_failed, crashes>>
         /\ mode = "up"
BY DEF spy_server_cron, storeVars

(* What a write to a chunk file leaves alone.                               *)
LEMMA PwriteFact ==
  ASSUME TypeOK, NEW ch \in Chunks, NEW p \in Nat, NEW f \in Fids,
         NEW from \in Nat, NEW to \in Nat, Pwrite(ch, p, f, from, to)
  PROVE  /\ cells' \in [Chunks -> [Offsets -> (Fids \X Nat) \cup {Blank}]]
         /\ \A dh \in Chunks \ {ch} : cells'[dh] = cells[dh]
         /\ \A q \in Offsets : q < p + from => cells'[ch][q] = cells[ch][q]
         /\ \A q \in Offsets : p + from <= q /\ q < p + to => cells'[ch][q] = <<f, q - p>>
<1> DEFINE row == [q \in Offsets |-> IF q \in (p + from)..(p + to - 1)
                                       THEN <<f, q - p>> ELSE cells[ch][q]]
<1>1. cells' = [cells EXCEPT ![ch] = row]
  BY DEF Pwrite
<1>2. cells \in [Chunks -> [Offsets -> (Fids \X Nat) \cup {Blank}]]
  BY DEF TypeOK
<1>3. row \in [Offsets -> (Fids \X Nat) \cup {Blank}]
  <2>1. ASSUME NEW q \in Offsets
        PROVE  (IF q \in (p + from)..(p + to - 1) THEN <<f, q - p>> ELSE cells[ch][q])
                 \in (Fids \X Nat) \cup {Blank}
    <3>1. CASE q \in (p + from)..(p + to - 1)
      <4>1. q - p \in Nat
        BY <3>1, StoreAssumption DEF Offsets
      <4> QED BY <3>1, <4>1
    <3>2. CASE q \notin (p + from)..(p + to - 1)
      BY <1>2, <3>2
    <3> QED BY <3>1, <3>2
  <2> QED BY <2>1
<1>4. \A q \in Offsets : q < p + from => row[q] = cells[ch][q]
  BY StoreAssumption DEF Offsets
<1>5. \A q \in Offsets : p + from <= q /\ q < p + to => row[q] = <<f, q - p>>
  BY StoreAssumption DEF Offsets
<1> HIDE DEF row
<1>6. cells'[ch] = row /\ \A dh \in Chunks \ {ch} : cells'[dh] = cells[dh]
  BY <1>1, <1>2
<1>7. cells' \in [Chunks -> [Offsets -> (Fids \X Nat) \cup {Blank}]]
  BY <1>1, <1>2, <1>3
<1> QED BY <1>4, <1>5, <1>6, <1>7

(* What a write that has a chunk is about.                                  *)
LEMMA WriterChunk ==
  ASSUME IInv, NEW c \in Writers
  PROVE  /\ c \in Conns
         /\ job[c].chunk \in files /\ job[c].chunk \in Chunks
         /\ job[c].fid \in Fids
         /\ job[c].offset \in 0..CHUNK_SIZE
         /\ mode = "up"
<1>1. c \in Conns /\ job[c].kind = "write" /\ job[c] \in Job
  BY DEF Writers, IInv, TypeOK
<1>2. job[c].chunk \in files /\ job[c].chunk \in Chunks /\ job[c].fid \in Fids
  BY <1>1 DEF IInv, TypeOK, Owners, Lists
<1>3. job[c].offset \in 0..CHUNK_SIZE
  BY <1>1 DEF Job
<1>4. mode = "up"
  BY <1>1 DEF IInv, Idle, AtRest, NoJob, JobOf
<1> QED BY <1>1, <1>2, <1>3, <1>4

(* A chunk a write was given has the room: its record ends inside the file. *)
LEMMA RoomForWrite ==
  ASSUME IInv, NEW c \in Writers, job[c].phase \in {"queued", "meta"}
  PROVE  /\ job[c].offset = chunk[job[c].chunk].current_offset
         /\ job[c].offset >= SUPERBLOCK_SIZE
         /\ job[c].offset + RecordSize(job[c].fid) < CHUNK_SIZE
         /\ chunk[job[c].chunk].avail_space = CHUNK_SIZE - job[c].offset
<1>1. /\ job[c].chunk \in files /\ job[c].chunk \in Chunks
      /\ job[c].fid \in Fids
      /\ mode = "up"
  BY WriterChunk
<1>2. /\ job[c].offset = chunk[job[c].chunk].current_offset
      /\ chunk[job[c].chunk].avail_space > RecordSize(job[c].fid)
  BY DEF IInv, Placement, Fits
<1>3. Balanced(chunk[job[c].chunk]) /\ chunk[job[c].chunk] \in ChunkInfo
  BY <1>1 DEF IInv, Layout, Loaded, TypeOK
<1>4. RecordSize(job[c].fid) \in Nat
  BY <1>1, RecordSizeNat
<1> DEFINE info == chunk[job[c].chunk]
<1>5. info.current_offset \in Int /\ info.avail_space \in Int
  BY <1>3, StoreAssumption DEF ChunkInfo
<1>6. info.current_offset >= SUPERBLOCK_SIZE
      /\ info.avail_space = CHUNK_SIZE - info.current_offset
  BY <1>3, <1>5, StoreAssumption DEF Balanced
<1> HIDE DEF info
<1>7. info.current_offset + RecordSize(job[c].fid) < CHUNK_SIZE
  BY <1>2, <1>4, <1>5, <1>6, StoreAssumption DEF info
<1> QED BY <1>2, <1>6, <1>7 DEF info

-----------------------------------------------------------------------------
(* The type invariant is preserved.                                        *)

(* The fields of statistic stay integers.                                   *)
LEMMA StatisticType ==
  ASSUME statistic \in [conn_count : Int, reading_count : Int, writing_count : Int]
  PROVE  \A n \in Int :
           /\ [statistic EXCEPT !.conn_count = n]
                \in [conn_count : Int, reading_count : Int, writing_count : Int]
           /\ [statistic EXCEPT !.reading_count = n]
                \in [conn_count : Int, reading_count : Int, writing_count : Int]
           /\ [statistic EXCEPT !.writing_count = n]
                \in [conn_count : Int, reading_count : Int, writing_count : Int]
OBVIOUS

(* The socket handlers keep the types.                                      *)
LEMMA TypeSocket ==
  ASSUME IInv, NEW c \in Conns, Socket(c)
  PROVE  TypeOK'
<1>1. conn' \in [Conns -> Connection]
  BY ConnTypes DEF IInv, TypeOK, Socket, spy_accept_handler, spy_read_handler_closes,
     spy_write_handler, spy_free_client_connection
<1>2. statistic' \in [conn_count : Int, reading_count : Int, writing_count : Int]
  <2>1. /\ statistic \in [conn_count : Int, reading_count : Int, writing_count : Int]
        /\ statistic.conn_count + 1 \in Int
        /\ statistic.conn_count - 1 \in Int
    BY DEF IInv, TypeOK
  <2>2. \/ statistic' = [statistic EXCEPT !.conn_count = statistic.conn_count + 1]
        \/ statistic' = [statistic EXCEPT !.conn_count = statistic.conn_count - 1]
        \/ statistic' = statistic
    BY DEF Socket, spy_accept_handler, spy_read_handler_closes,
       spy_write_handler, spy_free_client_connection
  <2> QED BY <2>1, <2>2, StatisticType
<1> QED BY <1>1, <1>2, SocketFrame DEF IInv, TypeOK

(* The request handlers keep the types.                                     *)
LEMMA TypeRequest ==
  ASSUME IInv, NEW c \in Conns, Request(c)
  PROVE  TypeOK'
<1> USE DEF IInv
<1>0. /\ TypeOK
      /\ conn \in [Conns -> Connection]
      /\ job \in [Conns -> Job]
  BY DEF TypeOK
<1>1. ASSUME NEW error \in Errors, ErrorReply(c, error) PROVE TypeOK'
  <2>1. conn' \in [Conns -> Connection]
    BY <1>0, <1>1, ReplyType DEF ErrorReply
  <2> QED BY <1>0, <1>1, <2>1, RequestFrame DEF ErrorReply, TypeOK
<1>2. ASSUME NEW f \in Fids, spy_handle_write(c, f), ChunkFor(f) # 0,
             WriteToChunk(c, f, ChunkFor(f))
      PROVE  TypeOK'
  <2> DEFINE i == ChunkFor(f)
  <2>1. i \in 1..Len(chunks) /\ chunks[i] \in files
    BY <1>0, <1>2, ChunkForFact
  <2> HIDE DEF i
  <2>2. chunks' \in Seq(files) /\ writing_chunks' \subseteq files
    BY <1>0, <1>2, <2>1, RemoveAtProperties DEF WriteToChunk, TakeChunk, i, TypeOK
  <2>3. conn' \in [Conns -> Connection]
    BY <1>0, <1>2, ReplyType DEF WriteToChunk, Errors
  <2>4. job' \in [Conns -> Job]
    <3>1. chunks[i] \in Chunks /\ chunk[chunks[i]].current_offset \in 0..CHUNK_SIZE
      BY <1>0, <2>1 DEF TypeOK, ChunkInfo
    <3>2. WriteJob(f, chunks[i], chunk[chunks[i]].current_offset) \in Job
      BY <3>1, JobTypes
    <3> QED BY <1>0, <1>2, <3>2 DEF WriteToChunk, i
  <2>5. free_io_jobs' \in Nat
    BY <1>0, <1>2 DEF WriteToChunk, TypeOK
  <2>6. statistic' \in [conn_count : Int, reading_count : Int, writing_count : Int]
    BY <1>0, <1>2 DEF WriteToChunk, TypeOK
  <2> QED BY <1>0, <1>2, <2>2, <2>3, <2>4, <2>5, <2>6, RequestFrame
          DEF WriteToChunk, TypeOK
<1>3. ASSUME NEW f \in Fids, WriteLater(c, f) PROVE TypeOK'
  <2>1. CASE \E error \in Errors : ErrorReply(c, error)
    BY <1>1, <2>1
  <2>2. CASE /\ pending_writes_size < MAX_PENDING_WRITES
             /\ free_io_jobs > 0
             /\ free_io_jobs' = free_io_jobs - 1
             /\ conn' = Await(c)
             /\ job' = [job EXCEPT ![c] = PendingJob(f)]
             /\ pending_writes' = Append(pending_writes, c)
             /\ pending_writes_size' = pending_writes_size + 1
             /\ UNCHANGED <<chunks, writing_chunks, index, statistic>>
    <3>1. conn' \in [Conns -> Connection] /\ job' \in [Conns -> Job]
      BY <1>0, <2>2, ReplyType, JobTypes
    <3>2. pending_writes' \in Seq(Conns)
      BY <1>0, <2>2, AppendProperties, Zenon DEF TypeOK
    <3>3. pending_writes_size' \in 0..MAX_PENDING_WRITES /\ free_io_jobs' \in Nat
      BY <1>0, <2>2, ServerAssumption DEF TypeOK
    <3> QED BY <1>0, <2>2, <3>1, <3>2, <3>3, RequestFrame DEF TypeOK
  <2> QED BY <1>3, <2>1, <2>2 DEF WriteLater, Errors
<1>4. ASSUME NEW f \in Fids, spy_handle_write(c, f) PROVE TypeOK'
  BY <1>1, <1>2, <1>3, <1>4 DEF spy_handle_write, Errors
<1>5. ASSUME NEW f \in Fids, spy_handle_read(c, f) PROVE TypeOK'
  <2>1. CASE \E error \in Errors : ErrorReply(c, error)
    BY <1>1, <2>1
  <2>2. CASE /\ free_io_jobs > 0
             /\ free_io_jobs' = free_io_jobs - 1
             /\ conn' = Await(c)
             /\ job' = [job EXCEPT ![c] = ReadJob(f)]
             /\ statistic' = [statistic EXCEPT !.reading_count = @ + 1]
             /\ UNCHANGED <<chunks, writing_chunks, pending_writes, pending_writes_size>>
    <3>1. ReadJob(f) \in Job
      BY <1>0 DEF TypeOK, Entry, ReadJob, JobOf, Job
    <3>2. conn' \in [Conns -> Connection] /\ job' \in [Conns -> Job]
      BY <1>0, <2>2, <3>1, ReplyType
    <3>3. free_io_jobs' \in Nat
      BY <1>0, <2>2 DEF TypeOK
    <3>4. statistic' \in [conn_count : Int, reading_count : Int, writing_count : Int]
      <4>1. /\ statistic \in [conn_count : Int, reading_count : Int, writing_count : Int]
            /\ statistic.reading_count + 1 \in Int
        BY <1>0 DEF TypeOK
      <4>2. statistic' = [statistic EXCEPT !.reading_count = statistic.reading_count + 1]
        BY <2>2
      <4> QED BY <4>1, <4>2, StatisticType
    <3> QED BY <1>0, <2>2, <3>2, <3>3, <3>4, RequestFrame DEF TypeOK
  <2> QED BY <1>5, <2>1, <2>2 DEF spy_handle_read, Errors
<1>6. ASSUME NEW ch \in Chunks, NEW kind \in {"check", "dump"},
             conn' = Await(c), job' = [job EXCEPT ![c] = OtherJob(kind, ch)],
             free_io_jobs' \in Nat,
             UNCHANGED <<chunks, writing_chunks, pending_writes,
                         pending_writes_size, statistic>>
      PROVE  TypeOK'
  <2>1. conn' \in [Conns -> Connection] /\ job' \in [Conns -> Job]
    BY <1>0, <1>6, ReplyType, JobTypes
  <2> QED BY <1>0, <1>6, <2>1, RequestFrame DEF TypeOK
<1>7. ASSUME NEW ch \in Chunks, spy_dump_chunk(c, ch) PROVE TypeOK'
  <2>1. free_io_jobs \in Nat
    BY <1>0 DEF TypeOK
  <2> QED BY <1>1, <1>6, <1>7, <2>1 DEF spy_dump_chunk, Errors
<1>8. ASSUME spy_handle_check_disk(c) PROVE TypeOK'
  <2>1. free_io_jobs \in Nat /\ files \subseteq Chunks
    BY <1>0 DEF TypeOK
  <2> QED BY <1>1, <1>6, <1>8, <2>1 DEF spy_handle_check_disk, Errors
<1>9. ASSUME spy_handle_ping(c) PROVE TypeOK'
  <2>1. conn' \in [Conns -> Connection]
    BY <1>0, <1>9 DEF spy_handle_ping, Connection, Errors
  <2> QED BY <1>0, <1>9, <2>1, RequestFrame, Zenon DEF spy_handle_ping, TypeOK
<1>10. ASSUME spy_query_infos(c) PROVE TypeOK'
  BY <1>1, <1>10 DEF spy_query_infos, Errors
<1>11. ASSUME spy_kill_pending_writes(c) PROVE TypeOK'
  <2> DEFINE n == Len(pending_writes)
  <2>1. n \in Nat /\ n \in 0..Len(pending_writes) /\ IsInjective(pending_writes)
    BY <1>0, LenProperties DEF TypeOK, JobHasConnection
  <2>2. Abandon(n, Reply(c, "SUCCESS"), "KILLED")
    BY <1>11 DEF spy_kill_pending_writes
  <2>3. pending_writes' \in Seq(Conns)
    BY <1>0, <2>1, <2>2, AbandonFact
  <2>4. pending_writes_size' \in 0..MAX_PENDING_WRITES /\ free_io_jobs' \in Nat
    <3>1. /\ pending_writes_size = n
          /\ pending_writes_size' = pending_writes_size - n
          /\ free_io_jobs' = free_io_jobs + n
          /\ free_io_jobs \in Nat
      BY <1>0, <2>2, Zenon DEF Abandon, TypeOK, Lists
    <3> HIDE DEF n
    <3> QED BY <2>1, <3>1, ServerAssumption
  <2>5. conn' \in [Conns -> Connection]
    <3>1. Reply(c, "SUCCESS") \in [Conns -> Connection]
      BY <1>0, ReplyType DEF Errors
    <3> QED BY <2>2, <3>1, Zenon DEF Abandon, Connection, Errors
  <2>6. job' \in [Conns -> Job]
    BY <1>0, <1>11, JobTypes DEF spy_kill_pending_writes
  <2> QED BY <1>0, <1>11, <2>3, <2>4, <2>5, <2>6, RequestFrame
          DEF spy_kill_pending_writes, TypeOK
<1> QED BY <1>4, <1>5, <1>7, <1>8, <1>9, <1>10, <1>11 DEF Request

(* A record that fits leaves both counters of its chunk within bounds.       *)
LEMMA RoomToAdvance ==
  ASSUME NEW n \in Nat, NEW o \in 0..n, NEW r \in Nat, o + r < n
  PROVE  o + r \in 0..n /\ (n - o) - r \in 0..n
OBVIOUS

(* The workers keep the types.                                              *)
LEMMA TypeWorker ==
  ASSUME IInv, NEW c \in Conns, Worker(c)
  PROVE  TypeOK'
<1>0. /\ TypeOK
      /\ job \in [Conns -> Job]
  BY DEF IInv, TypeOK
<1>1. CASE spy_write_file_meta(c)
  <2>1. c \in Writers /\ job[c].phase = "queued"
    BY <1>1 DEF spy_write_file_meta, Working, Writers
  <2>2. job[c].chunk \in Chunks /\ job[c].fid \in Fids /\ job[c].offset \in Nat
    BY <2>1, WriterChunk, StoreAssumption
  <2>3. cells' \in [Chunks -> [Offsets -> (Fids \X Nat) \cup {Blank}]]
    <3>1. FILE_META_SIZE \in Nat /\ 0 \in Nat /\ 0..(FILE_META_SIZE - 1) \subseteq Nat
      BY StoreAssumption
    <3> QED BY <1>0, <1>1, <2>2, <3>1, PwriteFact DEF spy_write_file_meta
  <2>4. job' \in [Conns -> Job]
    BY <1>0, <1>1, JobStepType, Zenon DEF spy_write_file_meta
  <2> QED BY <1>0, <1>1, <2>3, <2>4, WorkerFrames DEF spy_write_file_meta, TypeOK
<1>2. CASE spy_write_file_body(c)
  <2>1. c \in Writers /\ job[c].phase = "meta"
    BY <1>2 DEF spy_write_file_body, Working, Writers
  <2> DEFINE ch == job[c].chunk
             f == job[c].fid
  <2>2. ch \in Chunks /\ f \in Fids /\ job[c].offset \in Nat
    BY <2>1, WriterChunk, StoreAssumption
  <2>3. cells' \in [Chunks -> [Offsets -> (Fids \X Nat) \cup {Blank}]]
    <3>1. /\ FILE_META_SIZE \in Nat /\ RecordSize(f) \in Nat
          /\ FILE_META_SIZE..(RecordSize(f) - 1) \subseteq Nat
      BY <2>2, RecordSizeNat, StoreAssumption
    <3> QED BY <1>0, <1>2, <2>2, <3>1, PwriteFact DEF spy_write_file_body
  <2>4. job' \in [Conns -> Job]
    BY <1>0, <1>2, JobStepType, Zenon DEF spy_write_file_body
  <2>5. chunk' \in [Chunks -> ChunkInfo]
    <3>1. chunk \in [Chunks -> ChunkInfo] /\ chunk[ch] \in ChunkInfo
      BY <1>0, <2>2 DEF TypeOK
    <3>2. /\ job[c].offset = chunk[ch].current_offset
          /\ job[c].offset + RecordSize(f) < CHUNK_SIZE
          /\ chunk[ch].avail_space = CHUNK_SIZE - job[c].offset
      BY <2>1, RoomForWrite
    <3>3. RecordSize(f) \in Nat
      BY <2>2, RecordSizeNat
    <3>4. Advanced(ch, f) \in ChunkInfo
      <4>1. chunk[ch].current_offset \in 0..CHUNK_SIZE /\ chunk[ch].avail_space \in 0..CHUNK_SIZE
        BY <3>1 DEF ChunkInfo
      <4>2. /\ chunk[ch].current_offset + RecordSize(f) \in 0..CHUNK_SIZE
            /\ chunk[ch].avail_space - RecordSize(f) \in 0..CHUNK_SIZE
        BY <3>2, <3>3, <4>1, Sizes, RoomToAdvance
      <4> QED BY <4>2, Zenon DEF Advanced, ChunkInfo
    <3>5. chunk' = [chunk EXCEPT ![ch] = Advanced(ch, f)] \/ UNCHANGED chunk
      BY <1>2 DEF spy_write_file_body
    <3> QED BY <3>1, <3>4, <3>5
  <2>6. UNCHANGED <<sb, sb_failed>>
    BY <1>2 DEF spy_write_file_body
  <2> QED BY <1>0, <2>3, <2>4, <2>5, <2>6, WorkerFrames DEF TypeOK
<1>3. CASE spy_write_file_superblock(c)
  <2>1. c \in Writers
    BY <1>3 DEF spy_write_file_superblock, Working, Writers
  <2>2. job[c].chunk \in Chunks /\ job[c].chunk \in files
    BY <2>1, WriterChunk
  <2>3. sb' \in [Chunks -> ChunkInfo] /\ sb_failed' \subseteq files
    <3>1. NoSuperblock \in ChunkInfo
      BY StoreAssumption DEF NoSuperblock, ChunkInfo
    <3>2. /\ sb \in [Chunks -> ChunkInfo] /\ sb_failed \subseteq files
          /\ sb[job[c].chunk] \in ChunkInfo /\ chunk[job[c].chunk] \in ChunkInfo
      BY <1>0, <2>2 DEF TypeOK
    <3>3. \E s \in ChunkInfo : sb' = [sb EXCEPT ![job[c].chunk] = s]
      BY <1>3, <3>1, <3>2 DEF spy_write_file_superblock
    <3>4. sb_failed' \subseteq sb_failed \cup {job[c].chunk}
      BY <1>3 DEF spy_write_file_superblock
    <3> QED BY <2>2, <3>2, <3>3, <3>4
  <2>4. job' \in [Conns -> Job]
    BY <1>0, <1>3, JobStepType, Zenon DEF spy_write_file_superblock
  <2> QED BY <1>0, <1>3, <2>3, <2>4, WorkerFrames DEF spy_write_file_superblock, TypeOK
<1>4. CASE spy_read_file(c) \/ spy_check_chunk(c) \/ spy_dump_chunkfile(c)
  <2>1. job' \in [Conns -> Job]
    BY <1>0, <1>4, JobStepType, Zenon DEF spy_read_file, spy_check_chunk, spy_dump_chunkfile
  <2> QED BY <1>0, <1>4, <2>1, WorkerFrames DEF spy_read_file, spy_check_chunk, spy_dump_chunkfile, TypeOK
<1> QED BY <1>1, <1>2, <1>3, <1>4 DEF Worker

(* The done callbacks keep the types.                                       *)
LEMMA TypeDone ==
  ASSUME IInv, NEW c \in Conns, Done(c)
  PROVE  TypeOK'
<1> USE DEF IInv
<1>0. /\ TypeOK
      /\ conn \in [Conns -> Connection]
      /\ job \in [Conns -> Job]
      /\ statistic \in [conn_count : Int, reading_count : Int, writing_count : Int]
      /\ free_io_jobs \in Nat
  BY DEF TypeOK
<1>1. [job EXCEPT ![c] = NoJob] \in [Conns -> Job]
  BY <1>0, JobTypes
<1>2. free_io_jobs + 1 \in Nat
  BY <1>0
<1>3. /\ [statistic EXCEPT !.reading_count = @ - 1]
           \in [conn_count : Int, reading_count : Int, writing_count : Int]
      /\ [statistic EXCEPT !.writing_count = @ - 1]
           \in [conn_count : Int, reading_count : Int, writing_count : Int]
  BY <1>0, StatisticType
<1>4. CASE spy_write_file_done(c)
  <2> DEFINE f == job[c].fid
             ch == job[c].chunk
  <2>1. c \in Writers
    BY <1>4 DEF spy_write_file_done, Working, Writers
  <2>2. f \in Fids /\ ch \in files /\ ch \in Chunks /\ job[c].offset \in 0..CHUNK_SIZE
    BY <2>1, WriterChunk
  <2>3. free_io_jobs' \in Nat
    BY <1>2, <1>4 DEF spy_write_file_done
  <2>4. CASE f \in Indexed /\ DuplicateDone(c)
    <3>1. conn' \in [Conns -> Connection]
      BY <1>0, <2>4, ReplyType DEF DuplicateDone, Errors
    <3> QED BY <1>0, <1>1, <1>3, <2>3, <2>4, <3>1, DoneFrame, Zenon DEF DuplicateDone, TypeOK
  <2>5. CASE /\ f \notin Indexed
             /\ Answer(c, f)
             /\ IF PendingFor(ch) # 0 THEN ServePending(c, ch, PendingFor(ch))
                                      ELSE ReturnChunk(c, ch)
    <3>1. conn' \in [Conns -> Connection]
      BY <1>0, <2>5, ReplyType DEF Answer, Errors
    <3>2. index' \in [Fids -> Entry] /\ acked' \subseteq Fids
      <4>1. [chunk |-> ch, offset |-> job[c].offset] \in Entry
        <5>1. ch \in 0..NChunks
          BY <2>2, StoreAssumption DEF Chunks
        <5> QED BY <2>2, <5>1, Zenon DEF Entry
      <4> QED BY <1>0, <2>2, <2>5, <4>1, Zenon DEF Answer, TypeOK
    <3>3. CASE PendingFor(ch) # 0
      <4> DEFINE i == PendingFor(ch)
                 d == pending_writes[i]
      <4>1. i \in 1..Len(pending_writes) /\ d \in Conns /\ d \in Range(pending_writes)
        BY <1>0, <2>2, <3>3, PendingForFact
      <4>2. job[d].fid \in Fids
        BY <4>1 DEF Lists, JobHasConnection
      <4>3. chunk[ch].current_offset \in 0..CHUNK_SIZE
        BY <1>0, <2>2 DEF TypeOK, ChunkInfo
      <4>4. WriteJob(job[d].fid, ch, chunk[ch].current_offset) \in Job
        BY <2>2, <4>2, <4>3, JobTypes
      <4> HIDE DEF i
      <4>5. ServePending(c, ch, i)
        BY <2>5, <3>3 DEF i
      <4>6. job' \in [Conns -> Job]
        BY <1>0, <4>1, <4>4, <4>5, JobTypes, Zenon DEF ServePending
      <4>7. pending_writes' \in Seq(Conns) /\ Len(pending_writes) \in Nat
        BY <1>0, <4>1, <4>5, RemoveAtProperties, LenProperties, Zenon DEF ServePending, TypeOK
      <4>8. pending_writes_size' \in 0..MAX_PENDING_WRITES
        <5>1. /\ pending_writes_size' = pending_writes_size - 1
              /\ pending_writes_size = Len(pending_writes)
              /\ pending_writes_size \in 0..MAX_PENDING_WRITES
          BY <1>0, <4>5 DEF ServePending, Lists, TypeOK
        <5> QED BY <4>1, <4>7, <5>1, ServerAssumption
      <4>9. UNCHANGED <<chunks, writing_chunks, statistic>>
        BY <4>5, Zenon DEF ServePending
      <4> QED BY <1>0, <2>3, <3>1, <3>2, <4>6, <4>7, <4>8, <4>9, DoneFrame DEF TypeOK
    <3>4. CASE PendingFor(ch) = 0
      <4>1. ReturnChunk(c, ch)
        BY <2>5, <3>4
      <4>2. chunks' \in Seq(files)
        BY <1>0, <2>2, <4>1, AppendProperties DEF ReturnChunk, TypeOK
      <4> QED BY <1>0, <1>1, <1>3, <2>3, <3>1, <3>2, <4>1, <4>2, DoneFrame, Zenon
              DEF ReturnChunk, TypeOK
    <3> QED BY <3>3, <3>4
  <2> QED BY <1>4, <2>4, <2>5 DEF spy_write_file_done
<1>5. CASE spy_read_file_done(c) \/ spy_check_chunk_done(c)
  <2>1. \E error \in Errors : conn' = Reply(c, error)
    BY <1>5 DEF spy_read_file_done, spy_check_chunk_done, Errors
  <2>2. conn' \in [Conns -> Connection]
    BY <1>0, <2>1, ReplyType
  <2> QED BY <1>0, <1>1, <1>2, <1>3, <1>5, <2>2, DoneFrame, Zenon
          DEF spy_read_file_done, spy_check_chunk_done, TypeOK
<1>6. CASE spy_dump_chunkfile_done(c)
  <2>1. conn' \in [Conns -> Connection]
    BY <1>0, <1>6, ConnTypes DEF spy_dump_chunkfile_done, spy_free_client_connection
  <2>2. statistic' \in [conn_count : Int, reading_count : Int, writing_count : Int]
    BY <1>0, <1>6 DEF spy_dump_chunkfile_done, spy_free_client_connection
  <2> QED BY <1>0, <1>1, <1>6, <2>1, <2>2, DoneFrame, Zenon DEF spy_dump_chunkfile_done, TypeOK
<1> QED BY <1>4, <1>5, <1>6 DEF Done

(* spy_server_cron keeps the types.                                         *)
LEMMA TypeCron ==
  ASSUME IInv, spy_server_cron
  PROVE  TypeOK'
<1> USE DEF IInv
<1>0. /\ TypeOK
      /\ conn \in [Conns -> Connection]
      /\ job \in [Conns -> Job]
      /\ free_io_jobs \in Nat
      /\ Len(pending_writes) \in Nat
      /\ IsInjective(pending_writes)
  BY LenProperties DEF TypeOK, JobHasConnection
<1>1. PICK n \in 0..Len(pending_writes) : n = TimedOut
  BY <1>0, TimedOutFact
<1>2. Abandon(n, conn, "CHUNK_UNAVAILABLE")
  BY <1>1 DEF spy_server_cron
<1>3. pending_writes' \in Seq(Conns)
  BY <1>0, <1>2, AbandonFact
<1>4. pending_writes_size' \in 0..MAX_PENDING_WRITES /\ free_io_jobs' \in Nat
  <2>1. /\ pending_writes_size = Len(pending_writes)
        /\ pending_writes_size \in 0..MAX_PENDING_WRITES
        /\ pending_writes_size' = pending_writes_size - n
        /\ free_io_jobs' = free_io_jobs + n
    BY <1>0, <1>2, Zenon DEF Abandon, TypeOK, Lists
  <2> QED BY <1>0, <2>1, ServerAssumption
<1>5. conn' \in [Conns -> Connection]
  BY <1>0, <1>2, Zenon DEF Abandon, Connection, Errors
<1>6. job' \in [Conns -> Job]
  <2>1. ASSUME NEW d \in Conns PROVE [job[d] EXCEPT !.age = @ + 1] \in Job
    <3>1. job[d] \in Job /\ job[d].age + 1 \in Nat
      BY <1>0 DEF Job
    <3> QED BY <3>1 DEF Job
  <2> QED BY <1>0, <2>1, JobTypes DEF spy_server_cron
<1> QED BY <1>0, <1>3, <1>4, <1>5, <1>6, CronFrame DEF TypeOK

(* What a fresh process holds.                                              *)
LEMMA ResetType ==
  ASSUME Reset
  PROVE  /\ chunk' \in [Chunks -> ChunkInfo]
         /\ conn' \in [Conns -> Connection]
         /\ job' \in [Conns -> Job]
         /\ \A S : chunks' \in Seq(S) /\ writing_chunks' \subseteq S
         /\ pending_writes' \in Seq(Conns)
         /\ pending_writes_size' \in 0..MAX_PENDING_WRITES
         /\ free_io_jobs' \in Nat
         /\ index' \in [Fids -> Entry]
         /\ statistic' \in [conn_count : Int, reading_count : Int, writing_count : Int]
<1>1. chunk' \in [Chunks -> ChunkInfo]
  BY StoreAssumption DEF Reset, NoSuperblock, ChunkInfo
<1>2. conn' \in [Conns -> Connection] /\ job' \in [Conns -> Job]
  BY ConnTypes, JobTypes DEF Reset
<1>3. /\ \A S : chunks' \in Seq(S) /\ writing_chunks' \subseteq S
      /\ pending_writes' \in Seq(Conns)
  BY EmptySeq DEF Reset
<1>4. pending_writes_size' \in 0..MAX_PENDING_WRITES /\ free_io_jobs' \in Nat
  BY ServerAssumption DEF Reset
<1>5. index' \in [Fids -> Entry]
  BY StoreAssumption DEF Reset, NoEntry, Entry
<1>6. statistic' \in [conn_count : Int, reading_count : Int, writing_count : Int]
  BY DEF Reset, NoStatistic
<1> QED BY <1>1, <1>2, <1>3, <1>4, <1>5, <1>6, Zenon

(* A crash keeps the types.                                                 *)
LEMMA TypeCrash ==
  ASSUME IInv, Crash
  PROVE  TypeOK'
<1>1. TypeOK
  BY DEF IInv
<1>2. Reset /\ UNCHANGED <<files, sb, cells, sb_failed>>
      /\ mode' = "down" /\ crashes' = crashes + 1 /\ acked' \subseteq acked
  BY DEF Crash
<1> QED BY <1>1, <1>2, ResetType DEF TypeOK

(* Creating a chunk file keeps the types; the file is new.                  *)
LEMMA TypeCreate ==
  ASSUME IInv, spy_create_chunk
  PROVE  /\ TypeOK'
         /\ Len(chunks) + 1 \in Chunks
         /\ Len(chunks) + 1 \notin files
<1> USE DEF IInv
<1> DEFINE ch == Len(chunks) + 1
<1>1. TypeOK /\ chunks \in Seq(files) /\ Len(chunks) \in Nat
  BY LenProperties DEF TypeOK
<1>2. ch \in Chunks /\ ch \notin files
  <2>1. CASE mode = "down" /\ files = {}
    <3>1. chunks = <<>>
      BY <2>1 DEF Idle
    <3>2. Len(chunks) = 0
      BY <3>1, EmptySeq
    <3> QED BY <2>1, <3>2, StoreAssumption DEF Chunks
  <2>2. CASE mode = "creating" /\ ch \in Chunks
    BY <1>1, <2>2 DEF Idle
  <2> QED BY <2>1, <2>2 DEF spy_create_chunk
<1> HIDE DEF ch
<1>3. /\ mode' = "creating"
      /\ files' = files \cup {ch}
      /\ sb_failed' = sb_failed \cup {ch}
      /\ chunk' = [chunk EXCEPT ![ch] = NewChunk]
      /\ chunks' = <<ch>> \o chunks
      /\ UNCHANGED <<sb, cells, conn, job, writing_chunks, pending_writes>>
      /\ UNCHANGED <<pending_writes_size, free_io_jobs, index, statistic, acked, crashes>>
  BY DEF spy_create_chunk, ch
<1>4. files' \subseteq Chunks /\ sb_failed' \subseteq files' /\ writing_chunks' \subseteq files'
  BY <1>1, <1>2, <1>3 DEF TypeOK
<1>5. chunk' \in [Chunks -> ChunkInfo]
  <2>1. NewChunk \in ChunkInfo
    BY StoreAssumption DEF NewChunk, ChunkInfo
  <2> QED BY <1>1, <1>2, <1>3, <2>1 DEF TypeOK
<1>6. chunks' \in Seq(files')
  <2>1. chunks \in Seq(files')
    <3>1. \A i \in 1..Len(chunks) : chunks[i] \in files'
      BY <1>1, <1>3, ElementOfSeq
    <3>2. chunks \in [1..Len(chunks) -> files']
      BY <1>1, <3>1, LenProperties
    <3> QED BY <1>1, <3>2, SeqDef
  <2>2. ch \in files'
    BY <1>3
  <2> QED BY <1>3, <2>1, <2>2, PushInjectiveSet
<1> QED BY <1>1, <1>2, <1>3, <1>4, <1>5, <1>6 DEF TypeOK, ch

(* Writing the superblock of a new chunk file keeps the types.              *)
LEMMA TypeCreateSuperblock ==
  ASSUME IInv, spy_create_chunk_superblock
  PROVE  TypeOK'
<1>1. TypeOK /\ sb_failed \subseteq files /\ files \subseteq Chunks
  BY DEF IInv, TypeOK
<1>2. UNCHANGED <<files, cells, acked, crashes>>
      /\ mode' \in {"down", "creating", "up", "aborted"}
  BY DEF spy_create_chunk_superblock
<1>3. PICK ch \in sb_failed :
        \/ /\ sb' = [sb EXCEPT ![ch] = chunk[ch]]
           /\ sb_failed' = sb_failed \ {ch}
           /\ UNCHANGED <<chunk, loopVars>>
        \/ /\ Reset
           /\ UNCHANGED <<sb, sb_failed>>
  BY DEF spy_create_chunk_superblock
<1>4. CASE /\ sb' = [sb EXCEPT ![ch] = chunk[ch]]
           /\ sb_failed' = sb_failed \ {ch}
           /\ UNCHANGED <<chunk, loopVars>>
  <2>1. sb' \in [Chunks -> ChunkInfo] /\ sb_failed' \subseteq files
    BY <1>1, <1>4 DEF TypeOK
  <2> QED BY <1>1, <1>2, <1>4, <2>1 DEF TypeOK, loopVars
<1>5. CASE Reset /\ UNCHANGED <<sb, sb_failed>>
  BY <1>1, <1>2, <1>5, ResetType DEF TypeOK
<1> QED BY <1>3, <1>4, <1>5

(* readdir finds every chunk file once.                                     *)
LEMMA OrderFact ==
  ASSUME NEW S, NEW n \in Nat, NEW s \in Bijection(1..n, S)
  PROVE  s \in Seq(S) /\ IsInjective(s)
<1>1. s \in [1..n -> S] /\ IsInjective(s)
  BY DEF Bijection, Injection
<1>2. s \in Seq(S)
  BY <1>1, SeqDef
<1> QED BY <1>1, <1>2

(* The entry made for a fid is one: if a record of it is found, its place.  *)
LEMMA FoundEntryFact ==
  ASSUME TypeOK, NEW f \in Fids
  PROVE  /\ FoundEntry(f) \in Entry
         /\ FoundEntry(f) # NoEntry =>
              /\ FoundEntry(f).chunk \in files
              /\ FoundEntry(f).offset \in RecordStarts(FoundEntry(f).chunk, f)
         /\ \A ch \in files, p \in Offsets :
              p \in RecordStarts(ch, f) => FoundEntry(f) # NoEntry
<1> DEFINE found == {e \in [chunk : files, offset : Offsets] :
                       e.offset \in RecordStarts(e.chunk, f)}
<1>1. FoundEntry(f) = IF found = {} THEN NoEntry ELSE CHOOSE e \in found : TRUE
  BY DEF FoundEntry
<1>2. ASSUME NEW e \in found
      PROVE  /\ e \in Entry /\ e # NoEntry
             /\ e.chunk \in files /\ e.offset \in RecordStarts(e.chunk, f)
  <2>1. e.chunk \in files /\ e.offset \in Offsets /\ e \in [chunk : files, offset : Offsets]
    BY <1>2
  <2>2. e.chunk \in 1..NChunks
    BY <2>1, Zenon DEF TypeOK, Chunks
  <2> QED BY <1>2, <2>1, <2>2, StoreAssumption DEF Entry, NoEntry, Offsets
<1>3. ASSUME NEW ch \in files, NEW p \in Offsets, p \in RecordStarts(ch, f)
      PROVE  [chunk |-> ch, offset |-> p] \in found
  BY <1>3
<1>4. NoEntry \in Entry
  BY StoreAssumption DEF NoEntry, Entry
<1> HIDE DEF found
<1>5. CASE found = {}
  BY <1>1, <1>3, <1>4, <1>5
<1>6. CASE found # {}
  <2>1. FoundEntry(f) \in found
    BY <1>1, <1>6
  <2> QED BY <1>2, <2>1
<1> QED BY <1>5, <1>6

(* A restart keeps the types.                                               *)
LEMMA TypeRecover ==
  ASSUME IInv, spy_recover_files
  PROVE  TypeOK'
<1>1. TypeOK
  BY DEF IInv
<1>2. UNCHANGED <<files, sb, cells, conn, job, writing_chunks, pending_writes>>
      /\ UNCHANGED <<pending_writes_size, free_io_jobs, statistic, acked, crashes>>
  BY DEF spy_recover_files
<1>3. CASE mode' = "aborted" /\ UNCHANGED <<chunk, chunks, index, sb_failed>>
  BY <1>1, <1>2, <1>3 DEF TypeOK
<1>4. CASE /\ mode' = "up"
           /\ chunk' = [ch \in Chunks |-> IF ch \in files THEN sb[ch] ELSE NoSuperblock]
           /\ \E n \in 0..NChunks : chunks' \in Bijection(1..n, files)
           /\ index' = [f \in Fids |-> FoundEntry(f)]
           /\ sb_failed' = {}
  <2>1. chunk' \in [Chunks -> ChunkInfo]
    BY <1>1, <1>4, StoreAssumption DEF TypeOK, NoSuperblock, ChunkInfo
  <2>2. chunks' \in Seq(files)
    BY <1>4, OrderFact, StoreAssumption
  <2>3. index' \in [Fids -> Entry]
    BY <1>1, <1>4, FoundEntryFact
  <2> QED BY <1>1, <1>2, <1>4, <2>1, <2>2, <2>3 DEF TypeOK
<1> QED BY <1>3, <1>4 DEF spy_recover_files

(* Every step keeps the types.                                              *)
LEMMA TypeStep ==
  ASSUME IInv, [Next]_vars
  PROVE  TypeOK'
<1>1. CASE UNCHANGED vars
  BY <1>1 DEF IInv, TypeOK, vars, storeVars, loopVars
<1> QED BY <1>1, TypeSocket, TypeRequest, TypeWorker, TypeDone, TypeCron, TypeCrash,
           TypeCreate, TypeCreateSuperblock, TypeRecover DEF Next

(* The types hold before the first start.                                   *)
LEMMA TypeInit == Init => TypeOK
<1> SUFFICES ASSUME Init PROVE TypeOK
  OBVIOUS
<1>1. /\ sb \in [Chunks -> ChunkInfo] /\ chunk \in [Chunks -> ChunkInfo]
      /\ index \in [Fids -> Entry]
  BY StoreAssumption DEF Init, NoSuperblock, ChunkInfo, NoEntry, Entry
<1>2. conn \in [Conns -> Connection] /\ job \in [Conns -> Job]
  BY ConnTypes, JobTypes DEF Init
<1>3. chunks \in Seq(files) /\ pending_writes \in Seq(Conns)
  BY EmptySeq DEF Init
<1>4. /\ files \subseteq Chunks
      /\ cells \in [Chunks -> [Offsets -> (Fids \X Nat) \cup {Blank}]]
      /\ mode \in {"down", "creating", "up", "aborted"}
      /\ writing_chunks \subseteq files /\ acked \subseteq Fids
      /\ sb_failed \subseteq files /\ crashes \in Nat
  BY DEF Init
<1>5. /\ pending_writes_size \in 0..MAX_PENDING_WRITES /\ free_io_jobs \in Nat
      /\ statistic \in [conn_count : Int, reading_count : Int, writing_count : Int]
  BY ServerAssumption DEF Init, NoStatistic
<1> QED BY <1>1, <1>2, <1>3, <1>4, <1>5 DEF TypeOK
=============================================================================
