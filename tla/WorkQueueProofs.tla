-------------------------- MODULE WorkQueueProofs ---------------------------
(***************************************************************************)
(* That the work queue loses nothing, for any number of works and threads: *)
(* the counters the threads come and go by are right, a pending work finds *)
(* a thread awake, a finished one finds the eventfd written, and every     *)
(* work goes through the states of module WorkPool.                        *)
(***************************************************************************)
EXTENDS WorkQueue, FiniteSetTheorems, TLAPS

-----------------------------------------------------------------------------
(* Sequences, of which the provers know what they are.                     *)

(* The elements of a sequence.                                              *)
LEMMA ElementOfSeq ==
  ASSUME NEW S, NEW q \in Seq(S), NEW i \in 1..Len(q)
  PROVE  q[i] \in S
OBVIOUS

(* The empty sequence, and those that are not.                              *)
LEMMA EmptySeq ==
  ASSUME NEW S
  PROVE  /\ <<>> \in Seq(S) /\ Len(<<>>) = 0
         /\ \A q \in Seq(S) : q # <<>> => Len(q) \in Nat \ {0}
OBVIOUS

(* Length and domain.                                                       *)
LEMMA LenProperties ==
  ASSUME NEW S, NEW q \in Seq(S)
  PROVE  /\ Len(q) \in Nat
         /\ q \in [1..Len(q) -> S] /\ DOMAIN q = 1..Len(q)
OBVIOUS

(* The first element taken off.                                             *)
LEMMA HeadTailProperties ==
  ASSUME NEW S, NEW q \in Seq(S), q # <<>>
  PROVE  /\ Head(q) \in S /\ Tail(q) \in Seq(S) /\ Len(Tail(q)) = Len(q) - 1
         /\ \A i \in 1..Len(Tail(q)) : Tail(q)[i] = q[i + 1]
OBVIOUS

(* An element put at the end.                                               *)
LEMMA AppendProperties ==
  ASSUME NEW S, NEW q \in Seq(S), NEW e \in S
  PROVE  /\ Append(q, e) \in Seq(S) /\ Append(q, e) # <<>>
         /\ Len(Append(q, e)) = Len(q) + 1
         /\ \A i \in 1..Len(q) : Append(q, e)[i] = q[i]
         /\ Append(q, e)[Len(q) + 1] = e
OBVIOUS

-----------------------------------------------------------------------------
(* The lists are sequences.                                                *)

(* list_add_tail of a new element.                                          *)
LEMMA AppendInjectiveSet ==
  ASSUME NEW S, NEW s \in Seq(S), NEW e \in S
  PROVE  /\ Range(Append(s, e)) = Range(s) \cup {e}
         /\ IsInjective(s) /\ e \notin Range(s) => IsInjective(Append(s, e))
<1> DEFINE r == Append(s, e)
<1>1. /\ r \in Seq(S)
      /\ Len(r) = Len(s) + 1
      /\ \A j \in 1..Len(s) : r[j] = s[j]
      /\ r[Len(s) + 1] = e
  BY AppendProperties
<1>2. Len(s) \in Nat /\ DOMAIN s = 1..Len(s) /\ DOMAIN r = 1..(Len(s) + 1)
  BY <1>1, LenProperties
<1> HIDE DEF r
<1>3. Range(r) = Range(s) \cup {e}
  BY <1>1, <1>2 DEF Range
<1>4. ASSUME IsInjective(s), e \notin Range(s)
      PROVE  IsInjective(r)
  BY <1>1, <1>2, <1>4 DEF Range, IsInjective
<1>5. QED
  BY <1>3, <1>4 DEF r

(* list_del of the first element.                                           *)
LEMMA TailInjectiveSet ==
  ASSUME NEW S, NEW s \in Seq(S), s # <<>>
  PROVE  /\ Tail(s) \in Seq(S)
         /\ Head(s) \in S /\ Head(s) \in Range(s)
         /\ Range(Tail(s)) \subseteq Range(s)
         /\ IsInjective(s) => IsInjective(Tail(s)) /\ Head(s) \notin Range(Tail(s))
<1> DEFINE r == Tail(s)
<1>1. /\ r \in Seq(S) /\ Head(s) = s[1] /\ s[1] \in S
      /\ Len(s) \in Nat /\ Len(s) >= 1 /\ Len(r) = Len(s) - 1
      /\ \A j \in 1..Len(r) : r[j] = s[j + 1]
  BY HeadTailProperties, EmptySeq, LenProperties, ElementOfSeq
<1>2. DOMAIN r = 1..Len(r) /\ DOMAIN s = 1..Len(s)
  BY <1>1, LenProperties
<1> HIDE DEF r
<1>3. Head(s) \in Range(s)
  BY <1>1, <1>2 DEF Range
<1>4. ASSUME NEW e \in Range(r) PROVE e \in Range(s)
  <2>1. PICK j \in 1..Len(r) : e = r[j]
    BY <1>2 DEF Range
  <2>2. e = s[j + 1] /\ j + 1 \in 1..Len(s)
    BY <1>1, <2>1
  <2> QED BY <1>2, <2>2 DEF Range
<1>5. ASSUME IsInjective(s) PROVE IsInjective(r) /\ Head(s) \notin Range(r)
  <2>1. \A i, j \in 1..Len(s) : s[i] = s[j] => i = j
    BY <1>2, <1>5 DEF IsInjective
  <2>2. ASSUME NEW i \in 1..Len(r), NEW j \in 1..Len(r), r[i] = r[j] PROVE i = j
    <3>1. i + 1 \in 1..Len(s) /\ j + 1 \in 1..Len(s) /\ s[i + 1] = s[j + 1]
      BY <1>1, <2>2
    <3>2. i + 1 = j + 1
      BY <2>1, <3>1
    <3> QED BY <3>2
  <2>3. ASSUME NEW j \in 1..Len(r) PROVE r[j] # s[1]
    <3>1. j + 1 \in 1..Len(s) /\ 1 \in 1..Len(s) /\ r[j] = s[j + 1] /\ j + 1 # 1
      BY <1>1
    <3> QED BY <2>1, <3>1
  <2> QED BY <1>1, <1>2, <2>2, <2>3 DEF IsInjective, Range
<1> QED BY <1>1, <1>3, <1>4, <1>5 DEF r


-----------------------------------------------------------------------------
(* How many threads are where.                                             *)

\* The threads whose pc is in P, and their number.
With(P) == {t \in Threads : thread[t].pc \in P}
Number(P) == Cardinality(With(P))

Alive == ThreadPC \ {"none"}
Busy == {"run", "count"}

ThreadState == [pc : ThreadPC, work : Works \cup {NoWork}]

(* Sets of threads are finite.                                              *)
LEMMA ThreadSets ==
  ASSUME NEW S \in SUBSET Threads
  PROVE  IsFiniteSet(S) /\ Cardinality(S) \in Nat
<1>1. IsFiniteSet(Threads)
  BY WorkQueueAssumption, FS_Interval DEF Threads
<1> QED BY <1>1, FS_Subset, FS_CardinalityType

(* One thread moves.                                                        *)
LEMMA OneMoves ==
  ASSUME thread \in [Threads -> ThreadState], NEW t \in Threads, NEW r,
         thread' = [thread EXCEPT ![t] = r], NEW P
  PROVE  Number(P)' = Number(P) + (IF r.pc \in P THEN 1 ELSE 0)
                                - (IF thread[t].pc \in P THEN 1 ELSE 0)
<1>1. \A u \in Threads : thread'[u] = IF u = t THEN r ELSE thread[u]
  OBVIOUS
<1>2. With(P) \in SUBSET Threads /\ With(P)' \in SUBSET Threads
  BY DEF With
<1>3. IsFiniteSet(With(P)) /\ Cardinality(With(P)) \in Nat
  BY <1>2, ThreadSets
<1>4. t \in With(P) <=> thread[t].pc \in P
  BY DEF With
<1>5. CASE r.pc \in P /\ thread[t].pc \in P
  <2>1. With(P)' = With(P)
    BY <1>1, <1>5 DEF With
  <2> QED BY <1>3, <1>5, <2>1 DEF Number
<1>6. CASE r.pc \in P /\ thread[t].pc \notin P
  <2>1. With(P)' = With(P) \cup {t}
    BY <1>1, <1>6 DEF With
  <2>2. Cardinality(With(P)') = Cardinality(With(P)) + 1
    BY <1>3, <1>4, <1>6, <2>1, FS_AddElement, Zenon
  <2> QED BY <1>3, <1>6, <2>2 DEF Number
<1>7. CASE r.pc \notin P /\ thread[t].pc \in P
  <2>1. With(P)' = With(P) \ {t}
    BY <1>1, <1>7 DEF With
  <2>2. Cardinality(With(P)') = Cardinality(With(P)) - 1
    BY <1>3, <1>4, <1>7, <2>1, FS_RemoveElement, Zenon
  <2> QED BY <1>3, <1>7, <2>2 DEF Number
<1>8. CASE r.pc \notin P /\ thread[t].pc \notin P
  <2>1. With(P)' = With(P)
    BY <1>1, <1>8 DEF With
  <2> QED BY <1>3, <1>8, <2>1 DEF Number
<1> QED BY <1>5, <1>6, <1>7, <1>8

\* k threads start, and nothing else happens to threads.
Starts(k) ==
  /\ thread' \in [Threads -> ThreadState]
  /\ Number(Alive)' = Number(Alive) + k
  /\ Number(Busy)' = Number(Busy)
  /\ Number({"woken"})' = Number({"woken"})
  /\ Waiting' = Waiting
  /\ \A t \in Threads : /\ thread'[t].work = thread[t].work
                        /\ \/ thread'[t] = thread[t]
                           \/ thread[t].pc = "none" /\ thread'[t].pc = "top"

(* New threads start.                                                       *)
LEMMA SomeCreated ==
  ASSUME thread \in [Threads -> ThreadState], NEW new \in SUBSET Dead, Created(new)
  PROVE  Starts(Cardinality(new)) /\ Cardinality(new) \in Nat
<1>1. \A t \in Threads : thread[t] \in ThreadState
  OBVIOUS
<1>2. \A t \in Threads : thread'[t] = IF t \in new THEN [thread[t] EXCEPT !.pc = "top"]
                                                   ELSE thread[t]
  BY DEF Created
<1>3. \A t \in new : t \in Threads /\ thread[t].pc = "none"
  BY DEF Dead
<1>4. \A t \in new : thread'[t].pc = "top" /\ thread'[t].work = thread[t].work
                     /\ thread'[t] \in ThreadState
  BY <1>1, <1>2, <1>3, Zenon DEF ThreadState, ThreadPC
<1>5. /\ With(Busy)' = With(Busy) /\ With({"woken"})' = With({"woken"})
      /\ Waiting' = Waiting
  BY <1>2, <1>3, <1>4, Zenon DEF With, Busy, Waiting
<1>6. With(Alive)' = With(Alive) \cup new /\ With(Alive) \cap new = {}
  BY <1>2, <1>3, <1>4, Zenon DEF With, Alive, ThreadPC
<1>7. /\ IsFiniteSet(With(Alive)) /\ IsFiniteSet(new)
      /\ Cardinality(With(Alive)) \in Nat /\ Cardinality(new) \in Nat
  <2>1. With(Alive) \in SUBSET Threads /\ new \in SUBSET Threads
    BY <1>3 DEF With
  <2> QED BY <2>1, ThreadSets
<1>8. Cardinality(With(Alive)') = Cardinality(With(Alive)) + Cardinality(new)
  <2>1. Cardinality(With(Alive) \cup new)
          = Cardinality(With(Alive)) + Cardinality(new) - Cardinality(With(Alive) \cap new)
    BY <1>7, FS_Union
  <2>2. Cardinality(With(Alive) \cap new) = 0
    BY <1>6, FS_EmptySet
  <2> QED BY <1>6, <1>7, <2>1, <2>2
<1>9. thread' \in [Threads -> ThreadState]
  <2>1. thread' = [t \in Threads |-> thread'[t]]
    BY DEF Created
  <2> QED BY <1>1, <1>2, <1>4, <2>1
<1> QED BY <1>2, <1>3, <1>4, <1>5, <1>7, <1>8, <1>9 DEF Number, Starts
-----------------------------------------------------------------------------
(* The invariant.                                                          *)

Loops == [pc : LoopPC, ret : {"idle", "batch"}, work : Works \cup {NoWork}, list : Seq(Works)]

\* What is about to be put on a list is a work.
Held ==
  /\ loop \in Loops
  /\ At("lock") => loop.work \in Works
  /\ \A t \in Threads : thread[t].pc = "run" => thread[t].work \in Works

\* While a thread waits, every pending work has a thread that was woken for it, or
\* the signal is still to come: a thread waits only when it finds the list empty.
Signalled ==
  Waiting # {} => Len(pending_list) <= Number({"woken"}) + (IF At("signal") THEN 1 ELSE 0)

IInv ==
  /\ TypeOK
  /\ Held
  /\ Counters
  /\ Signalled
  /\ NoLostWakeup
  /\ NoLostCompletion

\* The counters in terms of Number.
Counts ==
  /\ nr_threads = Number(Alive)
  /\ nr_threads >= 1
  /\ nr_works = Len(pending_list) + Number(Busy) + (IF At("lock") THEN 1 ELSE 0)

(* The counters are the numbers of the threads.                             *)
LEMMA CountsIs ==
  ASSUME thread \in [Threads -> ThreadState], thread' \in [Threads -> ThreadState]
  PROVE  /\ Counters <=> Counts
         /\ Counters' <=> Counts'
<1>1. \A t \in Threads : thread[t].pc \in ThreadPC /\ thread'[t].pc \in ThreadPC
  BY DEF ThreadState
<1>2. /\ {t \in Threads : thread[t].pc # "none"} = With(Alive)
      /\ {t \in Threads : thread'[t].pc # "none"} = With(Alive)'
  BY <1>1 DEF With, Alive
<1>3. /\ {t \in Threads : thread[t].pc \in {"run", "count"}} = With(Busy)
      /\ {t \in Threads : thread'[t].pc \in {"run", "count"}} = With(Busy)'
  BY DEF With, Busy
<1>4. Counters <=> Counts
  BY <1>2, <1>3, Zenon DEF Counters, Counts, Number
<1>5. Counters' <=> Counts'
  BY <1>2, <1>3, Zenon DEF Counters, Counts, Number
<1> QED BY <1>4, <1>5

(* What the invariant says of every number and type in it.                  *)
LEMMA Facts ==
  ASSUME IInv
  PROVE  /\ thread \in [Threads -> ThreadState]
         /\ pending_list \in Seq(Works) /\ finished_list \in Seq(Works)
         /\ Len(pending_list) \in Nat
         /\ nr_threads \in Nat /\ nr_works \in Nat
         /\ expanded \in BOOLEAN /\ event_fd \in BOOLEAN
         /\ loop \in Loops
         /\ Number(Alive) \in Nat /\ Number(Busy) \in Nat /\ Number({"woken"}) \in Nat
         /\ Counts
<1>1. /\ thread \in [Threads -> ThreadState] /\ loop \in Loops
      /\ pending_list \in Seq(Works) /\ finished_list \in Seq(Works)
      /\ nr_threads \in Nat /\ nr_works \in Nat
      /\ expanded \in BOOLEAN /\ event_fd \in BOOLEAN
  BY DEF IInv, TypeOK, Held, ThreadState
<1>2. Len(pending_list) \in Nat
  BY <1>1, LenProperties
<1>3. \A P : With(P) \in SUBSET Threads
  BY DEF With
<1>4. Number(Alive) \in Nat /\ Number(Busy) \in Nat /\ Number({"woken"}) \in Nat
  BY <1>3, ThreadSets DEF Number
<1>5. Counts
  <2>1. {t \in Threads : thread[t].pc # "none"} = With(Alive)
    BY <1>1 DEF With, Alive, ThreadState
  <2>2. {t \in Threads : thread[t].pc \in {"run", "count"}} = With(Busy)
    BY DEF With, Busy
  <2> QED BY <2>1, <2>2, Zenon DEF Counters, Counts, Number, IInv
<1> QED BY <1>1, <1>2, <1>4, <1>5

(* The counters and types make the invariant, with what is said of waiting  *)
(* threads and finished works.                                              *)
LEMMA Assembled ==
  ASSUME thread \in [Threads -> ThreadState], thread' \in [Threads -> ThreadState],
         pending_list' \in Seq(Works), finished_list' \in Seq(Works),
         nr_threads' \in Nat, nr_works' \in Nat,
         expanded' \in BOOLEAN, event_fd' \in BOOLEAN,
         Held', Counts', Signalled', NoLostWakeup', NoLostCompletion'
  PROVE  IInv'
<1>1. TypeOK'
  BY DEF TypeOK, Held, Loops, ThreadState
<1> QED BY <1>1, CountsIs DEF IInv

\* What becomes of the numbers when one thread moves.
MovesTo(t, r) ==
  /\ thread' \in [Threads -> ThreadState]
  /\ thread'[t] = r /\ \A u \in Threads \ {t} : thread'[u] = thread[u]
  /\ Waiting' = IF r.pc = "waiting" THEN Waiting \cup {t} ELSE Waiting \ {t}
  /\ Number(Alive)' = Number(Alive) + (IF r.pc # "none" THEN 1 ELSE 0)
                                    - (IF thread[t].pc # "none" THEN 1 ELSE 0)
  /\ Number(Busy)' = Number(Busy) + (IF r.pc \in Busy THEN 1 ELSE 0)
                                  - (IF thread[t].pc \in Busy THEN 1 ELSE 0)
  /\ Number({"woken"})' = Number({"woken"}) + (IF r.pc = "woken" THEN 1 ELSE 0)
                                            - (IF thread[t].pc = "woken" THEN 1 ELSE 0)

(* One thread moves.                                                        *)
LEMMA Moves ==
  ASSUME thread \in [Threads -> ThreadState], NEW t \in Threads, NEW r \in ThreadState,
         thread' = [thread EXCEPT ![t] = r]
  PROVE  MovesTo(t, r)
<1>1. thread'[t] = r /\ \A u \in Threads \ {t} : thread'[u] = thread[u]
  OBVIOUS
<1>2. thread' \in [Threads -> ThreadState]
  OBVIOUS
<1>3. Waiting' = IF r.pc = "waiting" THEN Waiting \cup {t} ELSE Waiting \ {t}
  BY <1>1 DEF Waiting
<1>4. r.pc \in ThreadPC /\ thread[t].pc \in ThreadPC
  BY DEF ThreadState
<1>5. (r.pc \in Alive <=> r.pc # "none") /\ (thread[t].pc \in Alive <=> thread[t].pc # "none")
  BY <1>4 DEF Alive
<1>6. Number(Alive)' = Number(Alive) + (IF r.pc # "none" THEN 1 ELSE 0)
                                    - (IF thread[t].pc # "none" THEN 1 ELSE 0)
  BY <1>5, OneMoves, Zenon
<1>7. Number(Busy)' = Number(Busy) + (IF r.pc \in Busy THEN 1 ELSE 0)
                                  - (IF thread[t].pc \in Busy THEN 1 ELSE 0)
  BY OneMoves, Zenon
<1>8. Number({"woken"})' = Number({"woken"}) + (IF r.pc = "woken" THEN 1 ELSE 0)
                                         - (IF thread[t].pc = "woken" THEN 1 ELSE 0)
  <2>1. \A x : x \in {"woken"} <=> x = "woken"
    OBVIOUS
  <2> QED BY <2>1, OneMoves, Zenon
<1> QED BY <1>1, <1>2, <1>3, <1>6, <1>7, <1>8 DEF MovesTo

(* No thread moves.                                                         *)
LEMMA NoneMoves ==
  ASSUME thread' = thread
  PROVE  /\ Waiting' = Waiting /\ Number(Alive)' = Number(Alive)
         /\ Number(Busy)' = Number(Busy) /\ Number({"woken"})' = Number({"woken"})
BY DEF Waiting, Number, With
-----------------------------------------------------------------------------
(* The steps of the threads.                                               *)

(* Head and Tail of the list a thread takes its work from.                  *)
LEMMA FirstPending ==
  ASSUME pending_list \in Seq(Works), pending_list # <<>>
  PROVE  /\ Head(pending_list) \in Works /\ Tail(pending_list) \in Seq(Works)
         /\ Len(Tail(pending_list)) = Len(pending_list) - 1
BY HeadTailProperties

(* A thread that is awake takes the first work, or waits because there is   *)
(* none.                                                                    *)
LEMMA InvTakes ==
  ASSUME IInv, NEW t \in Threads, thread[t].pc \in {"top", "woken"}, TakeOrWait(t),
         UNCHANGED <<finished_list, nr_threads, nr_works, expanded, event_fd, loop>>
  PROVE  IInv'
<1> DEFINE a == thread[t].pc
<1>0. thread \in [Threads -> ThreadState] /\ thread[t] \in ThreadState
  BY Facts
<1>1. CASE pending_list = <<>>
  <2> DEFINE r == [thread[t] EXCEPT !.pc = "waiting"]
  <2>1. r \in ThreadState /\ r.pc = "waiting" /\ r.work = thread[t].work
    BY <1>0 DEF ThreadState, ThreadPC
  <2>2. thread' = [thread EXCEPT ![t] = r] /\ pending_list' = pending_list
    BY <1>0, <1>1 DEF TakeOrWait
  <2> HIDE DEF r
  <2>3. /\ thread' \in [Threads -> ThreadState]
        /\ thread'[t] = r /\ \A u \in Threads \ {t} : thread'[u] = thread[u]
        /\ Number(Alive)' = Number(Alive) /\ Number(Busy)' = Number(Busy)
    <3>1. "waiting" \notin Busy /\ thread[t].pc \notin Busy /\ thread[t].pc # "none"
      BY DEF Busy
    <3>2. MovesTo(t, r)
      BY <1>0, <2>1, <2>2, Moves, Zenon
    <3> QED BY <2>1, <3>1, <3>2, Facts DEF MovesTo
  <2>4. Counts'
    BY <2>2, <2>3, Facts DEF Counts, At
  <2>5. Held'
    BY <2>1, <2>3 DEF Held, At, IInv
  <2>6. Signalled' /\ NoLostWakeup'
    <3>1. Len(pending_list') = 0
      BY <1>1, <2>2
    <3>2. Number({"woken"})' \in Nat
      <4>1. With({"woken"})' \in SUBSET Threads
        BY DEF With
      <4> QED BY <4>1, ThreadSets DEF Number
    <3> QED BY <1>1, <2>2, <3>1, <3>2 DEF Signalled, NoLostWakeup
  <2>7. NoLostCompletion'
    <3>1. \A u \in Threads : thread[u].pc \in {"count", "notify"} => thread'[u] = thread[u]
      BY <2>3
    <3> QED BY <3>1 DEF NoLostCompletion, At, IInv
  <2> QED BY <1>0, <2>2, <2>3, <2>4, <2>5, <2>6, <2>7, Facts, Assembled
<1>2. CASE pending_list # <<>>
  <2> DEFINE r == [pc |-> "run", work |-> Head(pending_list)]
  <2>1. /\ r \in ThreadState /\ r.pc = "run" /\ r.work \in Works
        /\ Tail(pending_list) \in Seq(Works)
        /\ Len(Tail(pending_list)) = Len(pending_list) - 1
    BY <1>2, Facts, FirstPending DEF ThreadState, ThreadPC
  <2>2. thread' = [thread EXCEPT ![t] = r] /\ pending_list' = Tail(pending_list)
    BY <1>2 DEF TakeOrWait
  <2> HIDE DEF r
  <2>3. /\ thread' \in [Threads -> ThreadState]
        /\ thread'[t] = r /\ \A u \in Threads \ {t} : thread'[u] = thread[u]
        /\ Number(Alive)' = Number(Alive) /\ Number(Busy)' = Number(Busy) + 1
        /\ Waiting' \subseteq Waiting
        /\ Number({"woken"})' >= Number({"woken"}) - 1
    <3>1. "run" \in Busy /\ thread[t].pc \notin Busy /\ thread[t].pc # "none"
      BY DEF Busy
    <3>2. MovesTo(t, r)
      BY <1>0, <2>1, <2>2, Moves, Zenon
    <3> QED BY <2>1, <3>1, <3>2, Facts DEF MovesTo
  <2>4. Counts'
    BY <2>1, <2>2, <2>3, Facts DEF Counts, At
  <2>5. Held'
    BY <2>1, <2>3 DEF Held, At, IInv
  <2>6. Signalled'
    <3>1. Number({"woken"})' \in Nat
      <4>1. With({"woken"})' \in SUBSET Threads
        BY DEF With
      <4> QED BY <4>1, ThreadSets DEF Number
    <3> QED BY <2>1, <2>2, <2>3, <3>1, Facts DEF Signalled, At, IInv
  <2>7. NoLostWakeup'
    BY <2>1, <2>3 DEF NoLostWakeup
  <2>8. NoLostCompletion'
    <3>1. \A u \in Threads : thread[u].pc \in {"count", "notify"} => thread'[u] = thread[u]
      BY <2>3
    <3> QED BY <3>1 DEF NoLostCompletion, At, IInv
  <2> QED BY <1>0, <2>1, <2>2, <2>3, <2>4, <2>5, <2>6, <2>7, <2>8, Facts, Assembled
<1> QED BY <1>1, <1>2

(* A thread ends only when two others are alive: the works left to them     *)
(* have somebody awake.                                                     *)
LEMMA InvShrinks ==
  ASSUME IInv, NEW t \in Threads, thread[t].pc = "top", spy_wq_need_shrink,
         nr_threads' = nr_threads - 1, thread' = [thread EXCEPT ![t].pc = "none"],
         UNCHANGED <<pending_list, finished_list, nr_works, expanded, event_fd, loop>>
  PROVE  IInv'
<1> DEFINE r == [thread[t] EXCEPT !.pc = "none"]
<1>0. thread \in [Threads -> ThreadState] /\ thread[t] \in ThreadState
  BY Facts
<1>1. r \in ThreadState /\ r.pc = "none" /\ r.work = thread[t].work
  BY <1>0 DEF ThreadState, ThreadPC
<1>2. thread' = [thread EXCEPT ![t] = r]
  BY <1>0
<1> HIDE DEF r
<1>3. /\ thread' \in [Threads -> ThreadState]
      /\ thread'[t] = r /\ \A u \in Threads \ {t} : thread'[u] = thread[u]
      /\ Number(Alive)' = Number(Alive) - 1 /\ Number(Busy)' = Number(Busy)
      /\ Waiting' = Waiting /\ Number({"woken"})' = Number({"woken"})
  <2>1. "none" \notin Busy /\ "top" \notin Busy /\ t \notin Waiting
    BY DEF Busy, Waiting
  <2>2. MovesTo(t, r)
    BY <1>0, <1>1, <1>2, Moves, Zenon
  <2> QED BY <1>1, <2>1, <2>2, Facts DEF MovesTo
<1>4. nr_threads >= 3
  BY Facts DEF spy_wq_need_shrink
<1>5. Counts' /\ nr_threads' \in Nat
  BY <1>3, <1>4, Facts DEF Counts, At
<1>6. Held'
  BY <1>1, <1>3 DEF Held, At, IInv
<1>7. Signalled'
  BY <1>3 DEF Signalled, At, IInv
<1>8. NoLostWakeup'
  <2> SUFFICES ASSUME pending_list # <<>>, ~At("signal")
               PROVE  \E u \in Threads : thread'[u].pc \notin {"none", "waiting"}
    BY DEF NoLostWakeup, At
  <2>1. CASE Waiting # {}
    <3>1. Len(pending_list) >= 1
      BY Facts, EmptySeq
    <3>2. Number({"woken"}) >= 1
      BY <2>1, <3>1, Facts DEF Signalled, IInv
    <3>3. With({"woken"}) # {}
      BY <3>2, FS_EmptySet DEF Number
    <3>4. PICK u \in Threads : thread[u].pc = "woken"
      BY <3>3 DEF With
    <3> QED BY <1>3, <3>4
  <2>2. CASE Waiting = {}
    <3>1. Number(Alive)' >= 1
      BY <1>3, <1>4, Facts DEF Counts
    <3> DEFINE S == {u \in Threads : thread'[u].pc \in Alive}
    <3>2. Number(Alive)' = Cardinality(S)
      BY DEF Number, With
    <3> HIDE DEF S
    <3>3. S # {}
      <4>1. Cardinality(S) >= 1
        BY <3>1, <3>2
      <4>2. Cardinality({}) = 0
        BY FS_EmptySet
      <4> QED BY <4>1, <4>2
    <3>4. PICK u \in Threads : thread'[u].pc \in Alive
      BY <3>3 DEF S
    <3>5. u # t /\ thread'[u].pc # "waiting"
      BY <1>1, <1>3, <2>2, <3>4 DEF Alive, Waiting
    <3> QED BY <3>4, <3>5 DEF Alive
  <2> QED BY <2>1, <2>2
<1>9. NoLostCompletion'
  <2>1. \A u \in Threads : thread[u].pc \in {"count", "notify"} => thread'[u] = thread[u]
    BY <1>3
  <2> QED BY <2>1 DEF NoLostCompletion, At, IInv
<1> QED BY <1>0, <1>3, <1>5, <1>6, <1>7, <1>8, <1>9, Facts, Assembled
(* The other steps of a thread.                                             *)
LEMMA InvThread ==
  ASSUME IInv, NEW t \in Threads, Worker(t) \/ SpuriousWakeup(t)
  PROVE  IInv'
<1>0. thread \in [Threads -> ThreadState] /\ thread[t] \in ThreadState
  BY Facts
<1>1. CASE spy_worker_routine(t)
  <2>1. CASE spy_wq_need_shrink
    BY <1>1, <2>1, InvShrinks DEF spy_worker_routine
  <2>2. CASE ~spy_wq_need_shrink
    BY <1>1, <2>2, InvTakes DEF spy_worker_routine
  <2> QED BY <2>1, <2>2
<1>2. CASE WorkerWoken(t)
  BY <1>2, InvTakes DEF WorkerWoken
<1>3. CASE SpuriousWakeup(t)
  <2> DEFINE r == [thread[t] EXCEPT !.pc = "woken"]
  <2>1. r \in ThreadState /\ r.pc = "woken"
    BY <1>0 DEF ThreadState, ThreadPC
  <2>2. /\ thread' = [thread EXCEPT ![t] = r] /\ thread[t].pc = "waiting"
        /\ UNCHANGED <<pending_list, finished_list, nr_threads, nr_works, expanded,
                       event_fd, loop>>
    BY <1>0, <1>3 DEF SpuriousWakeup
  <2> HIDE DEF r
  <2>3. MovesTo(t, r)
    BY <1>0, <2>1, <2>2, Moves, Zenon
  <2>4. Counts'
    <3>1. "waiting" \notin Busy /\ "woken" \notin Busy
      BY DEF Busy
    <3> QED BY <2>1, <2>2, <2>3, <3>1, Facts DEF Counts, At, MovesTo
  <2>5. Held' /\ NoLostCompletion'
    BY <2>1, <2>2, <2>3 DEF Held, At, MovesTo, NoLostCompletion, IInv
  <2>6. Signalled'
    BY <2>1, <2>2, <2>3, Facts DEF Signalled, At, MovesTo, IInv
  <2>7. NoLostWakeup'
    BY <2>1, <2>2, <2>3 DEF NoLostWakeup, At, MovesTo, IInv
  <2> QED BY <1>0, <2>2, <2>3, <2>4, <2>5, <2>6, <2>7, Facts, Assembled DEF MovesTo
<1>4. CASE WorkerFinishes(t)
  <2> DEFINE r == [pc |-> "count", work |-> NoWork]
  <2>1. r \in ThreadState /\ r.pc = "count"
    BY DEF ThreadState, ThreadPC
  <2>2. /\ thread' = [thread EXCEPT ![t] = r] /\ thread[t].pc = "run"
        /\ finished_list' = Append(finished_list, thread[t].work)
        /\ UNCHANGED <<pending_list, nr_threads, nr_works, expanded, event_fd, loop>>
    BY <1>4 DEF WorkerFinishes
  <2> HIDE DEF r
  <2>3. MovesTo(t, r)
    BY <1>0, <2>1, <2>2, Moves, Zenon
  <2>4. Counts'
    <3>1. "run" \in Busy /\ "count" \in Busy
      BY DEF Busy
    <3> QED BY <2>1, <2>2, <2>3, <3>1, Facts DEF Counts, At, MovesTo
  <2>5. Held' /\ NoLostCompletion'
    BY <2>1, <2>2, <2>3 DEF Held, At, MovesTo, NoLostCompletion, IInv
  <2>6. Signalled'
    BY <2>1, <2>2, <2>3, Facts DEF Signalled, At, MovesTo, IInv, Waiting
  <2>7. NoLostWakeup'
    BY <2>1, <2>2, <2>3 DEF NoLostWakeup, At, MovesTo, IInv
  <2>8. finished_list' \in Seq(Works)
    BY <2>2, Facts, AppendProperties DEF IInv, Held
  <2> QED BY <1>0, <2>2, <2>3, <2>4, <2>5, <2>6, <2>7, <2>8, Facts, Assembled DEF MovesTo
<1>5. CASE WorkerCounts(t)
  <2> DEFINE r == [thread[t] EXCEPT !.pc = "notify"]
  <2>1. r \in ThreadState /\ r.pc = "notify"
    BY <1>0 DEF ThreadState, ThreadPC
  <2>2. /\ thread' = [thread EXCEPT ![t] = r] /\ thread[t].pc = "count"
        /\ nr_works' = nr_works - 1
        /\ UNCHANGED <<pending_list, finished_list, nr_threads, expanded, event_fd, loop>>
    BY <1>0, <1>5 DEF WorkerCounts
  <2> HIDE DEF r
  <2>3. MovesTo(t, r)
    BY <1>0, <2>1, <2>2, Moves, Zenon
  <2>4. Counts' /\ nr_works' \in Nat
    <3>1. "count" \in Busy /\ "notify" \notin Busy
      BY DEF Busy
    <3>2. Number(Busy)' \in Nat
      <4>1. With(Busy)' \in SUBSET Threads
        BY DEF With
      <4> QED BY <4>1, ThreadSets DEF Number
    <3> QED BY <2>1, <2>2, <2>3, <3>1, <3>2, Facts DEF Counts, At, MovesTo
  <2>5. Held' /\ NoLostCompletion'
    BY <2>1, <2>2, <2>3 DEF Held, At, MovesTo, NoLostCompletion, IInv
  <2>6. Signalled'
    BY <2>1, <2>2, <2>3, Facts DEF Signalled, At, MovesTo, IInv, Waiting
  <2>7. NoLostWakeup'
    BY <2>1, <2>2, <2>3 DEF NoLostWakeup, At, MovesTo, IInv
  <2> QED BY <1>0, <2>2, <2>3, <2>4, <2>5, <2>6, <2>7, Facts, Assembled DEF MovesTo
<1>6. CASE spy_finish_work_notify(t)
  <2> DEFINE r == [thread[t] EXCEPT !.pc = "top"]
  <2>1. r \in ThreadState /\ r.pc = "top"
    BY <1>0 DEF ThreadState, ThreadPC
  <2>2. /\ thread' = [thread EXCEPT ![t] = r] /\ thread[t].pc = "notify"
        /\ event_fd' = TRUE
        /\ UNCHANGED <<pending_list, finished_list, nr_threads, nr_works, expanded, loop>>
    BY <1>0, <1>6 DEF spy_finish_work_notify
  <2> HIDE DEF r
  <2>3. MovesTo(t, r)
    BY <1>0, <2>1, <2>2, Moves, Zenon
  <2>4. Counts'
    <3>1. "top" \notin Busy /\ "notify" \notin Busy
      BY DEF Busy
    <3> QED BY <2>1, <2>2, <2>3, <3>1, Facts DEF Counts, At, MovesTo
  <2>5. Held' /\ NoLostCompletion'
    BY <2>1, <2>2, <2>3 DEF Held, At, MovesTo, NoLostCompletion, IInv
  <2>6. Signalled'
    BY <2>1, <2>2, <2>3, Facts DEF Signalled, At, MovesTo, IInv, Waiting
  <2>7. NoLostWakeup'
    BY <2>1, <2>2, <2>3 DEF NoLostWakeup, At, MovesTo, IInv
  <2> QED BY <1>0, <2>2, <2>3, <2>4, <2>5, <2>6, <2>7, Facts, Assembled DEF MovesTo
<1> QED BY <1>1, <1>2, <1>3, <1>4, <1>5, <1>6 DEF Worker
-----------------------------------------------------------------------------
(* The steps of the event loop.                                            *)

(* A work is queued, threads are created for it if there are few, and one   *)
(* is signalled.                                                            *)
LEMMA InvLocked ==
  ASSUME IInv, spy_queue_work_locked
  PROVE  IInv'
<1> DEFINE n == Len(pending_list)
<1>0. /\ thread \in [Threads -> ThreadState] /\ loop \in Loops /\ n \in Nat
      /\ At("lock") /\ loop.work \in Works /\ pending_list \in Seq(Works)
  BY Facts DEF spy_queue_work_locked, IInv, Held
<1>1. pending_list' \in Seq(Works) /\ Len(pending_list') = n + 1
  BY <1>0, AppendProperties DEF spy_queue_work_locked
<1>2. /\ loop' \in Loops /\ loop'.pc = "signal"
      /\ UNCHANGED <<finished_list, nr_works, event_fd>>
  BY <1>0, Zenon DEF spy_queue_work_locked, Loops, LoopPC
<1>3. PICK k \in Nat : Starts(k) /\ nr_threads' = nr_threads + k /\ expanded' \in BOOLEAN
  <2>1. CASE spy_wq_need_expand
    <3>1. PICK new \in SUBSET Dead : /\ Created(new)
                                     /\ nr_threads' = nr_threads + Cardinality(new)
                                     /\ expanded' = TRUE
      BY <2>1 DEF spy_queue_work_locked
    <3> QED BY <1>0, <3>1, SomeCreated
  <2>2. CASE ~spy_wq_need_expand
    <3>1. UNCHANGED <<thread, nr_threads, expanded>>
      BY <2>2 DEF spy_queue_work_locked
    <3>2. Starts(0)
      BY <3>1, Facts, NoneMoves DEF Starts
    <3>3. nr_threads' = nr_threads + 0 /\ expanded' \in BOOLEAN
      BY <3>1, Facts
    <3> QED BY <3>2, <3>3
  <2> QED BY <2>1, <2>2
<1>4. Counts'
  <2>1. nr_works = n + Number(Busy) + 1 /\ nr_threads = Number(Alive) /\ nr_threads >= 1
    BY <1>0, Facts DEF Counts, At
  <2>2. ~At("lock")'
    BY <1>2 DEF At
  <2>3. nr_works' = Len(pending_list') + Number(Busy)'
    BY <1>0, <1>1, <1>2, <1>3, <2>1, Facts DEF Starts
  <2>4. nr_threads' = Number(Alive)' /\ nr_threads' >= 1
    BY <1>3, <2>1, Facts DEF Starts
  <2>5. Len(pending_list') \in Nat /\ Number(Busy)' \in Nat
    BY <1>0, <1>1, <1>3, Facts DEF Starts
  <2> QED BY <2>2, <2>3, <2>4, <2>5 DEF Counts
<1>5. Held'
  BY <1>0, <1>2, <1>3 DEF Held, At, IInv, Starts
<1>6. Signalled'
  BY <1>0, <1>1, <1>2, <1>3, Facts DEF Signalled, At, IInv, Starts
<1>7. NoLostWakeup'
  BY <1>2 DEF NoLostWakeup, At
<1>8. NoLostCompletion'
  BY <1>0, <1>2, <1>3 DEF NoLostCompletion, At, IInv, Starts
<1>9. nr_threads' \in Nat
  BY <1>3, Facts
<1> QED BY <1>0, <1>1, <1>2, <1>3, <1>4, <1>5, <1>6, <1>7, <1>8, <1>9, Facts, Assembled
       DEF Starts

(* pthread_cond_signal wakes a thread, unless none waits: then all that     *)
(* exist are awake, and one exists.                                         *)
LEMMA InvSignal ==
  ASSUME IInv, spy_queue_work_signal
  PROVE  IInv'
<1>0. /\ thread \in [Threads -> ThreadState] /\ loop \in Loops /\ At("signal")
      /\ UNCHANGED <<pending_list, finished_list, nr_threads, nr_works, expanded, event_fd>>
  BY Facts DEF spy_queue_work_signal
<1>1. loop' \in Loops /\ loop'.pc \in {"idle", "batch"}
  BY <1>0, Zenon DEF spy_queue_work_signal, Loops, LoopPC
<1>2. ASSUME NEW t \in Waiting, thread' = [thread EXCEPT ![t].pc = "woken"] PROVE IInv'
  <2> DEFINE r == [thread[t] EXCEPT !.pc = "woken"]
  <2>1. /\ t \in Threads /\ thread[t].pc = "waiting"
        /\ r \in ThreadState /\ r.pc = "woken"
    BY <1>0 DEF ThreadState, ThreadPC, Waiting
  <2>2. thread' = [thread EXCEPT ![t] = r]
    BY <1>0, <1>2, <2>1
  <2> HIDE DEF r
  <2>3. MovesTo(t, r)
    BY <1>0, <2>1, <2>2, Moves, Zenon
  <2>4. Counts'
    <3>1. "waiting" \notin Busy /\ "woken" \notin Busy
      BY DEF Busy
    <3> QED BY <1>0, <1>1, <2>1, <2>3, <3>1, Facts DEF Counts, At, MovesTo
  <2>5. Held' /\ NoLostCompletion'
    BY <1>0, <1>1, <2>1, <2>3 DEF Held, At, MovesTo, NoLostCompletion, IInv
  <2>6. Signalled'
    BY <1>0, <1>1, <2>1, <2>3, Facts DEF Signalled, At, MovesTo, IInv
  <2>7. NoLostWakeup'
    BY <2>1, <2>3 DEF NoLostWakeup, MovesTo
  <2> QED BY <1>0, <2>3, <2>4, <2>5, <2>6, <2>7, Facts, Assembled DEF MovesTo
<1>3. ASSUME Waiting = {}, thread' = thread PROVE IInv'
  <2>1. Counts' /\ Held' /\ NoLostCompletion' /\ Signalled'
    BY <1>0, <1>1, <1>3, Facts, NoneMoves
       DEF Counts, Held, At, NoLostCompletion, Signalled, IInv
  <2>2. NoLostWakeup'
    <3>1. With(Alive) # {}
      <4>1. Cardinality(With(Alive)) >= 1
        BY Facts DEF Counts, Number
      <4>2. Cardinality({}) = 0
        BY FS_EmptySet
      <4> QED BY <4>1, <4>2
    <3>2. PICK t \in Threads : thread[t].pc \in Alive
      BY <3>1 DEF With
    <3> QED BY <1>3, <3>2 DEF NoLostWakeup, Alive, Waiting
  <2> QED BY <1>0, <1>3, <2>1, <2>2, Facts, Assembled
<1> QED BY <1>2, <1>3 DEF spy_queue_work_signal

(* The steps that move no thread and leave the pending works alone.         *)
LEMMA InvOther ==
  ASSUME IInv,
         \/ spy_queue_work \/ spy_wq_thread_done \/ spy_wq_thread_done_splice
         \/ spy_wq_thread_done_batch \/ CallbackReturns \/ TimePasses
  PROVE  IInv'
<1>0. /\ thread \in [Threads -> ThreadState] /\ loop \in Loops
      /\ finished_list \in Seq(Works) /\ nr_works \in Nat
      /\ expanded \in BOOLEAN /\ event_fd \in BOOLEAN
  BY Facts
<1>1. /\ loop' \in Loops /\ finished_list' \in Seq(Works) /\ nr_works' \in Nat
      /\ expanded' \in BOOLEAN /\ event_fd' \in BOOLEAN
      /\ At("lock")' => loop'.work \in Works
      /\ nr_works' - (IF At("lock")' THEN 1 ELSE 0) = nr_works - (IF At("lock") THEN 1 ELSE 0)
      /\ NoLostCompletion'
      /\ UNCHANGED <<pending_list, nr_threads, thread>>
      /\ At("signal")' <=> At("signal")
  <2>1. CASE spy_queue_work
    <3>1. PICK w \in Works : loop' = [loop EXCEPT !.pc = "lock", !.work = w,
                                        !.ret = IF At("idle") THEN "idle" ELSE "batch"]
      BY <2>1, Zenon DEF spy_queue_work, Free
    <3>2. loop' \in Loops /\ loop'.pc = "lock" /\ loop'.work \in Works
      BY <1>0, <3>1, Zenon DEF Loops, LoopPC
    <3>3. loop.pc \in {"idle", "callback"} /\ nr_works' = nr_works + 1
          /\ UNCHANGED <<pending_list, finished_list, nr_threads, expanded, event_fd, thread>>
      BY <2>1, Zenon DEF spy_queue_work, At
    <3>4. NoLostCompletion'
      BY <3>2, <3>3 DEF NoLostCompletion, At, IInv
    <3> QED BY <1>0, <3>2, <3>3, <3>4 DEF At
  <2>2. CASE spy_wq_thread_done
    BY <1>0, <2>2, Zenon DEF spy_wq_thread_done, At, Loops, LoopPC, NoLostCompletion
  <2>3. CASE spy_wq_thread_done_splice
    BY <1>0, <2>3, EmptySeq, Zenon DEF spy_wq_thread_done_splice, At, Loops, LoopPC,
                                       NoLostCompletion
  <2>4. CASE spy_wq_thread_done_batch
    <3>1. loop.list # <<>> => Tail(loop.list) \in Seq(Works)
      BY <1>0, HeadTailProperties DEF Loops
    <3> QED BY <1>0, <2>4, <3>1, Zenon
            DEF spy_wq_thread_done_batch, At, Loops, LoopPC, NoLostCompletion, IInv
  <2>5. CASE CallbackReturns
    BY <1>0, <2>5 DEF CallbackReturns, At, Loops, LoopPC, NoLostCompletion, IInv
  <2>6. CASE TimePasses
    BY <1>0, <2>6, Zenon DEF TimePasses, At, NoLostCompletion, IInv, Held
  <2> QED BY <2>1, <2>2, <2>3, <2>4, <2>5, <2>6
<1>2. Counts'
  BY <1>1, Facts, NoneMoves DEF Counts
<1>3. Held'
  BY <1>1 DEF Held, IInv
<1>4. Signalled' /\ NoLostWakeup'
  BY <1>1, NoneMoves DEF Signalled, NoLostWakeup, IInv
<1> QED BY <1>0, <1>1, <1>2, <1>3, <1>4, Facts, Assembled

(* Before anything is queued.                                               *)
LEMMA InvInit == Init => IInv
<1> SUFFICES ASSUME Init PROVE IInv
  OBVIOUS
<1>1. /\ nr_threads \in 1..MaxThreads /\ MaxThreads \in Nat
      /\ pending_list = <<>> /\ finished_list = <<>> /\ nr_works = 0
      /\ loop = [pc |-> "idle", ret |-> "idle", work |-> NoWork, list |-> <<>>]
  BY WorkQueueAssumption DEF Init
<1>2. /\ thread \in [Threads -> ThreadState]
      /\ \A t \in Threads : thread[t].pc = IF t <= nr_threads THEN "top" ELSE "none"
  BY DEF Init, ThreadState, ThreadPC
<1>3. TypeOK /\ Held
  <2>1. <<>> \in Seq(Works) /\ expanded \in BOOLEAN /\ event_fd \in BOOLEAN
    BY EmptySeq, Zenon DEF Init
  <2>2. loop \in Loops
    BY <1>1, <2>1 DEF Loops, LoopPC
  <2>3. Held
    BY <1>1, <1>2, <2>2 DEF Held, At
  <2>4. nr_threads \in Nat
    BY <1>1
  <2> QED BY <1>1, <1>2, <2>1, <2>2, <2>3, <2>4 DEF TypeOK, Loops, ThreadState
<1>4. Counters
  <2>1. {t \in Threads : thread[t].pc # "none"} = 1..nr_threads
    BY <1>1, <1>2 DEF Threads
  <2>2. Cardinality(1..nr_threads) = nr_threads
    <3>1. Cardinality(1..nr_threads) = IF 1 > nr_threads THEN 0 ELSE nr_threads - 1 + 1
      BY <1>1, FS_Interval
    <3> QED BY <1>1, <3>1
  <2>3. {t \in Threads : thread[t].pc \in {"run", "count"}} = {}
    BY <1>2
  <2>4. Len(pending_list) = 0 /\ Cardinality({}) = 0 /\ ~At("lock")
    BY <1>1, FS_EmptySet DEF At
  <2>5. nr_threads = Cardinality({t \in Threads : thread[t].pc # "none"})
    BY <2>1, <2>2, Zenon
  <2>7. nr_threads >= 1
    BY <1>1
  <2>6. Cardinality({t \in Threads : thread[t].pc \in {"run", "count"}}) = 0
    BY <2>3, <2>4, Zenon
  <2> QED BY <1>1, <2>4, <2>5, <2>6, <2>7 DEF Counters
<1>5. Signalled /\ NoLostWakeup /\ NoLostCompletion
  BY <1>1, <1>2 DEF Signalled, NoLostWakeup, NoLostCompletion, Waiting
<1> QED BY <1>3, <1>4, <1>5 DEF IInv

(* Every step keeps the invariant.                                          *)
LEMMA InvStep == IInv /\ [Next]_vars => IInv'
<1> SUFFICES ASSUME IInv, [Next]_vars PROVE IInv'
  OBVIOUS
<1>1. CASE UNCHANGED vars
  <2>1. UNCHANGED <<pending_list, finished_list, nr_threads, nr_works, expanded, event_fd,
                    thread, loop>>
    BY <1>1 DEF vars
  <2>2. Counts' /\ Held' /\ Signalled' /\ NoLostWakeup' /\ NoLostCompletion'
    BY <2>1, Facts, NoneMoves
       DEF Counts, Held, At, Signalled, NoLostWakeup, NoLostCompletion, IInv
  <2> QED BY <2>1, <2>2, Facts, Assembled
<1> QED BY <1>1, InvLocked, InvSignal, InvOther, InvThread DEF Next, Loop

LEMMA InvAlways == Spec => []IInv
BY InvInit, InvStep, PTL DEF Spec
(* Every variable of the work queue has its type.                           *)
THEOREM QueueTypes == Spec => []TypeOK
<1>1. IInv => TypeOK
  BY DEF IInv
<1> QED BY <1>1, InvAlways, PTL

(* nr_threads and nr_works, by which spy_wq_need_expand and                 *)
(* spy_wq_need_shrink decide, are right whatever the threads do, and the    *)
(* last thread does not end.                                                *)
THEOREM CountersRight == Spec => []Counters
<1>1. IInv => Counters
  BY DEF IInv
<1> QED BY <1>1, InvAlways, PTL

(* No work stays on finished_list without the eventfd written, or about to  *)
(* be, or the event loop on its way.                                        *)
THEOREM NoCompletionLost == Spec => []NoLostCompletion
<1>1. IInv => NoLostCompletion
  BY DEF IInv
<1> QED BY <1>1, InvAlways, PTL

(* No work is pending while every thread waits, for any number of threads:  *)
(* a thread that ends because there are too many leaves another awake.      *)
THEOREM NoWakeupLost == Spec => []NoLostWakeup
<1>1. IInv => NoLostWakeup
  BY DEF IInv
<1> QED BY <1>1, InvAlways, PTL

-----------------------------------------------------------------------------
(* A work is in one place at a time, and goes through the states of        *)
(* module WorkPool.                                                        *)

\* The places of a work.
Queued(w) == w \in Range(pending_list) \/ w = loop.work
Running(w) == \E t \in Threads : thread[t].work = w
Finished(w) == w \in Range(finished_list) \/ w \in Range(loop.list)

Once ==
  /\ IsInjective(pending_list) /\ IsInjective(finished_list) /\ IsInjective(loop.list)
  /\ loop.work \notin Range(pending_list)
  /\ Range(finished_list) \cap Range(loop.list) = {}
  /\ \A w \in Works : /\ ~(Queued(w) /\ Running(w))
                      /\ ~(Queued(w) /\ Finished(w))
                      /\ ~(Running(w) /\ Finished(w))
  /\ \A t, u \in Threads : thread[t].work = thread[u].work /\ thread[t].work # NoWork => t = u
  /\ \A t \in Threads : thread[t].work # NoWork => thread[t].pc = "run"
  /\ loop.work # NoWork => At("lock")
  /\ loop.list # <<>> => \/ loop.pc \in {"batch", "callback"}
                         \/ loop.pc \in {"lock", "signal"} /\ loop.ret = "batch"

\* What has become of a work that is in one place.
Place(w) == IF Queued(w) THEN "queued"
            ELSE IF Running(w) THEN "running"
            ELSE IF Finished(w) THEN "finished" ELSE "free"

(* What is on a list is its head or on its tail.                            *)
LEMMA HeadTailSet ==
  ASSUME NEW S, NEW s \in Seq(S), s # <<>>
  PROVE  Range(s) \subseteq {Head(s)} \union Range(Tail(s))
<1>1. /\ Head(s) = s[1] /\ Len(s) \in Nat /\ Len(Tail(s)) = Len(s) - 1
      /\ \A j \in 1..Len(Tail(s)) : Tail(s)[j] = s[j + 1]
  BY HeadTailProperties, EmptySeq, LenProperties
<1>2. DOMAIN Tail(s) = 1..Len(Tail(s)) /\ DOMAIN s = 1..Len(s)
  BY HeadTailProperties, LenProperties
<1> SUFFICES ASSUME NEW i \in 1..Len(s), i # 1 PROVE s[i] \in Range(Tail(s))
  BY <1>1, <1>2 DEF Range
<1>3. i - 1 \in 1..Len(Tail(s)) /\ (i - 1) + 1 = i
  BY <1>1
<1>4. Tail(s)[i - 1] = s[i]
  BY <1>1, <1>3
<1> QED BY <1>2, <1>3, <1>4, Zenon DEF Range

(* A list that holds nothing twice holds a work once or not at all.         *)
LEMMA CopiesIs ==
  ASSUME NEW list \in Seq(Works), IsInjective(list), NEW w
  PROVE  Copies(w, list) = IF w \in Range(list) THEN 1 ELSE 0
<1>1. CASE w \in Range(list)
  <2>1. PICK i \in DOMAIN list : list[i] = w
    BY <1>1 DEF Range
  <2>2. {j \in DOMAIN list : list[j] = w} = {i}
    BY <2>1 DEF IsInjective
  <2> QED BY <1>1, <2>2, FS_Singleton, Zenon DEF Copies
<1>2. CASE w \notin Range(list)
  <2>1. {j \in DOMAIN list : list[j] = w} = {}
    BY <1>2 DEF Range
  <2> QED BY <1>2, <2>1, FS_EmptySet, Zenon DEF Copies
<1> QED BY <1>1, <1>2

(* The state of a work is its place.                                        *)
LEMMA StateIs == IInv /\ Once => \A w \in Works : StateOf(w) = Place(w)
<1> SUFFICES ASSUME IInv, Once, NEW w \in Works PROVE StateOf(w) = Place(w)
  OBVIOUS
<1> DEFINE queued   == Copies(w, pending_list) + (IF w = loop.work THEN 1 ELSE 0)
           running  == Cardinality({t \in Threads : thread[t].work = w})
           finished == Copies(w, finished_list) + Copies(w, loop.list)
<1>0. /\ pending_list \in Seq(Works) /\ finished_list \in Seq(Works) /\ loop.list \in Seq(Works)
      /\ w # NoWork
  BY Facts, WorkQueueAssumption DEF Loops
<1>1. queued = IF Queued(w) THEN 1 ELSE 0
  <2>1. Copies(w, pending_list) = IF w \in Range(pending_list) THEN 1 ELSE 0
    BY <1>0, CopiesIs DEF Once
  <2> QED BY <2>1 DEF Queued, Once
<1>2. running = IF Running(w) THEN 1 ELSE 0
  <2>1. CASE Running(w)
    <3>1. PICK t \in Threads : thread[t].work = w
      BY <2>1 DEF Running
    <3>2. {u \in Threads : thread[u].work = w} = {t}
      BY <1>0, <3>1 DEF Once
    <3> QED BY <2>1, <3>2, FS_Singleton, Zenon
  <2>2. CASE ~Running(w)
    <3>1. {u \in Threads : thread[u].work = w} = {}
      BY <2>2 DEF Running
    <3> QED BY <2>2, <3>1, FS_EmptySet, Zenon
  <2> QED BY <2>1, <2>2
<1>3. finished = IF Finished(w) THEN 1 ELSE 0
  <2>1. /\ Copies(w, finished_list) = IF w \in Range(finished_list) THEN 1 ELSE 0
        /\ Copies(w, loop.list) = IF w \in Range(loop.list) THEN 1 ELSE 0
    BY <1>0, CopiesIs DEF Once
  <2> QED BY <2>1 DEF Finished, Once
<1>4. StateOf(w) = CASE queued + running + finished = 0 -> "free"
                     [] queued + running + finished > 1 -> "in two places"
                     [] queued = 1                      -> "queued"
                     [] running = 1                     -> "running"
                     [] finished = 1                    -> "finished"
  BY DEF StateOf
<1> HIDE DEF queued, running, finished
<1>5. /\ ~(Queued(w) /\ Running(w)) /\ ~(Queued(w) /\ Finished(w))
      /\ ~(Running(w) /\ Finished(w))
  BY DEF Once
<1>6. CASE Queued(w)
  BY <1>1, <1>2, <1>3, <1>4, <1>5, <1>6 DEF Place
<1>7. CASE Running(w)
  BY <1>1, <1>2, <1>3, <1>4, <1>5, <1>7 DEF Place
<1>8. CASE Finished(w)
  BY <1>1, <1>2, <1>3, <1>4, <1>5, <1>8 DEF Place
<1>9. CASE ~Queued(w) /\ ~Running(w) /\ ~Finished(w)
  BY <1>1, <1>2, <1>3, <1>4, <1>9 DEF Place
<1> QED BY <1>6, <1>7, <1>8, <1>9

(* And so after a step.                                                     *)
LEMMA StateIsNext ==
  ASSUME IInv', Once'
  PROVE  (\A w \in Works : StateOf(w) = Place(w))'
BY StateIs, PTL

\* Work w moves, and no other.
Moved(w, from, to) ==
  /\ Place(w) = from /\ Place(w)' = to
  /\ \A v \in Works \ {w} : Place(v)' = Place(v)

\* What a step does to the places.
PoolStep ==
  \/ \A w \in Works : Place(w)' = Place(w)
  \/ \E w \in Works : \/ Moved(w, "free", "queued") \/ Moved(w, "queued", "running")
                      \/ Moved(w, "running", "finished") \/ Moved(w, "finished", "free")

(* A step that moves no work.                                               *)
LEMMA PlacesKept ==
  ASSUME Once, UNCHANGED <<pending_list, finished_list>>,
         loop'.work = loop.work, loop'.list = loop.list,
         \A t \in Threads : thread'[t].work = thread[t].work,
         \A t \in Threads : thread[t].work # NoWork => thread'[t].pc = "run",
         loop.work # NoWork => loop'.pc = "lock",
         loop.list # <<>> => (\/ loop'.pc \in {"batch", "callback"}
                              \/ loop'.pc \in {"lock", "signal"} /\ loop'.ret = "batch")
  PROVE  Once' /\ PoolStep
<1>1. \A w : /\ Queued(w)' = Queued(w) /\ Running(w)' = Running(w)
             /\ Finished(w)' = Finished(w)
  BY DEF Queued, Running, Finished
<1>2. Once'
  BY <1>1 DEF Once, At
<1> QED BY <1>1, <1>2 DEF PoolStep, Place

(* The steps of the threads move works from queued to running to finished.  *)
LEMMA PoolTakes ==
  ASSUME IInv, Once, NEW t \in Threads, thread[t].pc \in {"top", "woken"}, TakeOrWait(t),
         UNCHANGED <<finished_list, loop>>
  PROVE  Once' /\ PoolStep
<1>0. /\ thread \in [Threads -> ThreadState] /\ thread[t] \in ThreadState
      /\ pending_list \in Seq(Works) /\ loop \in Loops
      /\ NoWork \notin Works /\ thread[t].work = NoWork
  BY Facts, WorkQueueAssumption DEF Once
<1>1. CASE pending_list = <<>>
  <2>1. /\ \A u \in Threads : thread'[u].work = thread[u].work
        /\ \A u \in Threads \ {t} : thread'[u] = thread[u]
        /\ pending_list' = pending_list
    BY <1>0, <1>1 DEF TakeOrWait, ThreadState
  <2> QED BY <1>0, <2>1, PlacesKept, Zenon DEF Once, At
<1>2. CASE pending_list # <<>>
  <2>0. Head(pending_list) \in Works
    BY <1>0, <1>2, TailInjectiveSet
  <2> PICK h \in Works : h = Head(pending_list)
    BY <2>0
  <2>1. /\ h \in Range(pending_list) /\ Tail(pending_list) \in Seq(Works)
        /\ IsInjective(Tail(pending_list)) /\ h \notin Range(Tail(pending_list))
        /\ Range(Tail(pending_list)) = Range(pending_list) \ {h}
    <3>1. Range(pending_list) \subseteq {h} \union Range(Tail(pending_list))
      BY <1>0, <1>2, HeadTailSet
    <3> QED BY <1>0, <1>2, <3>1, TailInjectiveSet DEF Once
  <2>2. /\ thread'[t].work = h /\ thread'[t].pc = "run"
        /\ \A u \in Threads \ {t} : thread'[u] = thread[u]
        /\ pending_list' = Tail(pending_list)
    BY <1>0, <1>2 DEF TakeOrWait
  <2>3. \A w \in Works : /\ Queued(w)' <=> Queued(w) /\ w # h
                         /\ Running(w)' <=> Running(w) \/ w = h
                         /\ Finished(w)' <=> Finished(w)
    <3>1. \A w \in Works : Queued(w)' <=> Queued(w) /\ w # h
      BY <2>1, <2>2 DEF Queued, Once
    <3>2. \A w \in Works : Running(w)' <=> Running(w) \/ w = h
      BY <1>0, <2>2 DEF Running
    <3> QED BY <3>1, <3>2 DEF Finished
  <2>4. Queued(h) /\ ~Running(h) /\ ~Finished(h)
    BY <2>1 DEF Queued, Once
  <2>5. \A u \in Threads : thread[u].work # h
    BY <2>4 DEF Running
  <2>6. Once'
    <3>1. /\ IsInjective(pending_list') /\ loop'.work \notin Range(pending_list')
      BY <2>1, <2>2 DEF Once
    <3>2. \A w \in Works : /\ ~(Queued(w) /\ Running(w))'
                           /\ ~(Queued(w) /\ Finished(w))'
                           /\ ~(Running(w) /\ Finished(w))'
      BY <2>3, <2>4 DEF Once
    <3>3. /\ \A u, v \in Threads :
                thread'[u].work = thread'[v].work /\ thread'[u].work # NoWork => u = v
          /\ \A u \in Threads : thread'[u].work # NoWork => thread'[u].pc = "run"
      BY <2>2, <2>5 DEF Once
    <3> QED BY <3>1, <3>2, <3>3 DEF Once, At
  <2>7. Moved(h, "queued", "running")
    BY <2>1, <2>3, <2>4 DEF Moved, Place
  <2> QED BY <2>1, <2>6, <2>7 DEF PoolStep
<1> QED BY <1>1, <1>2
LEMMA PoolFinishes ==
  ASSUME IInv, Once, NEW t \in Threads, WorkerFinishes(t)
  PROVE  Once' /\ PoolStep
<1>0. /\ thread \in [Threads -> ThreadState] /\ thread[t] \in ThreadState
      /\ finished_list \in Seq(Works) /\ NoWork \notin Works
  BY Facts, WorkQueueAssumption
<1>w. thread[t].work \in Works
  BY DEF IInv, Held, WorkerFinishes
<1> PICK h \in Works : h = thread[t].work
  BY <1>w
<1>1. Running(h) /\ ~Queued(h) /\ ~Finished(h)
  BY DEF Once, Running
<1>2. /\ Range(finished_list') = Range(finished_list) \union {h}
      /\ IsInjective(finished_list')
  BY <1>0, <1>1, AppendInjectiveSet DEF Once, Finished, WorkerFinishes
<1>3. /\ thread'[t].work = NoWork
      /\ \A u \in Threads \ {t} : thread'[u] = thread[u] /\ thread'[u].work # h
  BY <1>0 DEF WorkerFinishes, Once
<1>4. \A w \in Works : /\ Queued(w)' <=> Queued(w)
                       /\ Running(w)' <=> Running(w) /\ w # h
                       /\ Finished(w)' <=> Finished(w) \/ w = h
  <2>1. \A w \in Works : Running(w)' <=> Running(w) /\ w # h
    BY <1>0, <1>3 DEF Running
  <2>2. \A w \in Works : Finished(w)' <=> Finished(w) \/ w = h
    BY <1>2 DEF Finished, WorkerFinishes
  <2> QED BY <2>1, <2>2 DEF Queued, WorkerFinishes
<1>5. Once'
  <2>1. Range(finished_list') \cap Range(loop'.list) = {}
    BY <1>1, <1>2 DEF Once, Finished, WorkerFinishes
  <2>2. \A w \in Works : /\ ~(Queued(w) /\ Running(w))'
                         /\ ~(Queued(w) /\ Finished(w))'
                         /\ ~(Running(w) /\ Finished(w))'
    BY <1>1, <1>4 DEF Once
  <2>3. /\ \A u, v \in Threads :
              thread'[u].work = thread'[v].work /\ thread'[u].work # NoWork => u = v
        /\ \A u \in Threads : thread'[u].work # NoWork => thread'[u].pc = "run"
    BY <1>3 DEF Once
  <2> QED BY <1>2, <2>1, <2>2, <2>3, Zenon DEF Once, At, WorkerFinishes
<1>6. Moved(h, "running", "finished")
  BY <1>1, <1>4 DEF Moved, Place
<1> QED BY <1>5, <1>6 DEF PoolStep

(* The event loop queues a work that is free.                               *)
LEMMA PoolQueues ==
  ASSUME IInv, Once, spy_queue_work
  PROVE  Once' /\ PoolStep
<1>0. loop \in Loops /\ NoWork \notin Works /\ loop.work = NoWork
  BY Facts, WorkQueueAssumption DEF Once, At, spy_queue_work
<1> PICK h \in Free :
      loop' = [loop EXCEPT !.pc = "lock", !.work = h,
                           !.ret = IF At("idle") THEN "idle" ELSE "batch"]
  BY Zenon DEF spy_queue_work
<1>1. h \in Works /\ h # NoWork /\ ~Queued(h) /\ ~Running(h) /\ ~Finished(h)
  BY <1>0 DEF Free, Queued, Running, Finished
<1>2. /\ loop'.work = h /\ loop'.list = loop.list /\ loop'.pc = "lock"
      /\ loop'.ret = IF At("idle") THEN "idle" ELSE "batch"
      /\ UNCHANGED <<pending_list, finished_list, thread>>
  BY <1>0, Zenon DEF Loops, spy_queue_work
<1>3. \A w \in Works : /\ Queued(w)' <=> Queued(w) \/ w = h
                       /\ Running(w)' <=> Running(w)
                       /\ Finished(w)' <=> Finished(w)
  BY <1>0, <1>2 DEF Queued, Running, Finished
<1>4. Once'
  <2>1. \A w \in Works : /\ ~(Queued(w) /\ Running(w))'
                         /\ ~(Queued(w) /\ Finished(w))'
                         /\ ~(Running(w) /\ Finished(w))'
    BY <1>1, <1>3 DEF Once
  <2>2. loop'.list # <<>> => loop'.ret = "batch"
    BY <1>2 DEF Once, At
  <2>3. loop'.work \notin Range(pending_list')
    BY <1>1, <1>2 DEF Queued
  <2> QED BY <1>2, <2>1, <2>2, <2>3 DEF Once, At
<1>5. Moved(h, "free", "queued")
  BY <1>1, <1>3 DEF Moved, Place
<1> QED BY <1>1, <1>4, <1>5 DEF PoolStep

LEMMA PoolLocked ==
  ASSUME IInv, Once, spy_queue_work_locked
  PROVE  Once' /\ PoolStep
<1>0. /\ loop \in Loops /\ NoWork \notin Works /\ loop.work \in Works
      /\ thread \in [Threads -> ThreadState] /\ pending_list \in Seq(Works)
  BY Facts, WorkQueueAssumption DEF IInv, Held, Loops, spy_queue_work_locked
<1>1. /\ loop'.work = NoWork /\ loop'.list = loop.list
      /\ loop'.pc = "signal" /\ loop'.ret = loop.ret /\ loop.pc = "lock"
      /\ UNCHANGED finished_list
  BY <1>0 DEF Loops, spy_queue_work_locked, At
<1>2. /\ Range(pending_list') = Range(pending_list) \union {loop.work}
      /\ IsInjective(pending_list')
  BY <1>0, AppendInjectiveSet DEF Once, spy_queue_work_locked
<1>3. \A t \in Threads : /\ thread'[t].work = thread[t].work
                         /\ thread[t].pc # "none" => thread'[t].pc = thread[t].pc
  <2>1. CASE spy_wq_need_expand
    <3>1. PICK new \in SUBSET Dead : Created(new)
      BY <2>1 DEF spy_queue_work_locked
    <3> QED BY <1>0, <3>1 DEF Created, Dead, ThreadState
  <2>2. CASE ~spy_wq_need_expand
    BY <2>2 DEF spy_queue_work_locked
  <2> QED BY <2>1, <2>2
<1>4. \A w \in Works : /\ Queued(w)' <=> Queued(w)
                       /\ Running(w)' <=> Running(w)
                       /\ Finished(w)' <=> Finished(w)
  <2>1. \A w \in Works : Queued(w)' <=> Queued(w)
    BY <1>0, <1>1, <1>2 DEF Queued
  <2>2. \A w \in Works : Running(w)' <=> Running(w)
    BY <1>3 DEF Running
  <2> QED BY <1>1, <2>1, <2>2 DEF Finished
<1>5. Once'
  <2>1. \A w \in Works : /\ ~(Queued(w) /\ Running(w))'
                         /\ ~(Queued(w) /\ Finished(w))'
                         /\ ~(Running(w) /\ Finished(w))'
    BY <1>4 DEF Once
  <2>2. NoWork \notin Range(pending_list')
    <3>1. NoWork \notin Range(pending_list)
      BY <1>0, LenProperties, ElementOfSeq DEF Range
    <3> QED BY <1>0, <1>2, <3>1
  <2>3. loop'.list # <<>> => loop'.pc = "signal" /\ loop'.ret = "batch"
    BY <1>1 DEF Once
  <2>4. \A t \in Threads : thread'[t].work # NoWork => thread'[t].pc = "run"
    BY <1>3 DEF Once
  <2>5. \A u, v \in Threads :
          thread'[u].work = thread'[v].work /\ thread'[u].work # NoWork => u = v
    BY <1>3 DEF Once
  <2> QED BY <1>1, <1>2, <2>1, <2>2, <2>3, <2>4, <2>5 DEF Once, At
<1> QED BY <1>4, <1>5 DEF PoolStep, Place
(* The finished works go to the local list,                                 *)
LEMMA PoolSplice ==
  ASSUME IInv, Once, spy_wq_thread_done_splice
  PROVE  Once' /\ PoolStep
<1>0. loop \in Loops /\ loop.list = <<>>
  BY Facts DEF Once, At, spy_wq_thread_done_splice
<1>1. /\ loop'.work = loop.work /\ loop.work = NoWork /\ loop'.pc = "batch"
      /\ loop'.list = finished_list /\ finished_list' = <<>>
      /\ UNCHANGED <<pending_list, thread>>
  BY <1>0 DEF Loops, At, Once, spy_wq_thread_done_splice
<1>2. Range(<<>>) = {} /\ IsInjective(<<>>)
  BY DEF Range, IsInjective
<1>3. \A w \in Works : /\ Queued(w)' <=> Queued(w)
                       /\ Running(w)' <=> Running(w)
                       /\ Finished(w)' <=> Finished(w)
  BY <1>0, <1>1, <1>2 DEF Queued, Running, Finished
<1>4. Once'
  <2>1. \A w \in Works : /\ ~(Queued(w) /\ Running(w))'
                         /\ ~(Queued(w) /\ Finished(w))'
                         /\ ~(Running(w) /\ Finished(w))'
    BY <1>3 DEF Once
  <2> QED BY <1>1, <1>2, <2>1, Zenon DEF Once, At
<1> QED BY <1>3, <1>4 DEF PoolStep, Place

(* and each leaves it when its callback is called.                          *)
LEMMA PoolDone ==
  ASSUME IInv, Once, spy_wq_thread_done_batch, loop.list # <<>>
  PROVE  Once' /\ PoolStep
<1>0. loop \in Loops /\ loop.list \in Seq(Works)
  BY Facts DEF Loops
<1>1. /\ loop'.work = loop.work /\ loop.work = NoWork /\ loop'.pc = "callback"
      /\ loop'.list = Tail(loop.list) /\ UNCHANGED <<pending_list, finished_list, thread>>
  BY <1>0 DEF Loops, At, Once, spy_wq_thread_done_batch
<1>h. Head(loop.list) \in Works
  BY <1>0, TailInjectiveSet
<1> PICK h \in Works : h = Head(loop.list)
  BY <1>h
<1>2. /\ h \in Range(loop.list) /\ IsInjective(loop'.list)
      /\ Range(loop'.list) = Range(loop.list) \ {h}
  <2>1. Range(loop.list) \subseteq {h} \union Range(Tail(loop.list))
    BY <1>0, HeadTailSet
  <2> QED BY <1>0, <1>1, <2>1, TailInjectiveSet DEF Once
<1>3. \A w \in Works : /\ Queued(w)' <=> Queued(w)
                       /\ Running(w)' <=> Running(w)
                       /\ Finished(w)' <=> Finished(w) /\ w # h
  <2>1. \A w \in Works : Finished(w)' <=> Finished(w) /\ w # h
    BY <1>1, <1>2 DEF Finished, Once
  <2> QED BY <1>1, <2>1 DEF Queued, Running
<1>4. Finished(h) /\ ~Queued(h) /\ ~Running(h)
  BY <1>2 DEF Finished, Once
<1>5. Once'
  <2>1. \A w \in Works : /\ ~(Queued(w) /\ Running(w))'
                         /\ ~(Queued(w) /\ Finished(w))'
                         /\ ~(Running(w) /\ Finished(w))'
    BY <1>3 DEF Once
  <2> QED BY <1>1, <1>2, <2>1, Zenon DEF Once, At
<1>6. Moved(h, "finished", "free")
  BY <1>3, <1>4 DEF Moved, Place
<1> QED BY <1>5, <1>6 DEF PoolStep

(* Every step of the work queue is a step of the pool, or none.             *)
LEMMA OnceStep == IInv /\ Once /\ [Next]_vars => Once' /\ PoolStep
<1> SUFFICES ASSUME IInv, Once, [Next]_vars PROVE Once' /\ PoolStep
  OBVIOUS
<1>0. /\ thread \in [Threads -> ThreadState] /\ loop \in Loops
      /\ \A t \in Threads : thread[t] \in ThreadState
  BY Facts
<1>1. CASE spy_queue_work
  BY <1>1, PoolQueues
<1>2. CASE spy_queue_work_locked
  BY <1>2, PoolLocked
<1>3. CASE spy_queue_work_signal
  <2>1. /\ loop'.work = loop.work /\ loop'.list = loop.list /\ loop'.pc = loop.ret
        /\ loop'.ret = loop.ret /\ loop.pc = "signal"
        /\ UNCHANGED <<pending_list, finished_list>>
    BY <1>0, <1>3 DEF Loops, At, spy_queue_work_signal
  <2>2. \A t \in Threads : /\ thread'[t].work = thread[t].work
                           /\ thread[t].pc = "run" => thread'[t].pc = "run"
    BY <1>0, <1>3 DEF spy_queue_work_signal, Waiting, ThreadState
  <2> QED BY <2>1, <2>2, PlacesKept, Zenon DEF Once, At
<1>4. CASE spy_wq_thread_done \/ CallbackReturns
  <2>1. /\ loop'.work = loop.work /\ loop'.list = loop.list
        /\ \/ loop.pc = "idle" /\ loop'.pc = "splice"
           \/ loop.pc = "callback" /\ loop'.pc = "batch"
        /\ UNCHANGED <<pending_list, finished_list, thread>>
    BY <1>0, <1>4 DEF Loops, At, spy_wq_thread_done, CallbackReturns
  <2> QED BY <2>1, PlacesKept, Zenon DEF Once, At
<1>5. CASE spy_wq_thread_done_splice
  BY <1>5, PoolSplice
<1>6. CASE spy_wq_thread_done_batch
  <2>1. CASE loop.list = <<>>
    <3>1. /\ loop'.work = loop.work /\ loop'.list = loop.list /\ loop.pc = "batch"
          /\ UNCHANGED <<pending_list, finished_list, thread>>
      BY <1>0, <1>6, <2>1 DEF Loops, At, spy_wq_thread_done_batch
    <3> QED BY <2>1, <3>1, PlacesKept, Zenon DEF Once, At
  <2>2. CASE loop.list # <<>>
    BY <1>6, <2>2, PoolDone
  <2> QED BY <2>1, <2>2
<1>7. CASE TimePasses \/ UNCHANGED vars
  <2>1. UNCHANGED <<pending_list, finished_list, thread, loop>>
    BY <1>7 DEF TimePasses, vars
  <2> QED BY <2>1, PlacesKept, Zenon DEF Once, At
<1>8. ASSUME NEW t \in Threads, spy_worker_routine(t) \/ WorkerWoken(t),
             ~(thread[t].pc = "top" /\ spy_wq_need_shrink)
      PROVE  Once' /\ PoolStep
  <2>1. thread[t].pc \in {"top", "woken"} /\ TakeOrWait(t) /\ UNCHANGED <<finished_list, loop>>
    BY <1>8 DEF spy_worker_routine, WorkerWoken
  <2> QED BY <2>1, PoolTakes
<1>9. ASSUME NEW t \in Threads, WorkerFinishes(t)
      PROVE  Once' /\ PoolStep
  BY <1>9, PoolFinishes
<1>10. ASSUME NEW t \in Threads,
              \/ spy_worker_routine(t) /\ spy_wq_need_shrink
              \/ WorkerCounts(t) \/ spy_finish_work_notify(t) \/ SpuriousWakeup(t)
       PROVE  Once' /\ PoolStep
  <2>1. /\ thread[t].pc # "run"
        /\ UNCHANGED <<pending_list, finished_list, loop>>
        /\ \A u \in Threads : thread'[u].work = thread[u].work
        /\ \A u \in Threads \ {t} : thread'[u] = thread[u]
    BY <1>0, <1>10 DEF spy_worker_routine, WorkerCounts, spy_finish_work_notify,
                       SpuriousWakeup, ThreadState
  <2> QED BY <2>1, PlacesKept, Zenon DEF Once, At
<1>11. CASE \E t \in Threads : Worker(t) \/ SpuriousWakeup(t)
  BY <1>8, <1>9, <1>10, <1>11 DEF Worker, spy_worker_routine, WorkerWoken
<1> QED BY <1>1, <1>2, <1>3, <1>4, <1>5, <1>6, <1>7, <1>11 DEF Next, Loop

LEMMA OnceInit == Init => Once
<1> SUFFICES ASSUME Init PROVE Once
  OBVIOUS
<1>1. Range(<<>>) = {} /\ IsInjective(<<>>)
  BY DEF Range, IsInjective
<1>2. /\ pending_list = <<>> /\ finished_list = <<>> /\ loop.list = <<>>
      /\ loop.work = NoWork /\ \A t \in Threads : thread[t].work = NoWork
      /\ NoWork \notin Works
  BY WorkQueueAssumption DEF Init
<1> QED BY <1>1, <1>2 DEF Once, Queued, Running, Finished

(* spy_work.c and spy_wq_thread_done implement module WorkPool for any      *)
(* number of threads and works: a work that was queued is executed once, by *)
(* one thread, and then its callback is called once.  The threads that come *)
(* and go and the wakeups that are spurious are stuttering steps.           *)
THEOREM QueueImplementsPool == Spec => ImplementsPool
<1> DEFINE pool == [w \in Works |-> StateOf(w)]
<1>1. Init => Pool!Init
  <2> SUFFICES ASSUME Init PROVE \A w \in Works : StateOf(w) = "free"
    BY DEF Pool!Init
  <2>1. IInv /\ Once
    BY InvInit, OnceInit
  <2>2. /\ pending_list = <<>> /\ finished_list = <<>> /\ loop.list = <<>>
        /\ loop.work = NoWork /\ \A t \in Threads : thread[t].work = NoWork
        /\ NoWork \notin Works /\ Range(<<>>) = {}
    BY WorkQueueAssumption DEF Init, Range
  <2> QED BY <2>1, <2>2, StateIs DEF Place, Queued, Running, Finished
<1>2. IInv /\ IInv' /\ Once /\ [Next]_vars => Once' /\ [Pool!Next]_pool
  <2> SUFFICES ASSUME IInv, IInv', Once, [Next]_vars PROVE Once' /\ [Pool!Next]_pool
    OBVIOUS
  <2>1. Once' /\ PoolStep
    BY OnceStep
  <2>2. \A w \in Works : StateOf(w) = Place(w) /\ StateOf(w)' = Place(w)'
    BY <2>1, StateIs, StateIsNext
  <2>3. CASE \A w \in Works : Place(w)' = Place(w)
    BY <2>1, <2>2, <2>3
  <2>4. ASSUME NEW w \in Works, NEW from, NEW to, Moved(w, from, to)
        PROVE  Pool!Goes(w, from, to)
    BY <2>2, <2>4, Zenon DEF Moved, Pool!Goes
  <2>5. CASE \E w \in Works : \/ Moved(w, "free", "queued") \/ Moved(w, "queued", "running")
                             \/ Moved(w, "running", "finished") \/ Moved(w, "finished", "free")
    BY <2>1, <2>4, <2>5 DEF Pool!Next, Pool!Queue, Pool!Start, Pool!Finish, Pool!Done
  <2> QED BY <2>1, <2>3, <2>5 DEF PoolStep
<1> QED BY <1>1, <1>2, InvAlways, OnceInit, PTL DEF Spec, ImplementsPool, Pool!Spec
=============================================================================
