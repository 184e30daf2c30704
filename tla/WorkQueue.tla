----------------------------- MODULE WorkQueue ------------------------------
(***************************************************************************)
(* The work queue of the chunk server (chunkserver/spy_work.c) and the     *)
(* callback that empties it (spy_wq_thread_done of spy_server.c): the      *)
(* event loop queues works, a varying number of threads execute them, and  *)
(* an eventfd tells the event loop that some are finished.                 *)
(*                                                                         *)
(* What is done under pending_lock, or under finished_lock, is one step;   *)
(* every other access to what the threads share is a step of its own.      *)
(***************************************************************************)
EXTENDS Integers, Sequences, FiniteSets, Functions

CONSTANTS
  Works,           \* io jobs and dump jobs
  NoWork,          \* no work
  InitialThreads,  \* the arguments spy_create_work_queue may be given
  MaxThreads,      \* bound on the threads that exist at a time
  DEF_WQ_NR_THRS

ASSUME WorkQueueAssumption ==
  /\ NoWork \notin Works
  /\ MaxThreads \in Nat /\ DEF_WQ_NR_THRS \in Nat
  /\ InitialThreads \subseteq 1..MaxThreads

VARIABLES
  pending_list, finished_list,
  nr_threads, nr_works,
  expanded,   \* has last_expand_time not been SHRINK_PERIOD_PROTECTION ago?
  event_fd,   \* is finished_event_fd readable?
  thread,     \* thread[t]: where a worker thread is, and its work
  loop        \* where the event loop is, the work it queues and its local list

vars == <<pending_list, finished_list, nr_threads, nr_works, expanded, event_fd,
          thread, loop>>

Threads == 1..MaxThreads

\* "none": not created, or ended; "top": at the head of the loop of
\* spy_worker_routine; "waiting", "woken": in pthread_cond_wait; "run": in fn;
\* "count", "notify": what is left to do after the work is on finished_list.
ThreadPC == {"none", "top", "waiting", "woken", "run", "count", "notify"}

\* "idle": in the event loop proper; "splice", "batch", "callback": in
\* spy_wq_thread_done; "lock", "signal": in spy_queue_work, which goes back to ret.
LoopPC == {"idle", "splice", "batch", "callback", "lock", "signal"}

-----------------------------------------------------------------------------
(* The event loop.                                                         *)

At(pc) == loop.pc = pc

\* Works nobody holds.
Free == {w \in Works : /\ w \notin Range(pending_list) \cup Range(finished_list)
                       /\ w \notin Range(loop.list) \cup {loop.work}
                       /\ \A t \in Threads : thread[t].work # w}

\* A mutant: nr_works is not counted.
spy_queue_work_Uncounted ==
  /\ At("idle") \/ At("callback")
  /\ \E w \in Free :
       loop' = [loop EXCEPT !.pc = "lock", !.work = w,
                            !.ret = IF At("idle") THEN "idle" ELSE "batch"]
  /\ UNCHANGED <<pending_list, finished_list, nr_threads, nr_works, expanded, event_fd,
                 thread>>

\* spy_queue_work, called by a handler of the event loop, or by the done callback of
\* a work (spy_write_file_done does it for a pending write): nr_works is counted
\* before the lock is taken.
spy_queue_work ==
  /\ At("idle") \/ At("callback")
  /\ nr_works' = nr_works + 1
  /\ \E w \in Free :
       loop' = [loop EXCEPT !.pc = "lock", !.work = w,
                            !.ret = IF At("idle") THEN "idle" ELSE "batch"]
  /\ UNCHANGED <<pending_list, finished_list, nr_threads, expanded, event_fd, thread>>

spy_wq_need_expand ==
  /\ nr_threads + 1 < (nr_works + 1) \div 2
  /\ nr_threads + 1 < 2 * DEF_WQ_NR_THRS

Dead == {t \in Threads : thread[t].pc = "none"}

\* New threads start.
Created(new) ==
  thread' = [t \in Threads |-> IF t \in new THEN [thread[t] EXCEPT !.pc = "top"] ELSE thread[t]]

\* Under pending_lock: the number of threads doubles when there are few, or grows
\* by less if a pthread_create fails, as it does when there are MaxThreads.
spy_queue_work_locked ==
  /\ At("lock")
  /\ IF spy_wq_need_expand
       THEN \E new \in SUBSET Dead :
              /\ Cardinality(new) <= nr_threads
              /\ Created(new)
              /\ nr_threads' = nr_threads + Cardinality(new)
              /\ expanded' = TRUE
       ELSE UNCHANGED <<thread, nr_threads, expanded>>
  /\ pending_list' = Append(pending_list, loop.work)
  /\ loop' = [loop EXCEPT !.pc = "signal", !.work = NoWork]
  /\ UNCHANGED <<finished_list, nr_works, event_fd>>

Waiting == {t \in Threads : thread[t].pc = "waiting"}

\* A mutant: nobody is woken.
spy_queue_work_signal_Dropped ==
  /\ At("signal")
  /\ loop' = [loop EXCEPT !.pc = loop.ret]
  /\ UNCHANGED <<pending_list, finished_list, nr_threads, nr_works, expanded, event_fd,
                 thread>>

\* pthread_cond_signal: a thread that waits, if there is one, is woken.
spy_queue_work_signal ==
  /\ At("signal")
  /\ \/ \E t \in Waiting : thread' = [thread EXCEPT ![t].pc = "woken"]
     \/ Waiting = {} /\ UNCHANGED thread
  /\ loop' = [loop EXCEPT !.pc = loop.ret]
  /\ UNCHANGED <<pending_list, finished_list, nr_threads, nr_works, expanded, event_fd>>

\* spy_wq_thread_done: the eventfd is read,
spy_wq_thread_done ==
  /\ At("idle")
  /\ event_fd
  /\ event_fd' = FALSE
  /\ loop' = [loop EXCEPT !.pc = "splice"]
  /\ UNCHANGED <<pending_list, finished_list, nr_threads, nr_works, expanded, thread>>

\* then finished_list is moved to a local list under finished_lock,
spy_wq_thread_done_splice ==
  /\ At("splice")
  /\ loop' = [loop EXCEPT !.pc = "batch", !.list = finished_list]
  /\ finished_list' = <<>>
  /\ UNCHANGED <<pending_list, nr_threads, nr_works, expanded, event_fd, thread>>

\* A mutant: the eventfd is read after the callbacks.
spy_wq_thread_done_batch_ReadsLate ==
  /\ At("batch")
  /\ IF loop.list = <<>>
       THEN loop' = [loop EXCEPT !.pc = "idle"] /\ event_fd' = FALSE
       ELSE loop' = [loop EXCEPT !.pc = "callback", !.list = Tail(@)] /\ UNCHANGED event_fd
  /\ UNCHANGED <<pending_list, finished_list, nr_threads, nr_works, expanded, thread>>

\* and the done callback of each work is called.
spy_wq_thread_done_batch ==
  /\ At("batch")
  /\ loop' = IF loop.list = <<>> THEN [loop EXCEPT !.pc = "idle"]
                                 ELSE [loop EXCEPT !.pc = "callback", !.list = Tail(@)]
  /\ UNCHANGED <<pending_list, finished_list, nr_threads, nr_works, expanded,
                 event_fd, thread>>

\* A callback that queues nothing returns.
CallbackReturns ==
  /\ At("callback")
  /\ loop' = [loop EXCEPT !.pc = "batch"]
  /\ UNCHANGED <<pending_list, finished_list, nr_threads, nr_works, expanded,
                 event_fd, thread>>

-----------------------------------------------------------------------------
(* The worker threads.                                                     *)

\* A mutant: the last thread may end too.
spy_wq_need_shrink_OneMore ==
  /\ nr_works + 1 <= (nr_threads + 1) \div 2
  /\ nr_threads + 1 > DEF_WQ_NR_THRS \div 2
  /\ ~expanded

spy_wq_need_shrink ==
  /\ nr_works + 1 < (nr_threads + 1) \div 2
  /\ nr_threads + 1 > DEF_WQ_NR_THRS \div 2
  /\ ~expanded

\* SHRINK_PERIOD_PROTECTION seconds pass.
TimePasses ==
  /\ expanded
  /\ expanded' = FALSE
  /\ UNCHANGED <<pending_list, finished_list, nr_threads, nr_works, event_fd,
                 thread, loop>>

\* A mutant: the work stays on the list.
TakeOrWait_NoDel(t) ==
  /\ UNCHANGED pending_list
  /\ thread' = [thread EXCEPT ![t] = IF pending_list = <<>>
                                       THEN [@ EXCEPT !.pc = "waiting"]
                                       ELSE [pc |-> "run", work |-> Head(pending_list)]]

\* Under pending_lock: the first work is taken, or the thread waits for one.
TakeOrWait(t) ==
  IF pending_list = <<>>
    THEN /\ thread' = [thread EXCEPT ![t].pc = "waiting"]
         /\ UNCHANGED pending_list
    ELSE /\ thread' = [thread EXCEPT ![t] = [pc |-> "run", work |-> Head(pending_list)]]
         /\ pending_list' = Tail(pending_list)

\* The head of the loop of spy_worker_routine.
spy_worker_routine(t) ==
  /\ thread[t].pc = "top"
  /\ IF spy_wq_need_shrink
       THEN /\ nr_threads' = nr_threads - 1
            /\ thread' = [thread EXCEPT ![t].pc = "none"]
            /\ UNCHANGED pending_list
       ELSE TakeOrWait(t) /\ UNCHANGED nr_threads
  /\ UNCHANGED <<finished_list, nr_works, expanded, event_fd, loop>>

\* The thread has pending_lock again: it looks at the list, and only at that.
WorkerWoken(t) ==
  /\ thread[t].pc = "woken"
  /\ TakeOrWait(t)
  /\ UNCHANGED <<finished_list, nr_threads, nr_works, expanded, event_fd, loop>>

\* pthread_cond_wait may return without a signal.
SpuriousWakeup(t) ==
  /\ thread[t].pc = "waiting"
  /\ thread' = [thread EXCEPT ![t].pc = "woken"]
  /\ UNCHANGED <<pending_list, finished_list, nr_threads, nr_works, expanded,
                 event_fd, loop>>

\* work->fn(work) returns, and under finished_lock the work joins finished_list.
WorkerFinishes(t) ==
  /\ thread[t].pc = "run"
  /\ finished_list' = Append(finished_list, thread[t].work)
  /\ thread' = [thread EXCEPT ![t] = [pc |-> "count", work |-> NoWork]]
  /\ UNCHANGED <<pending_list, nr_threads, nr_works, expanded, event_fd, loop>>

WorkerCounts(t) ==
  /\ thread[t].pc = "count"
  /\ nr_works' = nr_works - 1
  /\ thread' = [thread EXCEPT ![t].pc = "notify"]
  /\ UNCHANGED <<pending_list, finished_list, nr_threads, expanded, event_fd, loop>>

\* A mutant: only the thread that finds its work alone on the list writes to the eventfd.
spy_finish_work_notify_OnlyFirst(t) ==
  /\ thread[t].pc = "notify"
  /\ event_fd' = (event_fd \/ Len(finished_list) = 1)
  /\ thread' = [thread EXCEPT ![t].pc = "top"]
  /\ UNCHANGED <<pending_list, finished_list, nr_threads, nr_works, expanded, loop>>

spy_finish_work_notify(t) ==
  /\ thread[t].pc = "notify"
  /\ event_fd' = TRUE
  /\ thread' = [thread EXCEPT ![t].pc = "top"]
  /\ UNCHANGED <<pending_list, finished_list, nr_threads, nr_works, expanded, loop>>

-----------------------------------------------------------------------------
(* The specification.                                                      *)

Init ==
  /\ pending_list = <<>> /\ finished_list = <<>>
  /\ nr_threads \in InitialThreads
  /\ nr_works = 0
  /\ expanded = TRUE
  /\ event_fd = FALSE
  /\ thread = [t \in Threads |-> [pc   |-> IF t <= nr_threads THEN "top" ELSE "none",
                                  work |-> NoWork]]
  /\ loop = [pc |-> "idle", ret |-> "idle", work |-> NoWork, list |-> <<>>]

Worker(t) ==
  \/ spy_worker_routine(t) \/ WorkerWoken(t) \/ WorkerFinishes(t)
  \/ WorkerCounts(t) \/ spy_finish_work_notify(t)

\* What the event loop does without a request arriving.
Loop ==
  \/ spy_queue_work_locked \/ spy_queue_work_signal
  \/ spy_wq_thread_done \/ spy_wq_thread_done_splice \/ spy_wq_thread_done_batch
  \/ CallbackReturns

Next ==
  \/ spy_queue_work
  \/ Loop
  \/ TimePasses
  \/ \E t \in Threads : Worker(t) \/ SpuriousWakeup(t)

Spec == Init /\ [][Next]_vars

\* The event loop and every thread that is not waiting go on; nothing is assumed of
\* requests, spurious wakeups or time.  That a thread goes on from "run" presumes that
\* work->fn returns, which spy_dump_chunkfile does only if its client reads or goes away
\* (module SpyServer, Dumping).
FairSpec == Spec /\ WF_vars(Loop) /\ \A t \in Threads : WF_vars(Worker(t))

-----------------------------------------------------------------------------
(* Properties.                                                             *)

\* Every variable has its type: the counters that spy_worker_routine and
\* spy_queue_work change do not fall below zero.
TypeOK ==
  /\ pending_list \in Seq(Works) /\ finished_list \in Seq(Works)
  /\ nr_threads \in Nat /\ nr_works \in Nat
  /\ expanded \in BOOLEAN /\ event_fd \in BOOLEAN
  /\ thread \in [Threads -> [pc : ThreadPC, work : Works \cup {NoWork}]]
  /\ loop.pc \in LoopPC /\ loop.ret \in {"idle", "batch"}
  /\ loop.work \in Works \cup {NoWork} /\ loop.list \in Seq(Works)

\* A finished work is not forgotten: while one is on finished_list, the eventfd is
\* readable, or the event loop is on its way to the list, or a thread is on its
\* way to the eventfd.
NoLostCompletion ==
  finished_list # <<>> =>
    event_fd \/ At("splice") \/ \E t \in Threads : thread[t].pc \in {"count", "notify"}

\* A work that is pending will be taken: a thread is awake, or is about to be
\* woken for it.
NoLostWakeup ==
  pending_list # <<>> =>
    At("signal") \/ \E t \in Threads : thread[t].pc \notin {"none", "waiting"}

\* The counters that spy_wq_need_expand and spy_wq_need_shrink decide by: nr_threads
\* is the number of threads and never less than one, however many end at a time;
\* nr_works is the number of works that are not finished, those whose thread has not
\* counted them off included.
Counters ==
  /\ nr_threads = Cardinality({t \in Threads : thread[t].pc # "none"})
  /\ nr_threads >= 1
  /\ nr_works = Len(pending_list) + Cardinality({t \in Threads :
                    thread[t].pc \in {"run", "count"}})
                 + (IF At("lock") THEN 1 ELSE 0)

\* What has become of a work, as module WorkPool sees it.
Copies(w, list) == Cardinality({i \in DOMAIN list : list[i] = w})
StateOf(w) ==
  LET queued   == Copies(w, pending_list) + (IF w = loop.work THEN 1 ELSE 0)
      running  == Cardinality({t \in Threads : thread[t].work = w})
      finished == Copies(w, finished_list) + Copies(w, loop.list)
  IN CASE queued + running + finished = 0 -> "free"
       [] queued + running + finished > 1 -> "in two places"
       [] queued = 1                      -> "queued"
       [] running = 1                     -> "running"
       [] finished = 1                    -> "finished"

Pool == INSTANCE WorkPool WITH state <- [w \in Works |-> StateOf(w)]

\* spy_work.c and spy_wq_thread_done implement WorkPool: a work that is queued is
\* executed once, and after that its callback is called once.
ImplementsPool == Pool!Spec

\* If every work->fn returns, a work that is queued is in the end executed and its
\* callback called, however the threads come and go and whatever wakeups are spurious
\* (spy_queue_work, spy_worker_routine, spy_wq_thread_done).
WorksComplete == \A w \in Works : StateOf(w) = "queued" ~> StateOf(w) = "free"
=============================================================================
