------------------------------ MODULE WorkPool ------------------------------
(***************************************************************************)
(* What the work queue promises the event loop: a work that is queued is   *)
(* executed once by some thread, and its done callback is run once, on the *)
(* event loop, after that.  Nothing is said of the order of works.  This   *)
(* is what module SpyServer takes for granted of its jobs.                 *)
(***************************************************************************)
CONSTANT Works

VARIABLE state   \* state[w]: what has become of work w

Init == state = [w \in Works |-> "free"]

Goes(w, from, to) ==
  /\ state[w] = from
  /\ state' = [state EXCEPT ![w] = to]

Queue(w) == Goes(w, "free", "queued")
Start(w) == Goes(w, "queued", "running")
Finish(w) == Goes(w, "running", "finished")
Done(w) == Goes(w, "finished", "free")

Next == \E w \in Works : Queue(w) \/ Start(w) \/ Finish(w) \/ Done(w)

Spec == Init /\ [][Next]_state

\* What is queued is executed, and what was executed has its callback run.
FairSpec ==
  /\ Spec
  /\ \A w \in Works : WF_state(Start(w)) /\ WF_state(Finish(w)) /\ WF_state(Done(w))
=============================================================================
