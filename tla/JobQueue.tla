------------------------------ MODULE JobQueue ------------------------------
(***************************************************************************)
(* What offload.h promises its callers: jobs handed to offload_add_work()  *)
(* run on the worker thread, each exactly once and in the order they were  *)
(* handed over, and offload_stop() returns only when none is left.         *)
(***************************************************************************)
EXTENDS Naturals, Sequences

CONSTANT Jobs     \* the jobs the callers may hand over, numbered in order

VARIABLES waiting,    \* the jobs handed over and not yet run, oldest first
          ran,        \* the jobs that ran, in the order they ran
          stopped     \* offload_stop() has returned

vars == <<waiting, ran, stopped>>

Init ==
  /\ waiting = <<>>
  /\ ran = <<>>
  /\ stopped = FALSE

Submit ==
  /\ ~stopped
  /\ Len(ran) + Len(waiting) + 1 \in Jobs
  /\ waiting' = Append(waiting, Len(ran) + Len(waiting) + 1)
  /\ UNCHANGED <<ran, stopped>>

Execute ==
  /\ waiting # <<>>
  /\ ran' = Append(ran, Head(waiting))
  /\ waiting' = Tail(waiting)
  /\ UNCHANGED stopped

Stop ==
  /\ waiting = <<>>
  /\ stopped' = TRUE
  /\ UNCHANGED <<waiting, ran>>

Next == Submit \/ Execute \/ Stop

Spec == Init /\ [][Next]_vars

\* A job that was handed over runs, whether or not anyone stops the queue.
EveryJobRuns == \A n \in Jobs : (Len(ran) + Len(waiting) >= n) ~> (Len(ran) >= n)

Promise == Spec /\ EveryJobRuns
=============================================================================
