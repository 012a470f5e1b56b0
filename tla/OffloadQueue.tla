---------------------------- MODULE OffloadQueue ----------------------------
(***************************************************************************)
(* offload.cpp: a ring of QUEUE_SIZE jobs between the main thread, which   *)
(* adds them (offload_add_work) and finally stops the worker               *)
(* (offload_stop), and one worker thread that runs them.  head and tail    *)
(* are uint32_t counters that never wrap back to the slot index: a slot is *)
(* head % QUEUE_SIZE, so the ring depends on QUEUE_SIZE dividing 2^32.     *)
(*                                                                         *)
(* A critical section of s_queue_lock is one step; pthread_cond_wait       *)
(* releases the lock, so it ends a step and the wakeup starts another.     *)
(*                                                                         *)
(* Both waits are under an if, and pthread_cond_wait may return without a  *)
(* signal.  A wait that ends while the ring is still empty (or still full) *)
(* sets the history variable early: from then on the code is outside what  *)
(* it was written for.  The worker may call an empty handler, which throws *)
(* std::bad_function_call out of the thread and ends the program, and the  *)
(* main thread may overwrite a job.                                        *)
(***************************************************************************)
EXTENDS Naturals, Sequences

CONSTANTS QueueSize,   \* QUEUE_SIZE, 8 in the code
          Wrap,        \* the counters count modulo Wrap, 2^32 in the code
          MaxJobs      \* bound: the main thread adds at most MaxJobs jobs

ASSUME OffloadAssumption ==
  /\ QueueSize \in Nat \ {0}
  /\ Wrap \in Nat \ {0}
  /\ QueueSize < Wrap
  /\ Wrap % QueueSize = 0
  /\ MaxJobs \in Nat

NoJob == 0                  \* an empty std::function
Jobs == 1 .. MaxJobs        \* the n-th job added is the number n

VARIABLES
  head, tail,   \* s_queue_head, s_queue_tail
  slots,        \* s_queue: the handler of each slot
  quit,         \* s_quit
  wpc,          \* the worker: "lock", "wait", "woken", "run", "clear",
                \* "advance", "exited", "aborted" (with the whole program)
  cur,          \* current_work: the slot the worker works on
  ppc,          \* the main thread: "free", "wait", "woken", "joining", "stopped"
  added,        \* how many jobs were added, the next one is added + 1
  ran,          \* the jobs that ran, in order (history)
  early         \* a wait ended before what it waits for had happened (history)

vars == <<head, tail, slots, quit, wpc, cur, ppc, added, ran, early>>

TypeOK ==
  /\ head \in 0 .. Wrap - 1 /\ tail \in 0 .. Wrap - 1
  /\ slots \in [0 .. QueueSize - 1 -> Jobs \cup {NoJob}]
  /\ quit \in BOOLEAN
  /\ wpc \in {"lock", "wait", "woken", "run", "clear", "advance", "exited", "aborted"}
  /\ cur \in 0 .. QueueSize - 1
  /\ ppc \in {"free", "wait", "woken", "joining", "stopped"}
  /\ added \in 0 .. MaxJobs
  /\ ran \in Seq(Jobs)
  /\ early \in BOOLEAN

\* s_queue_head - s_queue_tail in uint32_t arithmetic
Depth == (head + Wrap - tail) % Wrap

Slot(counter) == counter % QueueSize

Init ==
  /\ head = 0 /\ tail = 0
  /\ slots = [i \in 0 .. QueueSize - 1 |-> NoJob]
  /\ quit = FALSE
  /\ wpc = "lock" /\ cur = 0
  /\ ppc = "free"
  /\ added = 0 /\ ran = <<>>
  /\ early = FALSE

-----------------------------------------------------------------------------
(* The worker thread *)

\* "get work": the oldest slot becomes the current one and the lock is released
Take == wpc' = "run" /\ cur' = Slot(tail)

\* The first critical section of a pass: work, quit, or wait
WorkerLock ==
  /\ wpc = "lock"
  /\ IF head # tail
       THEN Take
       ELSE /\ wpc' = IF quit THEN "exited" ELSE "wait"
            /\ UNCHANGED cur
  /\ UNCHANGED <<head, tail, slots, quit, ppc, added, ran, early>>

\* pthread_cond_wait may end without a signal
WorkerWakes ==
  /\ wpc = "wait"
  /\ wpc' = "woken"
  /\ UNCHANGED <<head, tail, slots, quit, cur, ppc, added, ran, early>>

\* pthread_cond_wait has the lock again and returns: the worker rechecks only for
\* quit, then takes a slot, which is an empty one when nothing was added
WorkerWoken ==
  /\ wpc = "woken"
  /\ IF quit /\ head = tail
       THEN wpc' = "exited" /\ UNCHANGED <<cur, early>>
       ELSE Take /\ early' = (early \/ head = tail)
  /\ UNCHANGED <<head, tail, slots, quit, ppc, added, ran>>

\* The handler runs outside the lock; calling an empty one ends the program
WorkerRun ==
  /\ wpc = "run"
  /\ IF slots[cur] = NoJob
       THEN wpc' = "aborted" /\ UNCHANGED ran
       ELSE wpc' = "clear" /\ ran' = Append(ran, slots[cur])
  /\ UNCHANGED <<head, tail, slots, quit, cur, ppc, added, early>>

\* handler = nullptr, still outside the lock
WorkerClear ==
  /\ wpc = "clear"
  /\ slots' = [slots EXCEPT ![cur] = NoJob]
  /\ wpc' = "advance"
  /\ UNCHANGED <<head, tail, quit, cur, ppc, added, ran, early>>

\* Faulty variant: nobody is told that a slot is free
WorkerAdvanceSilent ==
  /\ wpc = "advance"
  /\ tail' = (tail + 1) % Wrap
  /\ wpc' = "lock"
  /\ UNCHANGED <<head, slots, quit, cur, ppc, added, ran, early>>

\* The second critical section: the slot is given back and a waiter signalled
WorkerAdvance ==
  /\ wpc = "advance"
  /\ tail' = (tail + 1) % Wrap
  /\ ppc' = IF ppc = "wait" THEN "woken" ELSE ppc
  /\ wpc' = "lock"
  /\ UNCHANGED <<head, slots, quit, cur, added, ran, early>>

-----------------------------------------------------------------------------
(* The main thread *)

\* Faulty variant: the counter is wider than the ring's arithmetic
PutNoWrap ==
  /\ added' = added + 1
  /\ slots' = [slots EXCEPT ![Slot(head)] = added + 1]
  /\ head' = head + 1
  /\ wpc' = IF wpc = "wait" THEN "woken" ELSE wpc
  /\ ppc' = "free"

\* Faulty variant: the worker is not signalled
PutSilent ==
  /\ added' = added + 1
  /\ slots' = [slots EXCEPT ![Slot(head)] = added + 1]
  /\ head' = (head + 1) % Wrap
  /\ ppc' = "free" /\ UNCHANGED wpc

\* The slot is written, the head moves, s_cond_work is signalled
Put ==
  /\ added' = added + 1
  /\ slots' = [slots EXCEPT ![Slot(head)] = added + 1]
  /\ head' = (head + 1) % Wrap
  /\ wpc' = IF wpc = "wait" THEN "woken" ELSE wpc
  /\ ppc' = "free"

\* Faulty variant: the ring is taken to have one slot more
AddWorkOverfull ==
  /\ ppc = "free" /\ wpc # "aborted" /\ added < MaxJobs
  /\ IF Depth > QueueSize
       THEN ppc' = "wait" /\ UNCHANGED <<head, slots, wpc, added>>
       ELSE Put
  /\ UNCHANGED <<tail, quit, cur, ran, early>>

\* offload_add_work up to its wait, or to its end when a slot is free
AddWork ==
  /\ ppc = "free" /\ wpc # "aborted" /\ added < MaxJobs
  /\ IF Depth = QueueSize
       THEN ppc' = "wait" /\ UNCHANGED <<head, slots, wpc, added>>
       ELSE Put
  /\ UNCHANGED <<tail, quit, cur, ran, early>>

\* pthread_cond_wait may end without a signal
AddWorkWakes ==
  /\ ppc = "wait" /\ wpc # "aborted"
  /\ ppc' = "woken"
  /\ UNCHANGED <<head, tail, slots, quit, wpc, cur, added, ran, early>>

\* pthread_cond_wait has the lock again and returns: the fullness test is not
\* repeated, so into a full ring the new job goes over the oldest one
AddWorkWoken ==
  /\ ppc = "woken" /\ wpc # "aborted"
  /\ Put
  /\ early' = (early \/ Depth = QueueSize)
  /\ UNCHANGED <<tail, quit, cur, ran>>

StopRequest ==
  /\ ppc = "free" /\ wpc # "aborted"
  /\ quit' = TRUE
  /\ wpc' = IF wpc = "wait" THEN "woken" ELSE wpc
  /\ ppc' = "joining"
  /\ UNCHANGED <<head, tail, slots, cur, added, ran, early>>

StopJoin ==
  /\ ppc = "joining" /\ wpc = "exited"
  /\ ppc' = "stopped"
  /\ UNCHANGED <<head, tail, slots, quit, wpc, cur, added, ran, early>>

-----------------------------------------------------------------------------
\* The waits that end without a signal: nothing makes them, nothing prevents them
Wakeup == WorkerWakes \/ AddWorkWakes
Worker == WorkerLock \/ WorkerWoken \/ WorkerRun \/ WorkerClear \/ WorkerAdvance
Main == AddWork \/ AddWorkWoken \/ StopRequest \/ StopJoin

Next == Worker \/ Main \/ Wakeup

Spec == Init /\ [][Next]_vars

\* The threads are scheduled and a handler returns; nobody has to add or to stop
Fairness == WF_vars(Worker) /\ WF_vars(AddWorkWoken) /\ WF_vars(StopJoin)

FairSpec == Spec /\ Fairness

-----------------------------------------------------------------------------
(* Properties *)

\* Unless a wait ended before what it waits for had happened, the main thread never
\* writes the slot whose handler the worker is running or clearing outside the lock:
\* the two threads share s_queue only through the test that the ring is not full.
NoSlotRace ==
  [][head' # head /\ ~early' => ~(wpc \in {"run", "clear"} /\ cur = Slot(head))]_vars

\* The main thread never blocks for good in offload_add_work or offload_stop; the
\* one thing that keeps it from returning is an empty handler that ends the program.
MainProceeds ==
  (ppc \in {"wait", "woken", "joining"}) ~> (ppc \in {"free", "stopped"} \/ wpc = "aborted")

\* The jobs between tail and head, without the one that already ran
Backlog ==
  LET done == IF wpc \in {"clear", "advance"} THEN 1 ELSE 0
  IN [i \in 1 .. Depth - done |-> slots[Slot(tail + done + i - 1)]]

\* The queue offload.h promises: every job, in order, exactly once, none left when a
\* stop returns.
Abstract == INSTANCE JobQueue WITH
              waiting <- Backlog, stopped <- ppc = "stopped"

\* Until a wait ends before what it waits for has happened, every step of the ring is
\* one of the queue or leaves the queue alone, and the worker calls no empty handler.
StepsOfTheQueue ==
  /\ Abstract!Init /\ [][Abstract!Next \/ early']_(Abstract!vars)
  /\ [](wpc = "aborted" => early)

\* The ring is the queue offload.h promises as long as no wait ends too early: every job
\* that was handed over runs, whether or not anyone stops the ring.
ImplementsJobQueue == StepsOfTheQueue /\ (Abstract!EveryJobRuns \/ <>early)
=============================================================================
