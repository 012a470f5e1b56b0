-------------------------- MODULE OffloadQueueProofs --------------------------
(***************************************************************************)
(* Proofs that the ring of offload.cpp implements JobQueue, and that the   *)
(* two threads never touch a slot at the same time, for every size of the  *)
(* ring and every width of the counters it divides, as long as no wait     *)
(* ends before what it waits for has happened.                             *)
(*                                                                         *)
(* Done counts the jobs the worker has given back and added those that     *)
(* were put: head and tail are those counts modulo Wrap, a slot is the     *)
(* count modulo QueueSize, and the jobs in between are still where they    *)
(* were put.                                                               *)
(***************************************************************************)
EXTENDS OffloadQueue, Integers, SequenceTheorems, TLAPS

\* A job that ran, or is about to be given back, is not in the backlog
InHand == IF wpc \in {"clear", "advance"} THEN 1 ELSE 0

\* How many slots were given back
Done == Len(ran) - InHand

Counters ==
  /\ Len(ran) \in Nat /\ Done \in Nat
  /\ added - Done \in 0 .. QueueSize
  /\ tail = Done % Wrap /\ head = added % Wrap

\* Who waits for what: a wait is for a state that only the other thread ends
Handshake ==
  /\ wpc \in {"run", "clear", "advance"} => Done < added /\ cur = Done % QueueSize
  /\ wpc = "wait" => Done = added /\ ~quit
  /\ wpc = "exited" => Done = added /\ quit
  /\ wpc # "aborted"
  /\ quit => ppc \in {"joining", "stopped"}
  /\ ppc = "stopped" => wpc = "exited"
  /\ ppc = "wait" => added - Done = QueueSize

\* The jobs that ran are the first ones, and those that did not are in their slots
Contents ==
  /\ ran = [i \in 1 .. Len(ran) |-> i]
  /\ \A i \in Len(ran) .. added - 1 : slots[i % QueueSize] = i + 1

\* The ring while every wait ended in time
InTime == Counters /\ Handshake /\ Contents

\* Whoever waits for a slot has a job to put, early or not
Adding == ppc \in {"wait", "woken"} => added < MaxJobs

IInv == TypeOK /\ Adding /\ (~early => InTime)

-----------------------------------------------------------------------------
(* Remainders *)

\* The sizes, without that one divides the other.
LEMMA Sizes == QueueSize \in Nat \ {0} /\ Wrap \in Nat \ {0} /\ QueueSize < Wrap /\ MaxJobs \in Nat
  BY OffloadAssumption

\* A quotient and a remainder below the divisor are unique.
LEMMA RemainderIs ==
  ASSUME NEW n \in Nat \ {0}, NEW a \in Nat, NEW q \in Nat, NEW r \in 0 .. n - 1, a = n * q + r
  PROVE  a % n = r
  OBVIOUS

\* What a quotient and a remainder are.
LEMMA Division ==
  ASSUME NEW n \in Nat \ {0}, NEW a \in Nat
  PROVE  a % n \in 0 .. n - 1 /\ a \div n \in Nat /\ a = n * (a \div n) + (a % n)
  OBVIOUS

\* Whole turns do not change a remainder.
LEMMA SameRemainder ==
  ASSUME NEW n \in Nat \ {0}, NEW a \in Nat, NEW b \in Nat, NEW q \in Nat, a = b + n * q
  PROVE  a % n = b % n
<1> DEFINE d == b \div n
           r == b % n
<1>1. r \in 0 .. n - 1 /\ d \in Nat /\ b = n * d + r
  BY Division
<1> HIDE DEF d, r
<1>2. a = n * (d + q) + r /\ d + q \in Nat
  BY <1>1
<1>3. a % n = r
  BY <1>1, <1>2, RemainderIs
<1> QED BY <1>3 DEF r

\* The counter wraps where the ring does.
LEMMA SlotOfCounter ==
  ASSUME NEW a \in Nat, NEW k \in Nat
  PROVE  ((a % Wrap) + k) % QueueSize = (a + k) % QueueSize
<1> DEFINE q == Wrap \div QueueSize
           c == a \div Wrap
           r == a % Wrap
<1>1. Wrap = QueueSize * q /\ q \in Nat /\ QueueSize \in Nat \ {0} /\ Wrap \in Nat \ {0}
  BY Division, OffloadAssumption
<1>2. r \in Nat /\ c \in Nat /\ a = Wrap * c + r
  BY <1>1, Division
<1> HIDE DEF q, c, r
<1> DEFINE m == q * c
<1>3. m \in Nat /\ Wrap * c = QueueSize * m
  BY <1>1, <1>2
<1> HIDE DEF m
<1>4. a + k = (r + k) + QueueSize * m /\ a + k \in Nat /\ r + k \in Nat
  BY <1>1, <1>2, <1>3
<1>5. (a + k) % QueueSize = (r + k) % QueueSize
  BY <1>1, <1>3, <1>4, SameRemainder, ZenonT(30)
<1> QED BY <1>5 DEF r

\* A counter goes on as the count does.
LEMMA CounterGoesOn == ASSUME NEW a \in Nat PROVE ((a % Wrap) + 1) % Wrap = (a + 1) % Wrap
<1> DEFINE c == a \div Wrap
           r == a % Wrap
<1>1. r \in Nat /\ c \in Nat /\ a = Wrap * c + r /\ Wrap \in Nat \ {0}
  BY Division, OffloadAssumption
<1> HIDE DEF c, r
<1>2. a + 1 = (r + 1) + Wrap * c /\ a + 1 \in Nat /\ r + 1 \in Nat
  BY <1>1
<1>3. (a + 1) % Wrap = (r + 1) % Wrap
  BY <1>1, <1>2, SameRemainder
<1> QED BY <1>3 DEF r

\* Two jobs less than a ring apart are in different slots.
LEMMA SlotsDiffer ==
  ASSUME NEW n \in Nat \ {0}, NEW a \in Nat, NEW b \in Nat, a < b, b < a + n
  PROVE  a % n # b % n
<1> SUFFICES ASSUME a % n = b % n PROVE FALSE
  OBVIOUS
<1>1. a = n * (a \div n) + (a % n) /\ b = n * (b \div n) + (b % n)
      /\ a \div n \in Nat /\ b \div n \in Nat
  BY Division
<1> DEFINE d == (b \div n) - (a \div n)
<1>2. b - a = n * d /\ d \in Int
  BY <1>1
<1>3. d >= 1 \/ d <= 0
  BY <1>2
<1> QED BY <1>2, <1>3

\* The difference of the counters is the number of jobs in the ring.
LEMMA DepthIs ==
  ASSUME NEW a \in Nat, NEW b \in Nat, a <= b, b - a <= QueueSize
  PROVE  /\ ((b % Wrap) + Wrap - (a % Wrap)) % Wrap = b - a
         /\ a % Wrap = b % Wrap <=> a = b
<1> USE OffloadAssumption
<1>1. a % Wrap \in 0 .. Wrap - 1 /\ a \div Wrap \in Nat /\ a = Wrap * (a \div Wrap) + (a % Wrap)
  BY Division
<1>2. b % Wrap \in 0 .. Wrap - 1 /\ b \div Wrap \in Nat /\ b = Wrap * (b \div Wrap) + (b % Wrap)
  BY Division
<1> DEFINE x == a % Wrap
           y == b % Wrap
           d == (b \div Wrap) - (a \div Wrap)
<1>3. b - a = Wrap * d + (y - x) /\ d \in Int
  BY <1>1, <1>2
<1>4. d = 0 \/ d = 1
  <2>1. Wrap * d < 2 * Wrap /\ Wrap * d > 0 - Wrap
    BY <1>1, <1>2, <1>3
  <2>2. d < 2 /\ d > -1
    BY <2>1, <1>3
  <2> QED BY <2>2, <1>3
<1>5. y + Wrap - x = b - a + Wrap * (1 - d) /\ 1 - d \in Nat
  BY <1>1, <1>2, <1>3, <1>4
<1>6. (y + Wrap - x) % Wrap = (b - a) % Wrap
  <2>1. y + Wrap - x \in Nat /\ b - a \in Nat
    BY <1>1, <1>2
  <2> QED BY <2>1, <1>5, SameRemainder, SMTT(20)
<1>7. (b - a) % Wrap = b - a
  BY RemainderIs, b - a = Wrap * 0 + (b - a)
<1>8. x = y <=> a = b
  BY <1>1, <1>2, <1>3, <1>4
<1> QED BY <1>6, <1>7, <1>8

-----------------------------------------------------------------------------
(* The inductive invariant *)

\* The counters of a ring whose jobs are counted by Done and added.
LEMMA RingIs ==
  ASSUME Counters, added \in Nat
  PROVE  /\ Depth = added - Done
         /\ head = tail <=> added = Done
         /\ Slot(tail) = Done % QueueSize /\ Slot(head) = added % QueueSize
         /\ (tail + 1) % Wrap = (Done + 1) % Wrap
         /\ (head + 1) % Wrap = (added + 1) % Wrap
<1>1. Done \in Nat /\ added \in Nat /\ Done <= added /\ added - Done <= QueueSize
  BY OffloadAssumption DEF Counters
<1>2. (Done % Wrap) % QueueSize = Done % QueueSize
      /\ (added % Wrap) % QueueSize = added % QueueSize
  <2>1. \A x \in Nat : x % Wrap \in Nat
    BY Division, OffloadAssumption
  <2>2. \A x \in Nat : ((x % Wrap) + 0) % QueueSize = (x + 0) % QueueSize
    BY SlotOfCounter
  <2> QED BY <1>1, <2>1, <2>2
<1> HIDE DEF Done
<1> QED BY <1>1, <1>2, DepthIs, CounterGoesOn DEF Counters, Depth, Slot

\* An empty ring with both threads at rest.
LEMMA InitIInv == Init => IInv /\ InTime
<1> SUFFICES ASSUME Init PROVE IInv /\ InTime
  OBVIOUS
<1>1. 0 % Wrap = 0
  BY Sizes, RemainderIs, 0 = Wrap * 0 + 0
<1>2. Len(ran) = 0 /\ Done = 0
  BY DEF Init, Done, InHand
<1>3. TypeOK /\ Adding
  <2>1. slots \in [0 .. QueueSize - 1 -> Jobs \cup {NoJob}] /\ ran \in Seq(Jobs)
    BY DEF Init
  <2>2. 0 \in 0 .. Wrap - 1 /\ 0 \in 0 .. QueueSize - 1 /\ 0 \in 0 .. MaxJobs
    BY Sizes
  <2> QED BY <2>1, <2>2 DEF Init, TypeOK, Adding
<1>4. Counters /\ Handshake
  BY <1>1, <1>2, Sizes DEF Init, Counters, Handshake
<1>5. Contents
  BY <1>2 DEF Init, Contents
<1> QED BY <1>3, <1>4, <1>5 DEF IInv, InTime

\* A counter stays below Wrap and a slot within the ring, whatever was counted.
LEMMA InRange ==
  ASSUME TypeOK
  PROVE  /\ (head + 1) % Wrap \in 0 .. Wrap - 1 /\ (tail + 1) % Wrap \in 0 .. Wrap - 1
         /\ Slot(head) \in 0 .. QueueSize - 1 /\ Slot(tail) \in 0 .. QueueSize - 1
<1>1. head \in Nat /\ tail \in Nat /\ head + 1 \in Nat /\ tail + 1 \in Nat
  BY Sizes DEF TypeOK
<1> QED BY <1>1, Division, Sizes DEF Slot

\* Every step keeps the types, a wait that ends too early included.
LEMMA TypesKept == TypeOK /\ Adding /\ [Next]_vars => TypeOK' /\ Adding'
<1> SUFFICES ASSUME TypeOK, Adding, [Next]_vars PROVE TypeOK' /\ Adding'
  OBVIOUS
<1>r. /\ (head + 1) % Wrap \in 0 .. Wrap - 1 /\ (tail + 1) % Wrap \in 0 .. Wrap - 1
      /\ Slot(head) \in 0 .. QueueSize - 1 /\ Slot(tail) \in 0 .. QueueSize - 1
  BY InRange
<1>1. CASE WorkerLock \/ WorkerWoken \/ WorkerWakes
  BY <1>1, <1>r DEF TypeOK, Adding, WorkerLock, WorkerWoken, WorkerWakes, Take
<1>2. CASE WorkerRun
  <2>1. slots[cur] # NoJob => Append(ran, slots[cur]) \in Seq(Jobs)
    BY DEF TypeOK
  <2> QED BY <1>2, <2>1 DEF TypeOK, Adding, WorkerRun
<1>3. CASE WorkerClear
  BY <1>3 DEF TypeOK, Adding, WorkerClear
<1>4. CASE WorkerAdvance
  BY <1>4, <1>r DEF TypeOK, Adding, WorkerAdvance
<1>5. CASE Put /\ early' \in BOOLEAN /\ added < MaxJobs /\ UNCHANGED <<tail, quit, cur, ran>>
  <2>1. added' = added + 1 /\ added + 1 \in 0 .. MaxJobs /\ added + 1 \in Jobs
    BY <1>5, Sizes DEF Put, TypeOK, Jobs
  <2>2. slots' \in [0 .. QueueSize - 1 -> Jobs \cup {NoJob}] /\ head' \in 0 .. Wrap - 1
    BY <1>5, <1>r, <2>1 DEF Put, TypeOK
  <2>3. ppc' = "free" /\ (wpc' = wpc \/ wpc' = "woken")
    BY <1>5 DEF Put
  <2> QED BY <1>5, <2>1, <2>2, <2>3 DEF TypeOK, Adding
<1>6. CASE (AddWork /\ ~Put) \/ AddWorkWakes \/ StopRequest \/ StopJoin
  BY <1>6 DEF TypeOK, Adding, AddWork, AddWorkWakes, StopRequest, StopJoin
<1>7. CASE UNCHANGED vars
  BY <1>7 DEF TypeOK, Adding, vars
<1>8. AddWork /\ Put => /\ added < MaxJobs /\ UNCHANGED <<tail, quit, cur, ran>>
                        /\ early' \in BOOLEAN
  BY DEF AddWork, TypeOK
<1>9. AddWorkWoken => /\ Put /\ added < MaxJobs /\ UNCHANGED <<tail, quit, cur, ran>>
                      /\ early' \in BOOLEAN
  BY DEF AddWorkWoken, TypeOK, Adding
<1> QED BY <1>1, <1>2, <1>3, <1>4, <1>5, <1>6, <1>7, <1>8, <1>9 DEF Next, Worker, Main, Wakeup

\* The worker runs the job of the slot at tail, and clears that slot only.
LEMMA WorkerKeeps ==
  ASSUME TypeOK, InTime, Worker \/ WorkerWakes, ~early'
  PROVE  InTime'
<1> USE Sizes
<1>t. TypeOK /\ Counters /\ Handshake /\ Contents
  BY DEF InTime
<1>r. Depth = added - Done /\ (head = tail <=> added = Done) /\ Slot(tail) = Done % QueueSize
      /\ (tail + 1) % Wrap = (Done + 1) % Wrap
  BY <1>t, RingIs DEF TypeOK
<1>s. Done % QueueSize \in 0 .. QueueSize - 1
  BY <1>t, Division DEF Counters
<1>1. CASE WorkerLock \/ WorkerWoken \/ WorkerWakes
  <2>1. /\ wpc' \in {"run", "wait", "exited", "woken"} /\ Done' = Done /\ Len(ran') = Len(ran)
        /\ wpc' = "run" => cur' = Done % QueueSize
        /\ wpc' # "run" => cur' = cur
    BY <1>1, <1>r, <1>t DEF WorkerLock, WorkerWoken, WorkerWakes, Take, Done, InHand
  <2>3. Counters' /\ Contents'
    BY <1>1, <2>1, <1>t DEF Counters, Contents, WorkerLock, WorkerWoken, WorkerWakes
  <2>4. CASE WorkerLock
    <3>1. Handshake'
      BY <2>4, <2>1, <1>r, <1>t DEF TypeOK, Counters, Handshake, WorkerLock, Take
    <3> QED BY <3>1, <2>3 DEF InTime
  <2>5. CASE WorkerWoken
    <3>1. (quit /\ head = tail) \/ head # tail
      BY <2>5 DEF WorkerWoken
    <3>2. (quit /\ Done = added /\ wpc' = "exited") \/ (Done < added /\ wpc' = "run")
      BY <2>5, <3>1, <1>r, <1>t DEF TypeOK, Counters, WorkerWoken, Take
    <3>3. UNCHANGED <<added, quit, ppc>> /\ wpc = "woken"
      BY <2>5 DEF WorkerWoken
    <3>4. Handshake'
      BY <3>2, <3>3, <2>1, <1>t DEF Handshake
    <3> QED BY <3>4, <2>3 DEF InTime
  <2>6. CASE WorkerWakes
    <3>1. Handshake'
      BY <2>6, <2>1, <1>t DEF TypeOK, Handshake, WorkerWakes
    <3> QED BY <3>1, <2>3 DEF InTime
  <2> QED BY <2>4, <2>5, <2>6, <1>1
<1>2. CASE WorkerRun
  <2>1. slots[cur] = Len(ran) + 1 /\ slots[cur] # NoJob /\ Done = Len(ran)
    <3>1. wpc = "run" /\ Done = Len(ran) - 0
      BY <1>2 DEF WorkerRun, Done, InHand
    <3>2. Len(ran) \in Nat /\ Done = Len(ran) /\ Done < added /\ cur = Done % QueueSize
      BY <3>1, <1>t DEF Counters, Handshake
    <3>3. Len(ran) \in Len(ran) .. added - 1
      BY <3>2, <1>t DEF TypeOK
    <3> QED BY <3>2, <3>3, <1>t DEF Contents, NoJob
  <2>r. ran' = Append(ran, slots[cur]) /\ wpc' = "clear"
    BY <1>2, <2>1 DEF WorkerRun
  <2>2. Len(ran') = Len(ran) + 1 /\ Done' = Done /\ ran' = [i \in 1 .. Len(ran) + 1 |-> i]
    BY <1>2, <2>1, <2>r, <1>t DEF WorkerRun, Done, InHand, Contents, TypeOK
  <2>4. Counters' /\ Handshake'
    BY <1>2, <2>1, <2>r, <2>2, <1>t DEF WorkerRun, TypeOK, Counters, Handshake
  <2>5. Contents'
    BY <1>2, <2>1, <2>2, <1>t DEF WorkerRun, Contents, Counters, TypeOK
  <2> QED BY <2>4, <2>5 DEF InTime
<1>3. CASE WorkerClear
  <2>1. Len(ran) = Done + 1 /\ Done' = Done /\ Done \in Nat /\ cur = Done % QueueSize
    BY <1>3, <1>t DEF WorkerClear, Done, InHand, Counters, Handshake
  <2>2. Counters' /\ Handshake'
    BY <1>3, <2>1, <1>t DEF WorkerClear, TypeOK, Counters, Handshake
  <2>3. ASSUME NEW i \in Len(ran) .. added - 1
        PROVE  slots'[i % QueueSize] = i + 1
    <3>1. i \in Nat /\ Done < i /\ i < Done + QueueSize
      BY <2>1, <1>t DEF Counters, TypeOK
    <3>2. i % QueueSize # cur /\ i % QueueSize \in 0 .. QueueSize - 1
      BY <2>1, <3>1, SlotsDiffer, Division
    <3> QED BY <1>3, <3>2, <1>t DEF WorkerClear, TypeOK, Contents
  <2>4. Contents'
    BY <1>3, <2>3, <1>t DEF WorkerClear, Contents
  <2> QED BY <2>2, <2>4 DEF InTime
<1>4. CASE WorkerAdvance
  <2>1. Len(ran) = Done + 1 /\ Done' = Done + 1 /\ Done \in Nat
    BY <1>4, <1>t DEF WorkerAdvance, Done, InHand, Counters
  <2>2. tail' = Done' % Wrap
    BY <1>4, <2>1, <1>r DEF WorkerAdvance
  <2>3. UNCHANGED <<head, slots, added, ran>> /\ Done < added
    BY <1>4, <1>t DEF WorkerAdvance, Handshake
  <2>4. Counters' /\ Contents'
    BY <2>1, <2>2, <2>3, <1>t DEF Counters, Contents, TypeOK
  <2>5. Handshake'
    BY <1>4, <2>1, <1>t DEF WorkerAdvance, Handshake, Counters, TypeOK
  <2> QED BY <2>4, <2>5 DEF InTime
<1> QED BY <1>1, <1>2, <1>3, <1>4 DEF Worker

\* A job is put into the slot that is free, behind those that wait.
LEMMA PutKeeps ==
  ASSUME TypeOK, InTime, Put, added - Done < QueueSize, ~quit,
         UNCHANGED <<tail, quit, cur, ran>>
  PROVE  InTime'
<1> USE Sizes
<1>t. TypeOK /\ Counters /\ Handshake /\ Contents
  BY DEF InTime
<1>r. Slot(head) = added % QueueSize /\ (head + 1) % Wrap = (added + 1) % Wrap
  BY <1>t, RingIs DEF TypeOK
<1>1. added \in Nat /\ added' = added + 1 /\ head' = (added + 1) % Wrap
      /\ slots' = [slots EXCEPT ![added % QueueSize] = added + 1]
  BY <1>r, <1>t DEF Put, TypeOK
<1>2. added % QueueSize \in 0 .. QueueSize - 1
  BY <1>1, Division
<1>4. Done' = Done
  BY <1>t DEF Put, Done, InHand
<1>5. Counters' /\ Handshake'
  <2>1. Counters'
    BY <1>1, <1>4, <1>t DEF Counters
  <2>2. Handshake'
    BY <1>1, <1>4, <1>t DEF Put, Counters, Handshake, TypeOK
  <2> QED BY <2>1, <2>2
<1>6. ASSUME NEW i \in Len(ran) .. added
      PROVE  slots'[i % QueueSize] = i + 1
  <2>1. CASE i = added
    BY <2>1, <1>1, <1>2, <1>t DEF TypeOK
  <2>2. CASE i # added
    <3>1. i \in Nat /\ i < added /\ added < i + QueueSize
      BY <2>2, <1>t DEF Counters, TypeOK, Done, InHand
    <3>2. i % QueueSize # added % QueueSize /\ i % QueueSize \in 0 .. QueueSize - 1
      BY <3>1, <1>1, SlotsDiffer, Division
    <3> QED BY <3>1, <3>2, <1>1, <1>2, <1>t DEF TypeOK, Contents, Counters
  <2> QED BY <2>1, <2>2
<1>7. Contents'
  BY <1>1, <1>6, <1>t DEF Contents
<1> QED BY <1>5, <1>7 DEF InTime

\* The main thread puts a job when a slot is free, waits when none is, and stops.
LEMMA MainKeeps ==
  ASSUME TypeOK, InTime, Main \/ AddWorkWakes, ~early'
  PROVE  InTime'
<1>t. TypeOK /\ Counters /\ Handshake /\ Contents
  BY DEF InTime
<1>r. Depth = added - Done
  BY <1>t, RingIs DEF TypeOK
<1>1. CASE AddWork /\ Depth # QueueSize
  <2>1. added - Done < QueueSize
    BY <1>1, <1>r, <1>t, Sizes DEF TypeOK, Counters
  <2> QED BY <1>1, <2>1, <1>t, PutKeeps DEF AddWork, Handshake
<1>2. CASE AddWorkWoken
  <2>d. Depth # QueueSize
    BY <1>2 DEF AddWorkWoken
  <2>1. added - Done < QueueSize
    BY <2>d, <1>r, <1>t, Sizes DEF TypeOK, Counters
  <2> QED BY <1>2, <2>1, <1>t, PutKeeps DEF AddWorkWoken, Handshake
<1>3. CASE (AddWork /\ Depth = QueueSize) \/ AddWorkWakes \/ StopRequest \/ StopJoin
  <2>1. Done' = Done /\ UNCHANGED <<head, tail, slots, cur, added, ran>>
    BY <1>3 DEF AddWork, AddWorkWakes, StopRequest, StopJoin, Done, InHand
  <2>2. Counters' /\ Contents'
    BY <1>3, <2>1, <1>t DEF AddWork, AddWorkWakes, StopRequest, StopJoin, TypeOK, Counters, Contents
  <2>3. Handshake'
    <3>1. CASE AddWork /\ Depth = QueueSize
      BY <3>1, <2>1, <1>t, <1>r DEF AddWork, Handshake, TypeOK
    <3>2. CASE StopRequest
      BY <3>2, <2>1, <1>t DEF StopRequest, Handshake, TypeOK
    <3>3. CASE StopJoin
      BY <3>3, <2>1, <1>t DEF StopJoin, Handshake, TypeOK
    <3>4. CASE AddWorkWakes
      BY <3>4, <2>1, <1>t DEF AddWorkWakes, Handshake, TypeOK
    <3> QED BY <1>3, <3>1, <3>2, <3>3, <3>4
  <2> QED BY <2>2, <2>3 DEF InTime
<1> QED BY <1>1, <1>2, <1>3 DEF Main

\* A wait that ended too early is not forgotten.
LEMMA EarlyStays == [Next]_vars /\ early => early'
  BY DEF Next, vars, Worker, Main, Wakeup, WorkerLock, WorkerWakes, WorkerWoken, WorkerRun,
         WorkerClear, WorkerAdvance, AddWork, AddWorkWakes, AddWorkWoken, StopRequest, StopJoin

\* Every step keeps the inductive invariant.
THEOREM NextKeepsIInv == IInv /\ [Next]_vars => IInv'
<1> SUFFICES ASSUME IInv, [Next]_vars PROVE IInv'
  OBVIOUS
<1>1. TypeOK' /\ Adding'
  BY TypesKept DEF IInv
<1>2. ASSUME ~early' PROVE InTime'
  <2>1. ~early
    BY <1>2, EarlyStays
  <2>2. TypeOK /\ InTime
    BY <2>1 DEF IInv
  <2>3. CASE Next
    BY <1>2, <2>2, <2>3, WorkerKeeps, MainKeeps DEF Next, Wakeup
  <2>4. CASE UNCHANGED vars
    BY <2>2, <2>4 DEF vars, InTime, Counters, Handshake, Contents, Done, InHand
  <2> QED BY <2>3, <2>4
<1> QED BY <1>1, <1>2 DEF IInv

\* The inductive invariant holds throughout.
THEOREM SpecIInv == Spec => []IInv
  BY InitIInv, NextKeepsIInv, PTL DEF Spec

-----------------------------------------------------------------------------
(* The properties of the run *)

\* The counters, the slots and the two threads keep their types.
THEOREM SpecTypeOK == Spec => []TypeOK
<1>1. IInv => TypeOK
  BY DEF IInv
<1> QED BY <1>1, SpecIInv, PTL

\* Whoever puts a job has seen a free slot, which is not the one the worker is at.
LEMMA PutsElsewhere ==
  ASSUME IInv, Next, head' # head, ~early', wpc \in {"run", "clear"}
  PROVE  cur # Slot(head)
<1>t. TypeOK /\ Counters /\ Handshake
  BY EarlyStays DEF IInv, InTime
<1>r. Depth = added - Done /\ Slot(head) = added % QueueSize
  BY <1>t, RingIs DEF TypeOK
<1>1. added - Done < QueueSize
  <2>1. Depth # QueueSize
    BY DEF Next, Worker, Main, Wakeup, WorkerLock, WorkerWakes, WorkerWoken, WorkerRun,
           WorkerClear, WorkerAdvance, AddWork, AddWorkWakes, AddWorkWoken, StopRequest, StopJoin
  <2> QED BY <2>1, <1>r, <1>t, Sizes DEF Counters
<1>2. /\ Done \in Nat /\ added \in Nat /\ Done < added /\ cur = Done % QueueSize
      /\ added < Done + QueueSize
  BY <1>1, <1>t, Sizes DEF Counters, Handshake, TypeOK
<1> HIDE DEF Done
<1>3. Done % QueueSize # added % QueueSize
  BY <1>2, SlotsDiffer, Sizes
<1> QED BY <1>2, <1>3, <1>r

\* Unless a wait ended too early, the main thread never writes the slot the worker is at
\* outside the lock.
THEOREM SpecNoSlotRace == Spec => NoSlotRace
<1>1. IInv /\ [Next]_vars =>
        [head' # head /\ ~early' => ~(wpc \in {"run", "clear"} /\ cur = Slot(head))]_vars
  BY PutsElsewhere
<1> QED BY <1>1, SpecIInv, PTL DEF Spec, NoSlotRace

\* The jobs after the a-th up to the b-th
Between(a, b) == [i \in 1 .. b - a |-> a + i]

\* The queue of the jobs between two counts, and what its operations make of it.
LEMMA BetweenIs ==
  ASSUME NEW a \in Nat, NEW b \in Nat, a <= b
  PROVE  /\ Between(a, b) \in Seq(Nat) /\ Len(Between(a, b)) = b - a
         /\ Append(Between(a, b), b + 1) = Between(a, b + 1)
         /\ a < b => /\ Between(a, b) # <<>> /\ Head(Between(a, b)) = a + 1
                     /\ Tail(Between(a, b)) = Between(a + 1, b)
         /\ Between(a, a) = <<>>
<1>1. Between(a, b) \in Seq(Nat) /\ Len(Between(a, b)) = b - a
  BY DEF Between
<1>2. Append(Between(a, b), b + 1) = Between(a, b + 1)
  BY <1>1 DEF Between
<1>3. ASSUME a < b
      PROVE  /\ Between(a, b) # <<>> /\ Head(Between(a, b)) = a + 1
             /\ Tail(Between(a, b)) = Between(a + 1, b)
  <2> DEFINE s == Between(a, b)
             t == Between(a + 1, b)
             u == Tail(s)
  <2>1. s # <<>> /\ Head(s) = a + 1
    BY <1>1, <1>3 DEF Between
  <2>2. u \in Seq(Nat) /\ Len(u) = Len(s) - 1 /\ \A i \in 1 .. Len(u) : u[i] = s[i + 1]
    BY <1>1, <2>1, HeadTailProperties
  <2>3. t \in Seq(Nat) /\ Len(t) = b - a - 1 /\ \A i \in 1 .. Len(t) : t[i] = s[i + 1]
    BY <1>3 DEF Between
  <2>4. Len(s) = b - a
    BY <1>1
  <2> HIDE DEF s, t, u
  <2>5. Len(u) = Len(t) /\ \A i \in 1 .. Len(u) : u[i] = t[i]
    BY <2>2, <2>3, <2>4
  <2>6. u = t
    BY <2>2, <2>3, <2>5, SeqEqual
  <2> QED BY <2>1, <2>6 DEF s, t, u
<1>4. Between(a, a) = <<>>
  BY DEF Between
<1> QED BY <1>1, <1>2, <1>3, <1>4

\* The backlog that the ring holds are the jobs added after those that ran.
LEMMA BacklogIs ==
  TypeOK /\ InTime => Backlog = Between(Len(ran), added) /\ Len(ran) \in Nat /\ Len(ran) <= added
<1> SUFFICES ASSUME TypeOK, InTime
             PROVE  Backlog = Between(Len(ran), added) /\ Len(ran) \in Nat /\ Len(ran) <= added
  OBVIOUS
<1>t. TypeOK /\ Counters /\ Handshake /\ Contents
  BY DEF InTime
<1>1. Len(ran) \in Nat /\ Len(ran) = Done + InHand /\ InHand \in {0, 1} /\ Done \in Nat
      /\ added \in Nat /\ Len(ran) <= added
  BY <1>t DEF Counters, Handshake, TypeOK, Done, InHand
<1>2. Depth - InHand = added - Len(ran)
  BY <1>1, <1>t, RingIs
<1>3. ASSUME NEW i \in 1 .. added - Len(ran)
      PROVE  slots[Slot(tail + InHand + i - 1)] = Len(ran) + i
  <2> DEFINE k == InHand + i - 1
  <2>1. k \in Nat /\ Done + k = Len(ran) + i - 1 /\ Done + k \in Len(ran) .. added - 1
    BY <1>1
  <2>2. tail \in Nat /\ tail + InHand + i - 1 = tail + k
    BY <1>1, <1>t DEF TypeOK
  <2> HIDE DEF k
  <2>3. (tail + k) % QueueSize = (Done + k) % QueueSize
    BY <1>1, <2>1, <1>t, SlotOfCounter DEF Counters
  <2>4. slots[(Done + k) % QueueSize] = Done + k + 1
    BY <2>1, <1>t DEF Contents
  <2> QED BY <1>1, <2>1, <2>2, <2>3, <2>4 DEF Slot
<1>4. Backlog = [i \in 1 .. Depth - InHand |-> slots[Slot(tail + InHand + i - 1)]]
  BY DEF Backlog, InHand
<1> QED BY <1>1, <1>2, <1>3, <1>4 DEF Between

\* Every step of the ring is a step of the queue or leaves it alone.
LEMMA StepImplements ==
  ASSUME TypeOK, InTime, Adding, Next, ~early',
         Backlog = Between(Len(ran), added), (Backlog = Between(Len(ran), added))',
         Len(ran) \in Nat, Len(ran) <= added
  PROVE  Abstract!Next \/ UNCHANGED <<Backlog, ran, ppc = "stopped">>
<1>t. TypeOK /\ Counters /\ Handshake /\ Contents
  BY DEF InTime
<1>a. Adding
  OBVIOUS
<1>n. added \in Nat /\ added <= MaxJobs /\ MaxJobs \in Nat
  BY <1>t, Sizes DEF TypeOK
<1>1. CASE WorkerLock \/ WorkerWoken \/ WorkerClear \/ WorkerAdvance \/ Wakeup
  <2>1. added' = added /\ ran' = ran /\ (ppc = "stopped")' = (ppc = "stopped")
    BY <1>1, <1>t DEF WorkerLock, WorkerWoken, WorkerClear, WorkerAdvance, Wakeup, WorkerWakes,
                      AddWorkWakes
  <2> QED BY <2>1
<1>2. CASE WorkerRun
  <2>1. slots[cur] = Len(ran) + 1 /\ slots[cur] # NoJob /\ Len(ran) < added
    BY <1>2, <1>t DEF WorkerRun, Done, InHand, Handshake, Counters, Contents, TypeOK, NoJob
  <2>2. ran' = Append(ran, Len(ran) + 1) /\ Len(ran') = Len(ran) + 1 /\ added' = added
        /\ ppc' = ppc
    BY <1>2, <2>1, <1>t DEF WorkerRun, TypeOK
  <2>3. Backlog # <<>> /\ Head(Backlog) = Len(ran) + 1 /\ Tail(Backlog) = Between(Len(ran) + 1, added)
    BY <1>n, <2>1, BetweenIs
  <2>4. Backlog' = Tail(Backlog)
    BY <2>2, <2>3
  <2> QED BY <2>2, <2>3, <2>4 DEF Abstract!Next, Abstract!Execute
<1>3. CASE Put /\ ran' = ran /\ added < MaxJobs /\ ppc \in {"free", "woken"}
  <2>1. added' = added + 1 /\ added + 1 \in Jobs
    BY <1>3, <1>n DEF Put, Jobs
  <2>2. Len(Backlog) = added - Len(ran) /\ Append(Backlog, added + 1) = Between(Len(ran), added + 1)
    BY <1>n, BetweenIs
  <2>3. Backlog' = Append(Backlog, added + 1)
    BY <1>3, <2>1, <2>2
  <2>5. Len(ran) + Len(Backlog) + 1 = added + 1
    BY <2>2, <1>n
  <2>4. (ppc = "stopped")' = FALSE /\ (ppc = "stopped") = FALSE
    BY <1>3 DEF Put
  <2> QED BY <1>3, <2>1, <2>3, <2>4, <2>5 DEF Abstract!Next, Abstract!Submit
<1>4. CASE StopJoin
  <2>1. Len(ran) = added
    BY <1>4, <1>t DEF StopJoin, Handshake, Done, InHand, TypeOK
  <2>2. Backlog = <<>>
    BY <2>1, BetweenIs
  <2>3. Backlog' = Backlog /\ ran' = ran /\ (ppc = "stopped")' = TRUE
    BY <1>4 DEF StopJoin
  <2> QED BY <2>2, <2>3 DEF Abstract!Next, Abstract!Stop
<1>5. CASE (AddWork /\ ~Put) \/ StopRequest
  <2>1. added' = added /\ ran' = ran /\ (ppc = "stopped")' = (ppc = "stopped")
    BY <1>5 DEF AddWork, StopRequest
  <2> QED BY <2>1
<1>6. AddWork \/ AddWorkWoken => ran' = ran /\ added < MaxJobs /\ ppc \in {"free", "woken"}
  BY <1>a DEF AddWork, AddWorkWoken, Adding
<1> QED BY <1>1, <1>2, <1>3, <1>4, <1>5, <1>6 DEF Next, Worker, Main, AddWorkWoken

\* Until a wait ends too early the ring implements the queue: every job runs once, in the
\* order the jobs were added, no empty handler is called, and a stop returns only when no
\* job is left.
THEOREM SpecStepsOfTheQueue == Spec => StepsOfTheQueue
<1>1. Init => Abstract!Init
  <2> SUFFICES ASSUME Init PROVE Abstract!Init
    OBVIOUS
  <2>1. Backlog = Between(Len(ran), added)
    BY InitIInv, BacklogIs DEF IInv
  <2>2. Between(0, 0) = <<>>
    BY BetweenIs
  <2> QED BY <2>1, <2>2 DEF Init, Abstract!Init
<1>2. IInv /\ IInv' /\ [Next]_vars => [Abstract!Next \/ early']_(Abstract!vars)
  <2> SUFFICES ASSUME IInv, IInv', [Next]_vars, ~early' PROVE [Abstract!Next]_(Abstract!vars)
    OBVIOUS
  <2>i. TypeOK /\ Adding /\ InTime /\ (TypeOK /\ InTime)'
    BY EarlyStays DEF IInv
  <2>1. (Backlog = Between(Len(ran), added))'
    BY <2>i, BacklogIs, PTL
  <2>2. CASE Next
    BY <2>1, <2>2, <2>i, BacklogIs, StepImplements DEF Abstract!vars
  <2>3. CASE UNCHANGED vars
    BY <2>3 DEF vars, Abstract!vars, Backlog, Depth, Slot
  <2> QED BY <2>2, <2>3
<1>3. IInv => (wpc = "aborted" => early)
  BY DEF IInv, InTime, Handshake
<1> QED BY <1>1, <1>2, <1>3, SpecIInv, PTL DEF Spec, StepsOfTheQueue
=============================================================================
