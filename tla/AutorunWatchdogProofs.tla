----------------------- MODULE AutorunWatchdogProofs -----------------------
(***************************************************************************)
(* Proofs about two parts that Main polls: the safety of CdAutorun, for    *)
(* all discs, and at the end the invariants of CoreWatchdog, for every     *)
(* period, every stall and every clock that is long enough.                *)
(*                                                                         *)
(* CdAutorun: a detection carries what it read and cleared from the drive  *)
(* to Main, so the invariant follows it from the worker (Looking) through  *)
(* the posted result (Posted) to what Main has handled (Held, Seen).       *)
(***************************************************************************)
EXTENDS CdAutorun, WatchdogState, TLAPS

\* Main's statics: a worker and a result are of a Main that has read the file, and a
\* worker whose detection is current is of an active autorun
Mine ==
  /\ active = pollActive
  /\ pc # "idle" => active
  /\ active \/ ready \/ worker # NoWorker => loaded
  /\ worker # NoWorker => running
  /\ ~loaded => handled = None
  /\ loaded => file \in {handled, None}
  /\ worker # NoWorker /\ ~worker.res.old => active

\* A worker looks for what is handled, and a result is used before the next one,
\* unless detections overlapped
Ordered == ~overlapped /\ worker # NoWorker => ~ready /\ worker.handled = handled

\* What a detection says of itself ...
Shaped(r) ==
  /\ r.cleared => r.present /\ ~r.known
  /\ r.changed => r.cleared
  /\ r.known => r.present /\ r.classified
  /\ r.mine => r.present /\ (~changed \/ (unheard /\ ~r.known))
  /\ r.absent => ~r.present /\ ~r.mine

\* ... and of the fingerprint it was started with
Compared(r, print) ==
  /\ r.cleared /\ ~r.changed => print = None
  /\ r.known => r.print = print /\ print # None

\* A worker has found out what its place in the detection says
Looking ==
  worker # NoWorker =>
    /\ Shaped(worker.res) /\ Compared(worker.res, worker.handled)
    /\ worker.at = "open" => ~worker.res.present
    /\ worker.at \in {"query", "read"} => worker.res.present
    /\ worker.at \in {"open", "query"} =>
         /\ ~worker.res.cleared /\ ~worker.res.mine /\ ~worker.res.known
         /\ ~worker.res.absent /\ ~worker.res.classified /\ ~worker.res.changed
    /\ worker.at = "read" => ~worker.res.known /\ ~worker.res.classified

Posted == ready => Shaped(result) /\ (~overlapped /\ ~changed => Compared(result, handled))

\* A medium whose change was read is the one that was looked at
OfThis(r) == ~overlapped /\ disc # NoDisc /\ ~changed /\ r.present => r.mine
Past == worker # NoWorker /\ ~worker.res.old /\ worker.at \in {"read", "post"}
Looked == (ready => OfThis(result)) /\ (Past => OfThis(worker.res))

\* A launched disc stays handled, and is known to every detection, while it is in the drive
Held ==
  launched /\ ~overlapped /\ ~unheard =>
    /\ ~changed
    /\ disc # NoDisc => file # None /\ (loaded => handled # None)
    /\ ready =>
         /\ ~result.changed
         /\ result.mine => result.known
         /\ disc # NoDisc => ~result.absent /\ (result.present => result.known)
    /\ worker # NoWorker =>
         /\ ~worker.res.changed
         /\ worker.res.mine => worker.res.known
         /\ disc # NoDisc => ~worker.res.absent /\ (Past /\ worker.res.present => worker.res.known)

\* The change of a medium whose disc is not handled is on its way to Main
Pending == (worker # NoWorker /\ worker.res.cleared) \/ (ready /\ result.cleared)
Seen ==
  ~lost /\ ~overlapped =>
    /\ disc # NoDisc /\ ~changed /\ ~Pending => ours \/ (handled = None /\ file = None)
    /\ ready /\ result.known /\ result.mine => ours
    /\ worker # NoWorker /\ worker.res.known /\ worker.res.mine => ours

IInv == TypeOK /\ Mine /\ Ordered /\ Looking /\ Posted /\ Looked /\ Held /\ Seen

-----------------------------------------------------------------------------
\* The types of the records.
LEMMA Records ==
  /\ Blank \in Results /\ NoWorker \notin Workers
  /\ ~Blank.present /\ ~Blank.absent /\ ~Blank.changed /\ ~Blank.known /\ ~Blank.classified
  /\ ~Blank.old /\ ~Blank.mine /\ ~Blank.cleared
<1>1. Blank \in Results
  BY CdAssumption DEF Blank, Results, Prints
<1>2. NoWorker \notin Workers
  <2>1. \A w \in Workers : w.at # "none"
    BY DEF Workers
  <2> QED BY <2>1 DEF NoWorker
<1> QED BY <1>1, <1>2 DEF Blank

\* A worker has the fields of one.
LEMMA WorkerIs ==
  ASSUME TypeOK, worker # NoWorker
  PROVE  /\ worker \in Workers /\ worker.res \in Results /\ worker.handled \in Prints
         /\ worker.at \in {"open", "query", "read", "post"}
BY DEF TypeOK, Workers

\* Where there is a place there is a worker.
LEMMA AtIs == worker.at \in {"open", "query", "read", "post"} => worker # NoWorker
  BY DEF NoWorker

\* A first Main has handled nothing, and no detection is under way.
LEMMA InitIInv == Init => IInv
<1> SUFFICES ASSUME Init PROVE IInv
  OBVIOUS
<1>1. TypeOK
  <2>1. /\ file \in Prints /\ handled \in Prints /\ retry \in 0 .. Retries /\ absent \in 0 .. 2
        /\ pc \in {"idle", "take", "start", "launch"}
    BY CdAssumption DEF Init, Prints
  <2>2. result \in Results /\ worker \in Workers \cup {NoWorker}
    BY Records DEF Init
  <2> QED BY <2>1, <2>2 DEF Init, TypeOK
<1>2. Mine /\ Ordered /\ Looking /\ Posted /\ Looked /\ Held
  BY DEF Init, Mine, Ordered, Looking, Posted, Looked, Past, Held
<1>3. Seen
  BY DEF Init, Seen
<1> QED BY <1>1, <1>2, <1>3 DEF IInv

-----------------------------------------------------------------------------
(* The drive and the user *)

\* An empty drive has nothing to be handled.
LEMMA EjectKeeps == IInv /\ Eject => IInv'
<1> SUFFICES ASSUME IInv, Eject PROVE IInv'
  OBVIOUS
<1>0. /\ disc' = NoDisc
      /\ UNCHANGED <<changed, isMenu, setting, file, pc, pollActive, handled, loaded, retry,
                     absent, active, running, ready, result, worker, launched, ours, lost,
                     overlapped, unheard>>
  BY DEF Eject, mains, shared, history
<1>1. TypeOK'
  BY <1>0 DEF IInv, TypeOK
<1>2. Mine' /\ Ordered'
  BY <1>0 DEF IInv, Mine, Ordered
<1>3. Looking' /\ Posted'
  BY <1>0 DEF IInv, Looking, Posted, Shaped, Compared
<1>4. Looked' /\ Held' /\ Seen'
  BY <1>0 DEF IInv, Looked, OfThis, Past, Held, Seen, Pending
<1> QED BY <1>1, <1>2, <1>3, <1>4 DEF IInv

\* The setting takes effect at the next poll only.
LEMMA SetSettingKeeps == IInv /\ SetSetting => IInv'
<1> SUFFICES ASSUME IInv, SetSetting PROVE IInv'
  OBVIOUS
<1>0. /\ setting' \in BOOLEAN
      /\ UNCHANGED <<disc, changed, isMenu, file, pc, pollActive, handled, loaded, retry,
                     absent, active, running, ready, result, worker, launched, ours, lost,
                     overlapped, unheard>>
  BY DEF SetSetting, drive, mains, shared, history
<1>1. TypeOK'
  BY <1>0 DEF IInv, TypeOK
<1>2. Mine' /\ Ordered'
  BY <1>0 DEF IInv, Mine, Ordered
<1>3. Looking' /\ Posted'
  BY <1>0 DEF IInv, Looking, Posted, Shaped, Compared
<1>4. Looked' /\ Held' /\ Seen'
  BY <1>0 DEF IInv, Looked, OfThis, Past, Held, Seen, Pending
<1> QED BY <1>1, <1>2, <1>3, <1>4 DEF IInv

\* A new disc is not launched yet, and a detection of the one before is not of it.
LEMMA InsertKeeps == IInv /\ Insert => IInv'
<1> SUFFICES ASSUME IInv, Insert PROVE IInv'
  OBVIOUS
<1>0. /\ disc = NoDisc /\ disc' \in Discs /\ changed' = TRUE
      /\ launched' = FALSE /\ ours' = FALSE /\ lost' = FALSE /\ overlapped' = Overlap
      /\ unheard' = FALSE
      /\ result' = [result EXCEPT !.mine = FALSE]
      /\ worker' = IF worker = NoWorker THEN worker ELSE [worker EXCEPT !.res.mine = FALSE]
      /\ UNCHANGED <<isMenu, setting, file, pc, pollActive, handled, loaded, retry, absent,
                     active, running, ready>>
  BY DEF Insert, mains
<1>t. TypeOK /\ Mine /\ Ordered /\ Looking /\ Posted
  BY DEF IInv
<1>1. /\ result' \in Results /\ ~result'.mine /\ result'.present = result.present
      /\ result'.absent = result.absent /\ result'.changed = result.changed
      /\ result'.known = result.known /\ result'.classified = result.classified
      /\ result'.print = result.print /\ result'.cleared = result.cleared
  BY <1>0, <1>t DEF TypeOK, Results
<1>2. worker = NoWorker => worker' = NoWorker
  BY <1>0
<1>3. ASSUME worker # NoWorker
      PROVE  /\ worker' \in Workers /\ worker'.at = worker.at /\ worker'.handled = worker.handled
             /\ worker'.res = [worker.res EXCEPT !.mine = FALSE]
  <2>1. worker' = [worker EXCEPT !.res = [worker.res EXCEPT !.mine = FALSE]]
    BY <1>0, <1>3
  <2>2. [worker.res EXCEPT !.mine = FALSE] \in Results
    BY <1>3, <1>t, WorkerIs DEF Results
  <2> QED BY <1>3, <1>t, <2>1, <2>2, WorkerIs DEF Workers
<1>4. ASSUME worker # NoWorker
      PROVE  /\ ~worker'.res.mine /\ worker'.res.present = worker.res.present
             /\ worker'.res.absent = worker.res.absent /\ worker'.res.changed = worker.res.changed
             /\ worker'.res.known = worker.res.known /\ worker'.res.old = worker.res.old
             /\ worker'.res.classified = worker.res.classified
             /\ worker'.res.print = worker.res.print /\ worker'.res.cleared = worker.res.cleared
  BY <1>3, <1>4, <1>t, WorkerIs DEF Results
<1>5. worker' # NoWorker <=> worker # NoWorker
  BY <1>2, <1>3, Records
<1>6. TypeOK'
  <2>1. overlapped' \in BOOLEAN
    BY <1>0, <1>t DEF TypeOK, Overlap
  <2>2. worker' \in Workers \cup {NoWorker}
    BY <1>2, <1>3
  <2> QED BY <1>0, <1>1, <1>t, <2>1, <2>2, ZenonT(30) DEF TypeOK
<1>7. Mine'
  BY <1>0, <1>4, <1>5, <1>t DEF Mine
<1>8. Ordered'
  BY <1>0, <1>3, <1>5 DEF Ordered, Overlap
<1>9. Looking'
  BY <1>3, <1>4, <1>5, <1>t DEF Looking, Shaped, Compared
<1>10. Posted'
  BY <1>0, <1>1, <1>t DEF Posted, Shaped
<1>11. Looked' /\ Held'
  BY <1>0 DEF Looked, OfThis, Held
<1>12. Seen'
  BY <1>0, <1>1, <1>4, <1>5 DEF Seen
<1> QED BY <1>6, <1>7, <1>8, <1>9, <1>10, <1>11, <1>12 DEF IInv

\* The statics start again, and the file tells the next Main what is handled.
LEMMA RestartKeeps ==
  ASSUME IInv, Restart, isMenu' \in BOOLEAN,
         UNCHANGED <<disc, changed, setting, file, launched, ours, overlapped, unheard>>
  PROVE  IInv'
<1>0. /\ pc' = "idle" /\ worker' = NoWorker
      /\ pollActive' = FALSE /\ handled' = None /\ loaded' = FALSE /\ retry' = 0 /\ absent' = 0
      /\ active' = FALSE /\ running' = FALSE /\ ready' = FALSE
      /\ result' = Blank
      /\ lost' = (lost \/ Holds \/ (ready /\ result.cleared))
  BY DEF Restart
<1>t. TypeOK /\ Mine /\ Held /\ Seen
  BY DEF IInv
<1>1. TypeOK'
  <2>1. /\ file' \in Prints /\ handled' \in Prints /\ retry' \in 0 .. Retries /\ absent' \in 0 .. 2
        /\ pc' \in {"idle", "take", "start", "launch"}
    BY <1>0, <1>t, CdAssumption DEF TypeOK, Prints
  <2>2. result' \in Results /\ worker' \in Workers \cup {NoWorker}
    BY <1>0, Records
  <2>3. lost' \in BOOLEAN
    <3>1. lost \in BOOLEAN /\ ready \in BOOLEAN /\ result.cleared \in BOOLEAN
      BY <1>t DEF TypeOK, Results
    <3>2. Holds \in BOOLEAN
      BY <1>t, WorkerIs DEF Holds, Results
    <3> QED BY <1>0, <3>1, <3>2
  <2> QED BY <1>0, <1>t, <2>1, <2>2, <2>3 DEF TypeOK
<1>2. Mine' /\ Ordered' /\ Looking' /\ Posted' /\ Looked'
  BY <1>0 DEF Mine, Ordered, Looking, Posted, Looked, Past
<1>3. Held'
  BY <1>0, <1>t DEF Held
<1>4. Seen'
  <2>1. lost' \/ ~Pending
    BY <1>0 DEF Holds, Pending
  <2>2. ~lost' => ~lost
    BY <1>0
  <2> QED BY <1>0, <1>t, <2>1, <2>2 DEF Seen
<1> QED BY <1>1, <1>2, <1>3, <1>4 DEF IInv

\* So does any core that is loaded.
LEMMA LoadCoreKeeps == IInv /\ LoadCore => IInv'
  BY RestartKeeps DEF LoadCore, drive

-----------------------------------------------------------------------------
(* The worker *)

\* Opening the drive finds a disc, none, or nothing.
LEMMA WorkerOpenKeeps == IInv /\ WorkerOpen => IInv'
<1> SUFFICES ASSUME IInv, WorkerOpen PROVE IInv'
  OBVIOUS
<1>0. /\ worker.at = "open" /\ worker # NoWorker
      /\ UNCHANGED <<disc, changed, isMenu, setting, file, pc, pollActive, handled, loaded,
                     retry, absent, active, running, ready, result, launched, ours, lost,
                     overlapped, unheard>>
  BY AtIs DEF WorkerOpen, drive, mains, shared, history
<1>t. TypeOK /\ Mine /\ Ordered /\ Looking /\ Posted /\ Looked /\ Held /\ Seen
  BY DEF IInv
<1> DEFINE r == worker.res
<1>1. r \in Results /\ worker \in Workers
  BY <1>0, <1>t, WorkerIs
<1>2. PICK at \in {"query", "post"}, p \in BOOLEAN, e \in BOOLEAN :
        /\ worker' = [worker EXCEPT !.at = at, !.res = [r EXCEPT !.present = p, !.absent = e]]
        /\ p <=> at = "query"
        /\ e => at = "post" /\ disc = NoDisc
  <2>1. r.present = FALSE /\ r.absent = FALSE
    BY <1>0, <1>1, <1>t DEF Looking, Results
  <2>2. CASE Current /\ disc # NoDisc /\ worker' = [worker EXCEPT !.at = "query", !.res.present = TRUE]
    <3>1. worker' = [worker EXCEPT !.at = "query",
                                   !.res = [r EXCEPT !.present = TRUE, !.absent = FALSE]]
      BY <1>1, <2>1, <2>2 DEF Results, Workers
    <3> HIDE DEF r
    <3> QED BY <3>1
  <2>3. CASE disc = NoDisc /\ worker' = [worker EXCEPT !.at = "post", !.res.absent = TRUE]
    <3>1. worker' = [worker EXCEPT !.at = "post",
                                   !.res = [r EXCEPT !.present = FALSE, !.absent = TRUE]]
      BY <1>1, <2>1, <2>3 DEF Results, Workers
    <3> HIDE DEF r
    <3> QED BY <2>3, <3>1
  <2>4. CASE worker' = [worker EXCEPT !.at = "post"]
    <3>1. worker' = [worker EXCEPT !.at = "post",
                                   !.res = [r EXCEPT !.present = FALSE, !.absent = FALSE]]
      BY <1>1, <2>1, <2>4 DEF Results, Workers
    <3> HIDE DEF r
    <3> QED BY <3>1
  <2> QED BY <2>2, <2>3, <2>4 DEF WorkerOpen
<1>3. [r EXCEPT !.present = p, !.absent = e] \in Results
  BY <1>1 DEF Results
<1>4. /\ worker' \in Workers /\ worker'.at = at /\ worker'.handled = worker.handled
      /\ worker'.res = [r EXCEPT !.present = p, !.absent = e]
  BY <1>1, <1>2, <1>3 DEF Workers
<1>5. /\ worker'.res.present = p /\ worker'.res.absent = e /\ worker'.res.changed = r.changed
      /\ worker'.res.known = r.known /\ worker'.res.old = r.old
      /\ worker'.res.classified = r.classified /\ worker'.res.print = r.print
      /\ worker'.res.mine = r.mine /\ worker'.res.cleared = r.cleared
  BY <1>1, <1>4 DEF Results
<1>6. worker' # NoWorker
  BY <1>4, Records
<1> HIDE DEF r
<1>7. ~r.cleared /\ ~r.mine /\ ~r.known /\ ~r.absent /\ ~r.classified /\ ~r.changed /\ ~r.present
  BY <1>0, <1>t DEF Looking, r
<1>8. TypeOK'
  BY <1>0, <1>4, <1>t DEF TypeOK
<1>9. Mine' /\ Ordered'
  BY <1>0, <1>4, <1>5, <1>t DEF Mine, Ordered, r
<1>10. Looking' /\ Posted'
  BY <1>0, <1>2, <1>4, <1>5, <1>6, <1>7, <1>t DEF Looking, Posted, Shaped, Compared
<1>11. Looked'
  BY <1>0, <1>2, <1>4, <1>5, <1>t DEF Looked, Past, OfThis
<1>12. Held'
  BY <1>0, <1>2, <1>4, <1>5, <1>6, <1>7, <1>t DEF Held, Past
<1>13. Seen'
  BY <1>0, <1>5, <1>6, <1>7, <1>t DEF Seen, Pending, r
<1> QED BY <1>8, <1>9, <1>10, <1>11, <1>12, <1>13 DEF IInv

\* CDROM_MEDIA_CHANGED is read and cleared.
LEMMA WorkerQueryKeeps == IInv /\ WorkerQuery => IInv'
<1> SUFFICES ASSUME IInv, WorkerQuery PROVE IInv'
  OBVIOUS
<1>0. /\ worker.at = "query" /\ worker # NoWorker
      /\ UNCHANGED <<disc, isMenu, setting, file, pc, pollActive, handled, loaded,
                     retry, absent, active, running, ready, result, launched, ours, lost,
                     overlapped, unheard>>
  BY AtIs DEF WorkerQuery, mains, shared, history
<1>t. TypeOK /\ Mine /\ Ordered /\ Looking /\ Posted /\ Looked /\ Held /\ Seen
  BY DEF IInv
<1> DEFINE r == worker.res
<1>1. r \in Results /\ worker \in Workers /\ changed \in BOOLEAN
  BY <1>0, <1>t, WorkerIs DEF TypeOK
<1>2. ~r.cleared /\ ~r.mine /\ ~r.known /\ ~r.absent /\ ~r.classified /\ ~r.changed /\ r.present
  BY <1>0, <1>t DEF Looking
<1>c. Current <=> ~r.old
  BY <1>0, <1>t DEF Current, Mine
<1>3. CASE ~Current
  <2>1. worker' = [worker EXCEPT !.at = "post"] /\ changed' = changed
    BY <1>3 DEF WorkerQuery
  <2>2. /\ worker' \in Workers /\ worker'.at = "post" /\ worker'.handled = worker.handled
        /\ worker'.res = r
    BY <1>1, <2>1 DEF Workers
  <2>3. worker' # NoWorker
    BY <2>2, Records
  <2> HIDE DEF r
  <2>4. TypeOK' /\ Mine' /\ Ordered'
    BY <1>0, <1>t, <2>1, <2>2, <2>3 DEF TypeOK, Mine, Ordered, r
  <2>5. Looking' /\ Posted'
    BY <1>0, <1>2, <1>t, <2>1, <2>2, <2>3 DEF Looking, Posted, Shaped, Compared
  <2>6. Looked' /\ Held'
    BY <1>0, <1>2, <1>3, <1>c, <1>t, <2>1, <2>2, <2>3 DEF Looked, Held, Past, OfThis
  <2>7. Seen'
    BY <1>0, <1>2, <1>t, <2>1, <2>2, <2>3 DEF Seen, Pending, r
  <2> QED BY <2>4, <2>5, <2>6, <2>7 DEF IInv
<1>4. CASE Current
  <2>0. changed' = FALSE
    BY <1>4 DEF WorkerQuery
  <2> DEFINE here == disc # NoDisc
             m == worker.handled # None /\ changed
  <2>1. PICK at \in {"post", "read"}, k \in BOOLEAN, p \in Prints :
          /\ worker' = [worker EXCEPT !.at = at,
                          !.res = [r EXCEPT !.known = k, !.classified = k, !.print = p,
                                            !.changed = m, !.mine = here, !.cleared = changed]]
          /\ k <=> at = "post"
          /\ k => p = worker.handled
          /\ k <=> Known
    <3>0. r.print \in Prints /\ worker.handled \in Prints
      BY <1>1 DEF Results, Workers
    <3>1. CASE Known
      <4>1. worker' = [worker EXCEPT !.at = "post", !.res.known = TRUE,
                           !.res.classified = TRUE, !.res.print = worker.handled,
                           !.res.mine = (disc # NoDisc), !.res.cleared = changed]
        BY <1>4, <3>1 DEF WorkerQuery
      <4>2. m = FALSE /\ r.changed = m
        BY <3>1, <1>1, <1>2 DEF Known, Results
      <4>3. worker' = [worker EXCEPT !.at = "post",
                          !.res = [r EXCEPT !.known = TRUE, !.classified = TRUE,
                                            !.print = worker.handled,
                                            !.changed = m, !.mine = here, !.cleared = changed]]
        <5> DEFINE r2 == [r EXCEPT !.known = TRUE, !.classified = TRUE, !.print = worker.handled,
                                   !.mine = here, !.cleared = changed]
        <5>1. worker' = [worker EXCEPT !.at = "post", !.res = r2]
          BY <4>1
        <5>2. r2 = [r EXCEPT !.known = TRUE, !.classified = TRUE, !.print = worker.handled,
                             !.changed = m, !.mine = here, !.cleared = changed]
          <6> HIDE DEF m, here
          <6> QED BY <1>1, <4>2 DEF Results
        <5> HIDE DEF r2
        <5> QED BY <5>1, <5>2
      <4> HIDE DEF m, here, r
      <4> QED BY <3>0, <3>1, <4>3
    <3>2. CASE ~Known
      <4>1. worker' = [worker EXCEPT !.at = "read",
                           !.res.changed = (worker.handled # None /\ changed),
                           !.res.mine = (disc # NoDisc), !.res.cleared = changed]
        BY <1>4, <3>2 DEF WorkerQuery
      <4>2. r.known = FALSE /\ r.classified = FALSE
        BY <1>1, <1>2 DEF Results
      <4>3. worker' = [worker EXCEPT !.at = "read",
                          !.res = [r EXCEPT !.known = FALSE, !.classified = FALSE,
                                            !.print = r.print,
                                            !.changed = m, !.mine = here, !.cleared = changed]]
        <5> DEFINE r2 == [r EXCEPT !.changed = m, !.mine = here, !.cleared = changed]
        <5>1. worker' = [worker EXCEPT !.at = "read", !.res = r2]
          BY <4>1
        <5>2. r2 = [r EXCEPT !.known = FALSE, !.classified = FALSE, !.print = r.print,
                             !.changed = m, !.mine = here, !.cleared = changed]
          <6> HIDE DEF m, here
          <6> QED BY <1>1, <4>2 DEF Results
        <5> HIDE DEF r2
        <5> QED BY <5>1, <5>2
      <4> HIDE DEF m, here, r
      <4> QED BY <3>0, <3>2, <4>3
    <3> QED BY <3>1, <3>2
  <2>2. here \in BOOLEAN /\ m \in BOOLEAN
    BY <1>1
  <2> HIDE DEF m, here
  <2> DEFINE r2 == [r EXCEPT !.known = k, !.classified = k, !.print = p,
                             !.changed = m, !.mine = here, !.cleared = changed]
  <2>3. /\ r2 \in Results /\ r2.known = k /\ r2.classified = k /\ r2.print = p
        /\ r2.changed = m /\ r2.mine = here /\ r2.cleared = changed
        /\ r2.old = r.old /\ r2.present = r.present /\ r2.absent = r.absent
    <3>1. r2 \in Results
      BY <1>1, <2>2, ZenonT(30) DEF Results
    <3> QED BY <1>1, <3>1, ZenonT(30) DEF Results
  <2> HIDE DEF r2
  <2>4. worker' = [worker EXCEPT !.at = at, !.res = r2]
    BY <2>1 DEF r2
  <2>5. worker' \in Workers /\ worker'.at = at /\ worker'.handled = worker.handled /\ worker'.res = r2
    BY <1>1, <2>3, <2>4 DEF Workers
  <2>6. worker' # NoWorker
    BY <2>5, Records
  <2> HIDE DEF r
  <2>7. TypeOK'
    BY <1>0, <1>t, <2>0, <2>5, ZenonT(30) DEF TypeOK
  <2>8. Mine' /\ Ordered'
    BY <1>0, <1>t, <2>3, <2>5, <2>6 DEF Mine, Ordered, r
  <2>9. k => worker.handled # None /\ ~changed
    BY <2>1 DEF Known
  <2>10. Looking'
    BY <1>0, <1>1, <1>2, <1>t, <2>0, <2>1, <2>3, <2>5, <2>6, <2>9 DEF Looking, Shaped, Compared, m
  <2>11. Posted'
    BY <1>0, <1>t, <2>0 DEF Posted, Shaped, Ordered
  <2>12. Looked'
    BY <1>0, <1>t, <2>3, <2>5, <2>6 DEF Looked, OfThis, Past, Ordered, here
  <2>13. Held'
    <3> SUFFICES ASSUME launched, ~overlapped, ~unheard PROVE Held'
      BY <1>0 DEF Held
    <3>1. ~ready /\ worker.handled = handled /\ loaded /\ ~changed
      BY <1>0, <1>t DEF Ordered, Mine, Held
    <3>2. disc # NoDisc => k
      BY <2>1, <3>1, <1>t DEF Held, Known
    <3>3. ~r2.changed /\ (r2.mine => r2.known) /\ ~r2.absent
      BY <2>3, <3>1, <3>2, <1>2 DEF m, here
    <3> QED BY <1>0, <1>t, <2>0, <2>3, <2>5, <2>6, <3>1, <3>2, <3>3 DEF Held
  <2>14. Seen'
    <3> SUFFICES ASSUME ~lost, ~overlapped PROVE Seen'
      BY <1>0 DEF Seen
    <3>1. ~ready /\ worker.handled = handled
      BY <1>0, <1>t DEF Ordered
    <3>2. ~Pending
      BY <1>0, <1>2, <3>1 DEF Pending, r
    <3>3. disc # NoDisc /\ ~changed => ours \/ (handled = None /\ file = None)
      BY <1>t, <3>2 DEF Seen
    <3>4. Pending' <=> changed
      BY <1>0, <2>3, <2>5, <2>6, <3>1 DEF Pending
    <3> QED BY <1>0, <2>0, <2>3, <2>5, <2>6, <2>9, <3>1, <3>3, <3>4 DEF Seen, here
  <2> QED BY <2>7, <2>8, <2>10, <2>11, <2>12, <2>13, <2>14 DEF IInv
<1> QED BY <1>3, <1>4

\* A query that fails clears nothing, and the disc is read.
LEMMA WorkerQueryFailsKeeps == IInv /\ WorkerQueryFails => IInv'
<1> SUFFICES ASSUME IInv, WorkerQueryFails PROVE IInv'
  OBVIOUS
<1>0. /\ worker.at = "query" /\ worker # NoWorker /\ unheard' = TRUE
      /\ UNCHANGED <<disc, changed, isMenu, setting, file, pc, pollActive, handled, loaded,
                     retry, absent, active, running, ready, result, launched, ours, lost,
                     overlapped>>
  BY AtIs DEF WorkerQueryFails, drive, mains, shared
<1>t. TypeOK /\ Mine /\ Ordered /\ Looking /\ Posted /\ Looked /\ Held /\ Seen
  BY DEF IInv
<1> DEFINE r == worker.res
           here == disc # NoDisc
           r2 == [r EXCEPT !.mine = here]
<1>1. r \in Results /\ worker \in Workers
  BY <1>0, <1>t, WorkerIs
<1>2. ~r.cleared /\ ~r.mine /\ ~r.known /\ ~r.absent /\ ~r.classified /\ ~r.changed /\ r.present
  BY <1>0, <1>t DEF Looking
<1>3. worker' = [worker EXCEPT !.at = "read", !.res = r2]
  BY DEF WorkerQueryFails
<1>4. here \in BOOLEAN
  OBVIOUS
<1> HIDE DEF here
<1>5. /\ r2 \in Results /\ r2.known = r.known /\ r2.classified = r.classified
      /\ r2.changed = r.changed /\ r2.mine = here /\ r2.cleared = r.cleared
      /\ r2.old = r.old /\ r2.present = r.present /\ r2.absent = r.absent
  BY <1>1, <1>4 DEF Results
<1> HIDE DEF r2
<1>6. worker' \in Workers /\ worker'.at = "read" /\ worker'.handled = worker.handled /\ worker'.res = r2
  BY <1>1, <1>3, <1>5 DEF Workers
<1>7. worker' # NoWorker
  BY <1>6, Records
<1> HIDE DEF r
<1>8. TypeOK'
  BY <1>0, <1>t, <1>6, ZenonT(30) DEF TypeOK
<1>9. Mine' /\ Ordered'
  BY <1>0, <1>t, <1>5, <1>6, <1>7 DEF Mine, Ordered, r
<1>10. Looking' /\ Posted'
  BY <1>0, <1>2, <1>t, <1>5, <1>6, <1>7 DEF Looking, Posted, Shaped, Compared
<1>11. Looked'
  BY <1>0, <1>t, <1>5, <1>6, <1>7 DEF Looked, OfThis, Past, here
<1>12. Held'
  BY <1>0 DEF Held
<1>13. Seen'
  BY <1>0, <1>2, <1>t, <1>5, <1>6, <1>7 DEF Seen, Pending, r
<1> QED BY <1>8, <1>9, <1>10, <1>11, <1>12, <1>13 DEF IInv

\* The disc is read.
LEMMA WorkerReadKeeps == IInv /\ WorkerRead => IInv'
<1> SUFFICES ASSUME IInv, WorkerRead PROVE IInv'
  OBVIOUS
<1>0. /\ worker.at = "read" /\ worker # NoWorker
      /\ UNCHANGED <<disc, changed, isMenu, setting, file, pc, pollActive, handled, loaded,
                     retry, absent, active, running, ready, result, launched, ours, lost,
                     overlapped, unheard>>
  BY AtIs DEF WorkerRead, drive, mains, shared, history
<1>t. TypeOK /\ Mine /\ Ordered /\ Looking /\ Posted /\ Looked /\ Held /\ Seen
  BY DEF IInv
<1> DEFINE r == worker.res
<1>1. r \in Results /\ worker \in Workers
  BY <1>0, <1>t, WorkerIs
<1>2. PICK c \in BOOLEAN, p \in Prints :
        worker' = [worker EXCEPT !.at = "post", !.res = [r EXCEPT !.classified = c, !.print = p]]
  <2>1. CASE disc # NoDisc /\ worker' = [worker EXCEPT !.at = "post", !.res.classified = TRUE,
                                                       !.res.print = disc]
    <3>1. disc \in Prints
      BY <2>1, <1>t DEF TypeOK, Prints
    <3>2. worker' = [worker EXCEPT !.at = "post", !.res = [r EXCEPT !.classified = TRUE, !.print = disc]]
      BY <2>1
    <3> HIDE DEF r
    <3> QED BY <3>1, <3>2
  <2>2. CASE worker' = [worker EXCEPT !.at = "post"]
    <3>1. [r EXCEPT !.classified = r.classified, !.print = r.print] = r
          /\ r.classified \in BOOLEAN /\ r.print \in Prints
      BY <1>1 DEF Results
    <3>2. worker' = [worker EXCEPT !.at = "post", !.res = r]
      BY <2>2, <1>1 DEF Workers
    <3> HIDE DEF r
    <3> QED BY <3>1, <3>2
  <2> QED BY <2>1, <2>2 DEF WorkerRead
<1> DEFINE r2 == [r EXCEPT !.classified = c, !.print = p]
<1>3. /\ r2 \in Results /\ r2.known = r.known /\ r2.changed = r.changed /\ r2.mine = r.mine
      /\ r2.cleared = r.cleared /\ r2.old = r.old /\ r2.present = r.present /\ r2.absent = r.absent
  BY <1>1 DEF Results
<1> HIDE DEF r2
<1>4. worker' \in Workers /\ worker'.at = "post" /\ worker'.handled = worker.handled /\ worker'.res = r2
  BY <1>1, <1>2, <1>3 DEF Workers, r2
<1>5. worker' # NoWorker
  BY <1>4, Records
<1> HIDE DEF r
<1>6. ~r.known
  BY <1>0, <1>t DEF Looking, r
<1>7. TypeOK' /\ Mine' /\ Ordered'
  BY <1>0, <1>3, <1>4, <1>5, <1>t DEF TypeOK, Mine, Ordered, r
<1>8. Looking' /\ Posted'
  BY <1>0, <1>3, <1>4, <1>5, <1>6, <1>t DEF Looking, Posted, Shaped, Compared, r
<1>9. Looked'
  BY <1>0, <1>3, <1>4, <1>5, <1>t DEF Looked, Past, OfThis, r
<1>10. Held'
  BY <1>0, <1>3, <1>4, <1>5, <1>t DEF Held, Past, r
<1>11. Seen'
  BY <1>0, <1>3, <1>4, <1>5, <1>6, <1>t DEF Seen, Pending, r
<1> QED BY <1>7, <1>8, <1>9, <1>10, <1>11 DEF IInv

\* A current result is posted, another is lost.
LEMMA WorkerPostKeeps == IInv /\ WorkerPost => IInv'
<1> SUFFICES ASSUME IInv, WorkerPost PROVE IInv'
  OBVIOUS
<1>0. /\ worker.at = "post" /\ worker # NoWorker /\ worker' = NoWorker /\ running' = FALSE
      /\ UNCHANGED <<disc, changed, isMenu, setting, file, pc, pollActive, handled, loaded,
                     retry, absent, active, launched, ours, overlapped, unheard>>
  BY AtIs DEF WorkerPost, Ends, drive, mains
<1>t. TypeOK /\ Mine /\ Ordered /\ Looking /\ Posted /\ Looked /\ Held /\ Seen
  BY DEF IInv
<1>1. worker.res \in Results /\ worker \in Workers
  BY <1>0, <1>t, WorkerIs
<1>2. CASE Current
  <2>1. ready' = TRUE /\ result' = worker.res /\ lost' = lost
    BY <1>2 DEF WorkerPost, PostsCurrent
  <2>2. ~worker.res.old
    BY <1>2 DEF Current
  <2>3. TypeOK'
    BY <1>0, <1>1, <1>t, <2>1 DEF TypeOK
  <2>4. Mine' /\ Ordered'
    BY <1>0, <1>t, <2>1 DEF Mine, Ordered
  <2>5. Looking' /\ Posted'
    BY <1>0, <1>t, <2>1 DEF Looking, Posted, Shaped, Compared, Ordered
  <2>6. Looked'
    BY <1>0, <1>t, <2>1, <2>2 DEF Looked, Past, OfThis
  <2>7. Held'
    BY <1>0, <1>t, <2>1, <2>2 DEF Held, Past, Ordered
  <2>8. Seen'
    BY <1>0, <1>t, <2>1 DEF Seen, Pending, Ordered
  <2> QED BY <2>3, <2>4, <2>5, <2>6, <2>7, <2>8 DEF IInv
<1>3. CASE ~Current
  <2>1. lost' = (lost \/ worker.res.cleared) /\ ready' = ready /\ result' = result
    BY <1>0, <1>3 DEF WorkerPost, PostsCurrent, Holds
  <2>2. lost' \in BOOLEAN
    BY <1>1, <1>t, <2>1 DEF TypeOK, Results
  <2>3. TypeOK' /\ Mine' /\ Ordered'
    BY <1>0, <1>t, <2>1, <2>2, ZenonT(30) DEF TypeOK, Mine, Ordered
  <2>4. Looking' /\ Posted'
    BY <1>0, <1>t, <2>1 DEF Looking, Posted, Shaped, Compared
  <2>5. Looked' /\ Held'
    BY <1>0, <1>t, <2>1 DEF Looked, Past, OfThis, Held
  <2>6. Seen'
    BY <1>0, <1>t, <2>1 DEF Seen, Pending
  <2> QED BY <2>3, <2>4, <2>5, <2>6 DEF IInv
<1> QED BY <1>2, <1>3

-----------------------------------------------------------------------------
(* The poll of Main *)

\* A change of whether the autorun is active makes what is under way out of date.
LEMMA PollActivateKeeps == IInv /\ PollActivate => IInv'
<1> SUFFICES ASSUME IInv, PollActivate PROVE IInv'
  OBVIOUS
<1>0. /\ pc = "idle" /\ pc' \in {"idle", "take"} /\ (pc' = "take" => Wanted) /\ pollActive' = Wanted
      /\ UNCHANGED <<disc, changed, isMenu, setting, file, retry, running, launched, ours, overlapped, unheard>>
  BY DEF PollActivate, drive
<1>t. TypeOK /\ Mine /\ Ordered /\ Looking /\ Posted /\ Looked /\ Held /\ Seen
  BY DEF IInv
<1>w. Wanted \in BOOLEAN
  BY <1>t DEF TypeOK, Wanted
<1>1. CASE pollActive = Wanted
  <2>1. UNCHANGED <<handled, loaded, absent, active, ready, result, worker, lost>>
    BY <1>1 DEF PollActivate
  <2>2. TypeOK'
    BY <1>0, <1>w, <1>t, <2>1 DEF TypeOK
  <2>3. Mine' /\ Ordered'
    BY <1>0, <1>1, <1>t, <2>1 DEF Mine, Ordered
  <2>4. Looking' /\ Posted'
    BY <1>0, <1>t, <2>1 DEF Looking, Posted, Shaped, Compared
  <2>5. Looked' /\ Held' /\ Seen'
    BY <1>0, <1>t, <2>1 DEF Looked, Past, OfThis, Held, Seen, Pending
  <2> QED BY <2>2, <2>3, <2>4, <2>5 DEF IInv
<1>2. CASE pollActive # Wanted
  <2>1. /\ GenerationMoves
        /\ active' = Wanted /\ ready' = FALSE /\ result' = Blank
        /\ lost' = (lost \/ (ready /\ result.cleared))
        /\ loaded' = (loaded \/ Wanted)
        /\ handled' = IF Wanted /\ ~loaded THEN file ELSE handled
        /\ absent' = IF Wanted THEN absent ELSE 0
    BY <1>2 DEF PollActivate
  <2>2. worker = NoWorker => worker' = NoWorker
    BY <2>1 DEF GenerationMoves
  <2>3. ASSUME worker # NoWorker
        PROVE  /\ worker' \in Workers /\ worker'.at = worker.at /\ worker'.handled = worker.handled
               /\ worker'.res = [worker.res EXCEPT !.old = TRUE]
               /\ worker'.res \in Results
    <3>1. worker' = [worker EXCEPT !.res = [worker.res EXCEPT !.old = TRUE]]
      BY <2>1, <2>3 DEF GenerationMoves
    <3>2. worker.res \in Results /\ worker \in Workers
      BY <2>3, <1>t, WorkerIs
    <3>3. [worker.res EXCEPT !.old = TRUE] \in Results
      BY <3>2 DEF Results
    <3> QED BY <3>1, <3>2, <3>3 DEF Workers
  <2>4. ASSUME worker # NoWorker
        PROVE  /\ worker'.res.mine = worker.res.mine /\ worker'.res.present = worker.res.present
               /\ worker'.res.absent = worker.res.absent /\ worker'.res.changed = worker.res.changed
               /\ worker'.res.known = worker.res.known /\ worker'.res.old
               /\ worker'.res.classified = worker.res.classified
               /\ worker'.res.print = worker.res.print /\ worker'.res.cleared = worker.res.cleared
    <3>1. worker.res \in Results
      BY <2>4, <1>t, WorkerIs
    <3>2. worker'.res = [worker.res EXCEPT !.old = TRUE]
      BY <2>3, <2>4
    <3> QED BY <3>1, <3>2 DEF Results
  <2>5. worker' # NoWorker <=> worker # NoWorker
    BY <2>2, <2>3, Records
  <2>6. worker # NoWorker => loaded /\ handled' = handled
    BY <1>t, <2>1 DEF Mine
  <2>7. TypeOK'
    <3>1. lost' \in BOOLEAN
      BY <1>t, <2>1 DEF TypeOK, Results
    <3>2. handled' \in Prints /\ absent' \in 0 .. 2
      BY <1>t, <2>1 DEF TypeOK
    <3>3. worker' \in Workers \cup {NoWorker}
      BY <2>2, <2>3
    <3>4. result' \in Results
      BY <2>1, Records
    <3>5. pc' \in {"idle", "take", "start", "launch"} /\ loaded' \in BOOLEAN
          /\ active' \in BOOLEAN /\ pollActive' \in BOOLEAN /\ ready' \in BOOLEAN
      BY <1>0, <1>w, <1>t, <2>1 DEF TypeOK
    <3> QED BY <1>0, <1>t, <3>1, <3>2, <3>3, <3>4, <3>5 DEF TypeOK
  <2>8. Mine'
    <3>1. loaded' => file' \in {handled', None}
      BY <1>0, <1>t, <2>1 DEF Mine
    <3>2. ~loaded' => handled' = None
      BY <1>t, <2>1 DEF Mine
    <3>3. active' = pollActive' /\ (pc' # "idle" => active')
          /\ (active' \/ ready' \/ worker' # NoWorker => loaded')
      BY <1>0, <2>1, <2>5, <2>6
    <3>4. worker' # NoWorker => running'
      BY <1>0, <1>t, <2>5 DEF Mine
    <3> QED BY <2>4, <2>5, <3>1, <3>2, <3>3, <3>4 DEF Mine
  <2>9. Ordered'
    BY <1>0, <1>t, <2>1, <2>3, <2>5, <2>6 DEF Ordered
  <2>10. Looking' /\ Posted'
    BY <1>0, <1>t, <2>1, <2>3, <2>4, <2>5 DEF Looking, Posted, Shaped, Compared
  <2>11. Looked'
    BY <2>1, <2>4, <2>5 DEF Looked, Past
  <2>12. Held'
    <3> SUFFICES ASSUME launched, ~overlapped, ~unheard PROVE Held'
      BY <1>0 DEF Held
    <3>1. /\ ~changed /\ (disc # NoDisc => file # None /\ (loaded => handled # None))
          /\ worker # NoWorker =>
               /\ ~worker.res.changed
               /\ worker.res.mine => worker.res.known
               /\ disc # NoDisc => ~worker.res.absent
      BY <1>t DEF Held
    <3>2. disc # NoDisc => file' # None /\ (loaded' => handled' # None)
      BY <1>0, <1>t, <2>1, <3>1 DEF Mine
    <3> QED BY <1>0, <2>1, <2>4, <2>5, <3>1, <3>2 DEF Held, Past
  <2>13. Seen'
    <3> SUFFICES ASSUME ~lost', ~overlapped PROVE Seen'
      BY <1>0 DEF Seen
    <3>1. ~lost /\ ~(ready /\ result.cleared)
      BY <2>1
    <3>2. Pending' <=> Pending
      BY <2>1, <2>4, <2>5, <3>1 DEF Pending
    <3>3. handled = None /\ file = None => handled' = None
      BY <2>1
    <3> QED BY <1>0, <1>t, <2>1, <2>4, <2>5, <3>1, <3>2, <3>3 DEF Seen
  <2> QED BY <2>7, <2>8, <2>9, <2>10, <2>11, <2>12, <2>13 DEF IInv
<1> QED BY <1>1, <1>2

\* What consuming a result makes of the fingerprints in Main and in the file.
LEMMA ConsumeIs ==
  ASSUME TypeOK, Consume
  PROVE  /\ pc' \in {"idle", "start", "launch"} /\ retry' \in 0 .. Retries /\ absent' \in 0 .. 2
         /\ handled' \in Prints /\ file' \in Prints /\ ours' \in BOOLEAN /\ lost' \in BOOLEAN
         /\ \/ ~result.present /\ UNCHANGED <<handled, file, ours, lost>>
            \/ result.absent /\ handled' = None /\ file' = None /\ UNCHANGED <<ours, lost>>
            \/ \E forgets \in BOOLEAN : Keep(forgets) /\ (ours => ours')
            \/ \E forgets \in BOOLEAN :
                 /\ result.present
                 /\ ~result.classified \/ result.print # Forgotten(handled, forgets)
                 /\ SaveFails(forgets) \/ \E print \in Prints : Saved(print)
         /\ pc' = "launch" =>
              /\ result.present /\ result.classified /\ ~result.known
              /\ result.print \in Launchable /\ Saved(result.print)
<1>1. /\ result \in Results /\ handled \in Prints /\ file \in Prints /\ ours \in BOOLEAN
      /\ lost \in BOOLEAN /\ retry \in 0 .. Retries /\ absent \in 0 .. 2
  BY DEF TypeOK
<1>2. /\ result.print \in Prints /\ result.mine \in BOOLEAN /\ result.known \in BOOLEAN
      /\ result.changed \in BOOLEAN
  BY <1>1 DEF Results
<1>3. None \in Prints /\ Unread \in Prints
      /\ \A f \in BOOLEAN : Forgotten(handled, f) \in Prints /\ Forgotten(file, f) \in Prints
  BY <1>1 DEF Forgotten, Prints
<1>4. ASSUME NEW f \in BOOLEAN, Keep(f)
      PROVE  handled' \in Prints /\ file' \in Prints /\ lost' \in BOOLEAN
  BY <1>1, <1>2, <1>3, <1>4 DEF Keep
<1>5. ASSUME NEW print \in Prints, Saved(print)
      PROVE  handled' \in Prints /\ file' \in Prints /\ ours' \in BOOLEAN /\ lost' \in BOOLEAN
  BY <1>1, <1>2, <1>5 DEF Saved
<1>6. ASSUME NEW f \in BOOLEAN, SaveFails(f)
      PROVE  handled' \in Prints /\ file' \in Prints /\ ours' \in BOOLEAN /\ lost' \in BOOLEAN
  BY <1>1, <1>2, <1>3, <1>6 DEF SaveFails
<1>7. 0 \in 0 .. Retries /\ 0 \in 0 .. 2 /\ 1 \in 0 .. 2 /\ 2 \in 0 .. 2
  BY CdAssumption
<1>8. CASE ConsumeAbsent
  <2>1. absent' \in {0, 1, 2} /\ retry' = 0 /\ pc' = "start" /\ UNCHANGED <<ours, lost>>
        /\ ~result.present
    BY <1>8 DEF ConsumeAbsent
  <2>2. \/ UNCHANGED <<handled, file>>
        \/ result.absent /\ handled' = None /\ file' = None
    BY <1>8 DEF ConsumeAbsent
  <2> QED BY <1>1, <1>3, <1>7, <2>1, <2>2
<1>9. CASE Consume /\ ~ConsumeAbsent
  <2>1. PICK f \in BOOLEAN :
          ConsumeUnread(f) \/ ConsumeKnown(f) \/ ConsumeIgnored(f) \/ ConsumeNew(f)
    BY <1>9 DEF Consume, Forgets
  <2>2. CASE ConsumeUnread(f)
    <3>1. CASE TriesAgain /\ retry' = retry + 1 /\ Keep(f) /\ pc' = "idle" /\ UNCHANGED ours
      <4>1. retry' \in 0 .. Retries
        BY <1>1, <3>1, CdAssumption DEF TriesAgain
      <4>2. absent' = 0
        BY <2>2 DEF ConsumeUnread
      <4> QED BY <1>1, <1>4, <1>7, <3>1, <4>1, <4>2
    <3>2. CASE retry' = 0 /\ Save(Unread, f) /\ pc' = "start"
      BY <1>3, <1>5, <1>6, <1>7, <2>2, <3>2 DEF ConsumeUnread, Save
    <3> QED BY <2>2, <3>1, <3>2 DEF ConsumeUnread
  <2>3. CASE ConsumeKnown(f)
    <3>1. /\ Keep(f) /\ ours' = (ours \/ (result.mine /\ ~result.known)) /\ pc' = "start"
          /\ absent' = 0 /\ retry' = 0
      BY <2>3 DEF ConsumeKnown, Identified
    <3>2. ours' \in BOOLEAN /\ (ours => ours')
      BY <1>1, <1>2, <3>1
    <3> QED BY <1>4, <1>7, <3>1, <3>2
  <2>4. CASE ConsumeIgnored(f)
    BY <1>2, <1>5, <1>6, <1>7, <2>4 DEF ConsumeIgnored, Identified, Save
  <2>5. CASE ConsumeNew(f)
    <3>1. CASE LaunchSaved /\ pc' = "launch"
      BY <1>2, <1>5, <1>7, <2>5, <3>1 DEF ConsumeNew, Identified, LaunchSaved
    <3>2. CASE SaveFails(f) /\ pc' = "idle"
      BY <1>6, <1>7, <2>5, <3>2 DEF ConsumeNew, Identified
    <3> QED BY <2>5, <3>1, <3>2 DEF ConsumeNew
  <2> QED BY <2>1, <2>2, <2>3, <2>4, <2>5
<1> QED BY <1>8, <1>9

\* A result is taken and consumed.
LEMMA PollTakeKeeps == IInv /\ PollTake => IInv'
<1> SUFFICES ASSUME IInv, PollTake PROVE IInv'
  OBVIOUS
<1>0. /\ pc = "take" /\ ready' = FALSE /\ result' = Blank
      /\ launched' = (launched \/ (pc' = "launch" /\ result.mine))
      /\ UNCHANGED <<disc, changed, isMenu, setting, loaded, pollActive, active, running, worker,
                     overlapped, unheard>>
  BY DEF PollTake, drive
<1>t. TypeOK /\ Mine /\ Ordered /\ Looking /\ Posted /\ Looked /\ Held /\ Seen
  BY DEF IInv
<1>l. loaded /\ active
  BY <1>0, <1>t DEF Mine
<1>p. result \in Results
  BY <1>t DEF TypeOK
<1>b. launched' \in BOOLEAN /\ result' \in Results
  BY <1>0, <1>t, <1>p, Records DEF TypeOK, Results
<1>1. CASE ~ready
  <2>1. pc' = "start" /\ UNCHANGED <<file, handled, retry, absent, ours, lost, launched>>
    BY <1>0, <1>1, <1>t DEF PollTake, TypeOK
  <2>2. TypeOK'
    <3>1. pc' \in {"idle", "take", "start", "launch"}
      BY <2>1
    <3> QED BY <1>0, <1>b, <1>t, <2>1, <3>1, ZenonT(30) DEF TypeOK
  <2>3. Mine' /\ Ordered'
    BY <1>0, <1>1, <1>l, <1>t, <2>1 DEF Mine, Ordered
  <2>4. Looking' /\ Posted'
    BY <1>0, <1>1, <1>t, <2>1 DEF Looking, Posted, Shaped, Compared
  <2>5. Looked' /\ Held' /\ Seen'
    BY <1>0, <1>1, <1>t, <2>1 DEF Looked, Past, OfThis, Held, Seen, Pending
  <2> QED BY <2>2, <2>3, <2>4, <2>5 DEF IInv
<1>2. CASE ready
  <2>0. Consume
    BY <1>2 DEF PollTake
  <2>1. /\ pc' \in {"idle", "start", "launch"} /\ retry' \in 0 .. Retries /\ absent' \in 0 .. 2
        /\ handled' \in Prints /\ file' \in Prints /\ ours' \in BOOLEAN /\ lost' \in BOOLEAN
        /\ \/ ~result.present /\ UNCHANGED <<handled, file, ours, lost>>
           \/ result.absent /\ handled' = None /\ file' = None /\ UNCHANGED <<ours, lost>>
           \/ \E forgets \in BOOLEAN : Keep(forgets) /\ (ours => ours')
           \/ \E forgets \in BOOLEAN :
                /\ result.present
                /\ ~result.classified \/ result.print # Forgotten(handled, forgets)
                /\ SaveFails(forgets) \/ \E print \in Prints : Saved(print)
        /\ pc' = "launch" =>
             /\ result.present /\ result.classified /\ ~result.known
             /\ result.print \in Launchable /\ Saved(result.print)
    BY <1>t, <2>0, ConsumeIs
  <2>2. ~overlapped => worker = NoWorker
    BY <1>2, <1>t DEF Ordered
  <2>3. TypeOK'
    <3>1. pc' \in {"idle", "take", "start", "launch"}
      BY <2>1
    <3>2. /\ retry' \in 0 .. Retries /\ absent' \in 0 .. 2
          /\ handled' \in Prints /\ file' \in Prints /\ ours' \in BOOLEAN /\ lost' \in BOOLEAN
      BY <2>1
    <3>3. TypeOK
      BY <1>t
    <3> QED BY <1>0, <1>b, <3>1, <3>2, <3>3, ZenonT(30) DEF TypeOK
  <2>4. file' \in {handled', None}
    <3>1. file \in {handled, None}
      BY <1>l, <1>t DEF Mine
    <3>2. \A f \in BOOLEAN : Forgotten(file, f) \in {Forgotten(handled, f), None}
      BY <3>1 DEF Forgotten
    <3> QED BY <2>1, <3>1, <3>2 DEF Keep, Saved, SaveFails
  <2>5. Mine' /\ Ordered'
    BY <1>0, <1>l, <1>t, <2>2, <2>4 DEF Mine, Ordered
  <2>6. Looking' /\ Posted'
    BY <1>0, <1>t DEF Looking, Posted, Shaped, Compared
  <2>7. Looked'
    BY <1>0, <1>t DEF Looked, Past, OfThis
  <2>8. Held'
    <3> SUFFICES ASSUME launched', ~overlapped, ~unheard PROVE Held'
      BY <1>0 DEF Held
    <3>1. worker' = NoWorker /\ ~ready'
      BY <1>0, <2>2
    <3>2. CASE launched
      <4>1. /\ ~changed /\ ~result.changed
            /\ disc # NoDisc => /\ file # None /\ handled # None /\ ~result.absent
                                /\ result.present => result.known
        BY <1>2, <1>l, <3>2, <1>t DEF Held
      <4>2. ASSUME disc # NoDisc PROVE file' # None /\ handled' # None
        <5>1. result.present => result.classified /\ result.print = handled
          BY <1>2, <1>t, <4>1, <4>2 DEF Posted, Shaped, Compared
        <5>2. \A f \in BOOLEAN : Forgotten(handled, f) = handled /\ Forgotten(file, f) = file
          BY <4>1 DEF Forgotten
        <5>3. UNCHANGED <<handled, file>> \/ \E f \in BOOLEAN : Keep(f)
          BY <2>1, <4>1, <4>2, <5>1, <5>2
        <5> QED BY <4>1, <4>2, <5>2, <5>3 DEF Keep
      <4> QED BY <1>0, <3>1, <4>1, <4>2 DEF Held
    <3>3. CASE ~launched
      <4>1. pc' = "launch" /\ result.mine
        BY <1>0, <3>3
      <4>2. ~changed /\ file' = result.print /\ handled' = result.print /\ result.print # None
        BY <1>2, <1>t, <2>1, <4>1, CdAssumption DEF Posted, Shaped, Saved
      <4> QED BY <1>0, <3>1, <4>2 DEF Held
    <3> QED BY <3>2, <3>3
  <2>9. Seen'
    <3> SUFFICES ASSUME ~lost', ~overlapped, disc # NoDisc, ~changed
                 PROVE  ours' \/ (handled' = None /\ file' = None)
      BY <1>0, <2>2 DEF Seen
    <3>l. ~lost
      BY <2>1 DEF Keep, SaveFails, Saved
    <3>1. /\ Shaped(result) /\ Compared(result, handled)
          /\ result.present => result.mine
      BY <1>2, <1>t DEF Posted, Looked, OfThis
    <3>2. ~result.cleared => ours \/ (handled = None /\ file = None)
      BY <1>t, <2>2, <3>l DEF Seen, Pending
    <3>3. result.known => ours
      BY <3>1, <3>2 DEF Shaped, Compared
    <3>4. handled = None => file = None
      BY <1>l, <1>t DEF Mine
    <3>5. ASSUME NEW f \in BOOLEAN, result.changed => f
          PROVE  (ours /\ ~result.changed) \/ (Forgotten(handled, f) = None /\ Forgotten(file, f) = None)
      BY <3>1, <3>2, <3>4, <3>5 DEF Forgotten, Shaped, Compared
    <3>6. ASSUME NEW f \in BOOLEAN, Keep(f), ours => ours'
          PROVE  ours' \/ (handled' = None /\ file' = None)
      <4>1. result.changed => f
        BY <3>6 DEF Keep
      <4> QED BY <3>5, <3>6, <4>1 DEF Keep
    <3>7. ASSUME NEW f \in BOOLEAN, SaveFails(f)
          PROVE  ours' \/ (handled' = None /\ file' = None)
      <4>1. result.changed => f
        BY <3>7 DEF SaveFails
      <4> QED BY <3>5, <3>7, <4>1 DEF SaveFails
    <3>8. ASSUME result.present, NEW print \in Prints, Saved(print) PROVE ours'
      BY <3>1, <3>3, <3>8 DEF Saved
    <3>9. CASE ~result.present /\ UNCHANGED <<handled, file, ours, lost>>
      BY <3>1, <3>2, <3>9 DEF Shaped
    <3> QED BY <2>1, <3>6, <3>7, <3>8, <3>9
  <2> QED BY <2>3, <2>5, <2>6, <2>7, <2>8, <2>9 DEF IInv
<1> QED BY <1>1, <1>2

\* A launch replaces the core, or does not.
LEMMA PollLaunchKeeps == IInv /\ PollLaunch => IInv'
<1> SUFFICES ASSUME IInv, PollLaunch PROVE IInv'
  OBVIOUS
<1>0. UNCHANGED <<disc, changed, setting, file, launched, ours, overlapped, unheard>>
  BY DEF PollLaunch, drive
<1>1. CASE isMenu' = FALSE /\ Restart
  BY <1>0, <1>1, RestartKeeps
<1>2. CASE pc' = "idle" /\ UNCHANGED <<isMenu, mains, shared, worker, lost>>
  <2>0. pc' = "idle" /\ UNCHANGED <<isMenu, pollActive, handled, loaded, retry, absent, active,
                                    running, ready, result, worker, lost>>
    BY <1>2 DEF mains, shared
  <2>1. TypeOK' /\ Mine' /\ Ordered'
    BY <1>0, <2>0 DEF IInv, TypeOK, Mine, Ordered
  <2>2. Looking' /\ Posted'
    BY <1>0, <2>0 DEF IInv, Looking, Posted, Shaped, Compared
  <2>3. Looked' /\ Held' /\ Seen'
    BY <1>0, <2>0 DEF IInv, Looked, Past, OfThis, Held, Seen, Pending
  <2> QED BY <2>1, <2>2, <2>3 DEF IInv
<1> QED BY <1>1, <1>2 DEF PollLaunch

\* A worker is started, where none runs.
LEMMA PollStartKeeps == IInv /\ PollStart => IInv'
<1> SUFFICES ASSUME IInv, PollStart PROVE IInv'
  OBVIOUS
<1>0. /\ pc = "start" /\ pc' = "idle"
      /\ UNCHANGED <<disc, changed, isMenu, setting, file, pollActive, handled, loaded, retry,
                     absent, active, ready, result, launched, ours, lost, unheard>>
  BY DEF PollStart, drive, mains
<1>t. TypeOK /\ Mine /\ Ordered /\ Looking /\ Posted /\ Looked /\ Held /\ Seen
  BY DEF IInv
<1>1. CASE UNCHANGED <<running, worker, overlapped>>
  <2>1. TypeOK' /\ Mine' /\ Ordered'
    BY <1>0, <1>1, <1>t DEF TypeOK, Mine, Ordered
  <2>2. Looking' /\ Posted'
    BY <1>0, <1>1, <1>t DEF Looking, Posted, Shaped, Compared
  <2>3. Looked' /\ Held' /\ Seen'
    BY <1>0, <1>1, <1>t DEF Looked, Past, OfThis, Held, Seen, Pending
  <2> QED BY <2>1, <2>2, <2>3 DEF IInv
<1>2. CASE /\ ~running /\ overlapped' = (overlapped \/ ready) /\ running' = TRUE
           /\ worker' = [at |-> "open", handled |-> handled, res |-> Blank]
  <2>1. worker' \in Workers /\ worker'.at = "open" /\ worker'.handled = handled /\ worker'.res = Blank
    BY <1>2, <1>t, Records DEF TypeOK, Workers
  <2>2. TypeOK'
    BY <1>0, <1>2, <1>t, <2>1 DEF TypeOK
  <2>3. Mine' /\ Ordered'
    BY <1>0, <1>2, <1>t, <2>1 DEF Mine, Ordered
  <2>4. Looking' /\ Posted'
    BY <1>0, <1>2, <1>t, <2>1, Records DEF Looking, Posted, Shaped, Compared
  <2>5. Looked'
    BY <1>0, <1>2, <1>t, <2>1 DEF Looked, Past, OfThis
  <2>6. Held'
    BY <1>0, <1>2, <1>t, <2>1, Records DEF Held, Past
  <2>7. Seen'
    <3> SUFFICES ASSUME ~lost, ~overlapped, ~ready PROVE Seen'
      BY <1>0, <1>2 DEF Seen
    <3>0. ~ready
      OBVIOUS
    <3>1. Pending' <=> FALSE
      BY <1>0, <2>1, Records DEF Pending
    <3>2. ASSUME disc # NoDisc, ~changed PROVE ours \/ (handled = None /\ file = None)
      <4>1. CASE ~Pending
        BY <1>t, <3>2, <4>1 DEF Seen
      <4>2. worker = NoWorker
        BY <1>2, <1>t DEF Mine
      <4> QED BY <3>0, <4>1, <4>2 DEF Pending
    <3> QED BY <1>0, <2>1, <3>1, <3>2, Records DEF Seen
  <2> QED BY <2>2, <2>3, <2>4, <2>5, <2>6, <2>7 DEF IInv
<1> QED BY <1>1, <1>2 DEF PollStart

-----------------------------------------------------------------------------
(* The specification *)

\* Every step keeps the inductive invariant.
LEMMA NextKeepsIInv == IInv /\ [Next]_vars => IInv'
<1> SUFFICES ASSUME IInv, [Next]_vars PROVE IInv'
  OBVIOUS
<1>1. CASE Poll
  BY <1>1, PollActivateKeeps, PollTakeKeeps, PollLaunchKeeps, PollStartKeeps DEF Poll
<1>2. CASE Worker
  BY <1>2, WorkerOpenKeeps, WorkerQueryKeeps, WorkerQueryFailsKeeps,
     WorkerReadKeeps, WorkerPostKeeps DEF Worker
<1>3. CASE User
  BY <1>3, EjectKeeps, InsertKeeps, SetSettingKeeps, LoadCoreKeeps DEF User
<1>4. CASE UNCHANGED vars
  <2>0. UNCHANGED <<disc, changed, isMenu, setting, file, pc, pollActive, handled, loaded, retry,
                    absent, active, running, ready, result, worker, launched, ours, lost,
                    overlapped, unheard>>
    BY <1>4 DEF vars, drive, mains, shared, history
  <2>1. TypeOK' /\ Mine' /\ Ordered'
    BY <2>0 DEF IInv, TypeOK, Mine, Ordered
  <2>2. Looking' /\ Posted'
    BY <2>0 DEF IInv, Looking, Posted, Shaped, Compared
  <2>3. Looked' /\ Held' /\ Seen'
    BY <2>0 DEF IInv, Looked, OfThis, Past, Held, Seen, Pending
  <2> QED BY <2>1, <2>2, <2>3 DEF IInv
<1> QED BY <1>1, <1>2, <1>3, <1>4 DEF Next

\* The inductive invariant holds throughout.
THEOREM SpecIInv == Spec => []IInv
<1>1. Init => IInv
  BY InitIInv
<1>2. IInv /\ [Next]_vars => IInv'
  BY NextKeepsIInv
<1> QED BY <1>1, <1>2, PTL DEF Spec

\* Every detection, in the worker or posted, is one; the retries and absences are
\* within their limits.
THEOREM SpecTypeOK == Spec => []TypeOK
<1>1. IInv => TypeOK
  BY DEF IInv
<1> QED BY <1>1, SpecIInv, PTL

\* A disc that was launched is not launched again while it stays in the drive, unless
\* detections overlapped or CDROM_MEDIA_CHANGED failed for it: Held says that every later
\* detection of it takes it for the handled one.
THEOREM SpecOncePerInsertion == Spec => OncePerInsertion
<1>1. IInv => (LaunchAgain => overlapped \/ unheard)
  <2> SUFFICES ASSUME IInv, LaunchAgain, ~overlapped, ~unheard PROVE FALSE
    OBVIOUS
  <2>1. PollTake /\ pc' = "launch" /\ launched /\ result.mine /\ TypeOK /\ Held
    BY DEF LaunchAgain, IInv
  <2>2. ready
    BY <2>1 DEF PollTake
  <2>3. ~result.known
    BY <2>1, <2>2, ConsumeIs DEF PollTake
  <2> QED BY <2>1, <2>2, <2>3 DEF Held
<1>2. IInv /\ [Next]_vars => [LaunchAgain => overlapped \/ unheard]_vars
  BY <1>1
<1> QED BY <1>2, SpecIInv, PTL DEF Spec, OncePerInsertion

\* A disc that is taken for the handled one without a read is the handled one, unless
\* the change of the medium was thrown away, Main could not forget, or detections
\* overlapped.
THEOREM SpecSwapIsSeenUnlessLost == Spec => SwapIsSeenUnlessLost
<1>1. IInv => (TakenForHandled => ours' \/ lost \/ overlapped)
  <2> SUFFICES ASSUME IInv, TakenForHandled, ~lost, ~overlapped PROVE ours'
    OBVIOUS
  <2>1. /\ PollTake /\ ready /\ result.known /\ result.mine
        /\ TypeOK /\ Posted /\ Seen
    BY DEF TakenForHandled, IInv
  <2>2. ours
    BY <2>1 DEF Seen
  <2>3. /\ Shaped(result) /\ Compared(result, handled)
    BY <2>1 DEF Posted, Shaped
  <2>4. result.present /\ result.classified /\ ~result.changed /\ ~result.absent
    BY <2>1, <2>3 DEF Shaped
  <2>5. \A f \in BOOLEAN : result.print = Forgotten(handled, f)
    BY <2>1, <2>3, <2>4 DEF Compared, Forgotten
  <2>6. Consume
    BY <2>1 DEF PollTake
  <2>7. ours => ours'
    BY <2>4, <2>5, <2>6, <2>1, ConsumeIs
  <2> QED BY <2>2, <2>7
<1>2. IInv /\ [Next]_vars => [TakenForHandled => ours' \/ lost \/ overlapped]_vars
  BY <1>1
<1> QED BY <1>2, SpecIInv, PTL DEF Spec, SwapIsSeenUnlessLost

-----------------------------------------------------------------------------
(***************************************************************************)
(* CoreWatchdog.                                                           *)
(*                                                                         *)
(* A deadline is taken modulo Wrap, so each of the two may be ahead of the *)
(* clock, passed, passed too early (set across the wrap) or missed (passed *)
(* before the wrap and ahead of the clock again).  Sooner bounds what is   *)
(* left of the wait in the first three cases; a missed deadline ends the   *)
(* count.                                                                  *)
(***************************************************************************)
Dog == INSTANCE CoreWatchdog

\* What the start before still has to wait is what the retry was armed with
Spacing ==
  /\ since.ticks < RetryMs => restart = now + (RetryMs - since.ticks)
  /\ since.least = RetryMs

\* A retry is armed after a check was, and never at the first tick of the clock,
\* since a check that is armed has not passed then
Armed ==
  /\ check = 0 => restart = 0 /\ late <= polled
  /\ restart # RetryMs

\* What counts as late is a service that died under an active frontend
LateIsStale == late > 0 => frontend /\ core.pid = "stale"

\* The check was armed across the wrap by the last poll, which found the retry
\* ahead or armed its first check
Across ==
  /\ now - polled + CheckMs >= Wrap
  /\ check = IF now - polled + CheckMs = Wrap THEN 1 ELSE now - polled + CheckMs - Wrap
  /\ restart > now - polled \/ (restart = 0 /\ late <= polled + Stall)

\* What is left of the wait: a retry that is ahead of the clock, and after it a check
RetryAhead == restart > now => late + (restart - now) < RetryMs + Stall

\* ... a check that is ahead, and the stall after it
CheckAhead ==
  restart <= now /\ check > now => late + (check - now) <= RetryMs + CheckMs + Stall - 2

\* ... the next poll
CheckPassed ==
  restart <= now /\ check <= now /\ check # 0 => late < polled + RetryMs + CheckMs + Stall - 2

\* A check that has passed, and was not looked at, has just passed
JustPassed == check <= now /\ check # 0 /\ late > polled => check > now - polled \/ Across

Sooner == RetryAhead /\ CheckAhead /\ CheckPassed /\ JustPassed

DogIInv ==
  /\ WatchdogTypeOK /\ Spacing /\ Armed /\ LateIsStale
  /\ late <= Bound
  /\ ~Dog!Missed => Sooner

-----------------------------------------------------------------------------
(* The clock *)

\* A remainder below the divisor is the number itself ...
LEMMA ModSmall == ASSUME NEW w \in Nat \ {0}, NEW x \in 0 .. w - 1 PROVE x % w = x
  OBVIOUS

\* ... and one turn less above it.
LEMMA ModOver == ASSUME NEW w \in Nat \ {0}, NEW x \in w .. 2 * w - 1 PROVE x % w = x - w
  OBVIOUS

\* What WatchdogAssumption says of the constants
LEMMA Periods ==
  /\ CheckMs \in Nat /\ RetryMs \in Nat /\ Stall \in Nat /\ Wrap \in Nat
  /\ 0 < CheckMs /\ CheckMs < RetryMs /\ 2 < RetryMs /\ 0 < Stall /\ Stall < RetryMs
  /\ Wrap > 2 * (RetryMs + CheckMs + 2 * Stall)
  BY WatchdogAssumption

\* A deadline is ahead of the clock, or lies past the wrap and is never 0.
LEMMA DeadlineIs ==
  ASSUME now \in Time, NEW ms \in {CheckMs, RetryMs}
  PROVE  Dog!Deadline(ms) = IF now + ms < Wrap THEN now + ms
                        ELSE IF now + ms = Wrap THEN 1 ELSE now + ms - Wrap
<1> USE Periods
<1>1. CASE now + ms < Wrap
  <2>1. (now + ms) % Wrap = now + ms
    BY <1>1, ModSmall DEF Time
  <2> QED BY <2>1, <1>1 DEF Dog!Deadline, Dog!GetTimer, Time
<1>2. CASE now + ms >= Wrap
  <2>1. (now + ms) % Wrap = now + ms - Wrap
    BY <1>2, ModOver DEF Time
  <2> QED BY <2>1, <1>2 DEF Dog!Deadline, Dog!GetTimer, Time
<1> QED BY <1>1, <1>2 DEF Time

\* A tick goes on, or around to 0.
LEMMA ClockTicks ==
  ASSUME now \in Time
  PROVE  (now + 1) % Wrap = IF now = Wrap - 1 THEN 0 ELSE now + 1
<1> USE Periods
<1>1. CASE now + 1 < Wrap
  BY <1>1, ModSmall DEF Time
<1>2. CASE now = Wrap - 1
  BY <1>2, ModOver DEF Time
<1> QED BY <1>1, <1>2 DEF Time

-----------------------------------------------------------------------------
(* The inductive invariant *)

\* A count that starts has the whole wait before it.
LEMMA FreshIsSoon == WatchdogTypeOK /\ late = 0 /\ ~Dog!Missed => Sooner
  BY Periods DEF WatchdogTypeOK, Dog!Missed, Sooner, RetryAhead, CheckAhead, CheckPassed, JustPassed, Time

\* A first Main has nothing armed and nothing late.
LEMMA DogInitIInv == Dog!Init => DogIInv
  BY Periods DEF Dog!Init, Dog!Time, DogIInv, WatchdogTypeOK, Time, Bound, Spacing, Armed, LateIsStale,
     Sooner, RetryAhead, CheckAhead, CheckPassed, JustPassed

\* A tick takes from what is left of the wait what it adds to the count; at the wrap
\* a deadline set across it is ahead again, or one is missed.
LEMMA TickKeeps == DogIInv /\ Dog!Tick => DogIInv'
<1> SUFFICES ASSUME DogIInv, Dog!Tick PROVE DogIInv'
  OBVIOUS
<1> USE Periods
<1>t. WatchdogTypeOK
  BY DEF DogIInv
<1>1. now' = IF now = Wrap - 1 THEN 0 ELSE now + 1
  BY <1>t, ClockTicks DEF Dog!Tick, WatchdogTypeOK
<1>2. WatchdogTypeOK'
  BY <1>t, <1>1 DEF WatchdogTypeOK, Dog!Tick, Dog!Bound, Time, Bound
<1>3. Spacing'
  <2>1. since'.ticks = (IF since.ticks < RetryMs THEN since.ticks + 1 ELSE since.ticks)
        /\ since'.least = since.least
    BY <1>t DEF WatchdogTypeOK, Dog!Tick
  <2> QED BY <1>t, <1>1, <2>1 DEF DogIInv, WatchdogTypeOK, Spacing, Dog!Tick, Time
<1>4. Armed' /\ LateIsStale'
  BY <1>t DEF DogIInv, WatchdogTypeOK, Armed, LateIsStale, Dog!Tick, Time
<1>5. CASE Dog!Missed \/ ~frontend \/ core.pid # "stale"
  <2>1. (late = 0)'
    BY <1>5, <1>t DEF DogIInv, WatchdogTypeOK, LateIsStale, Dog!Tick
  <2>2. ~Dog!Missed' => Sooner'
    BY <2>1, <1>2, FreshIsSoon, PTL
  <2> QED BY <2>1, <2>2, <1>2, <1>3, <1>4 DEF DogIInv, Bound
<1>6. CASE ~Dog!Missed /\ frontend /\ core.pid = "stale"
  <2>1. Sooner
    BY <1>6 DEF DogIInv
  <2>2. /\ late' = late + 1 /\ polled < Stall /\ polled' = polled + 1
        /\ check' = check /\ restart' = restart
    BY <1>6 DEF Dog!Tick, Dog!Bound, Bound, DogIInv
  <2>3. late' <= Bound
    BY <2>1, <2>2, <1>6, <1>t DEF DogIInv, WatchdogTypeOK, Time, Sooner, RetryAhead, CheckAhead,
         CheckPassed, Armed, Bound, Dog!Missed, Dog!Tick
  <2>4. CASE now = Wrap - 1
    <3> SUFFICES ASSUME ~Dog!Missed' PROVE Sooner'
      BY <2>3, <1>2, <1>3, <1>4 DEF DogIInv
    <3>1. RetryAhead'
      BY <2>1, <2>2, <2>4, <1>1, <1>6, <1>t DEF DogIInv, WatchdogTypeOK, Time, Sooner, Armed, Dog!Missed, RetryAhead, JustPassed, Across
    <3>2. CheckAhead'
      BY <2>1, <2>2, <2>4, <1>1, <1>6, <1>t DEF DogIInv, WatchdogTypeOK, Time, Sooner, Armed, Dog!Missed, RetryAhead, CheckAhead, JustPassed, Across
    <3>3. CheckPassed'
      BY <2>1, <2>2, <2>4, <1>1, <1>6, <1>t DEF DogIInv, WatchdogTypeOK, Time, Sooner, Armed, Dog!Missed, RetryAhead, CheckAhead, CheckPassed
    <3>4. JustPassed'
      BY <2>1, <2>2, <2>4, <1>1, <1>6, <1>t DEF DogIInv, WatchdogTypeOK, Time, Sooner, Armed, Dog!Missed, JustPassed, Across
    <3> QED BY <3>1, <3>2, <3>3, <3>4 DEF Sooner
  <2>5. CASE now # Wrap - 1
    <3> SUFFICES ASSUME ~Dog!Missed' PROVE Sooner'
      BY <2>3, <1>2, <1>3, <1>4 DEF DogIInv
    <3>1. RetryAhead'
      BY <2>1, <2>2, <2>5, <1>1, <1>6, <1>t DEF DogIInv, WatchdogTypeOK, Time, Sooner, Armed, Dog!Missed, RetryAhead, JustPassed, Across
    <3>2. CheckAhead'
      BY <2>1, <2>2, <2>5, <1>1, <1>6, <1>t DEF DogIInv, WatchdogTypeOK, Time, Sooner, Armed, Dog!Missed, RetryAhead, CheckAhead, JustPassed, Across
    <3>3. CheckPassed'
      BY <2>1, <2>2, <2>5, <1>1, <1>6, <1>t DEF DogIInv, WatchdogTypeOK, Time, Sooner, Armed, Dog!Missed, RetryAhead, CheckAhead, CheckPassed
    <3>4. JustPassed'
      BY <2>1, <2>2, <2>5, <1>1, <1>6, <1>t DEF DogIInv, WatchdogTypeOK, Time, Sooner, Armed, Dog!Missed, JustPassed, Across
    <3> QED BY <3>1, <3>2, <3>3, <3>4 DEF Sooner
  <2> QED BY <2>4, <2>5
<1> QED BY <1>5, <1>6

\* A step that ends the count has only types and the deadlines to keep.
LEMMA EndedCountKeeps ==
  ASSUME WatchdogTypeOK', Spacing', Armed', (late = 0)'
  PROVE  DogIInv'
<1>1. ~Dog!Missed' => Sooner'
  BY FreshIsSoon, PTL
<1> QED BY <1>1, Periods DEF DogIInv, LateIsStale, Bound

\* A start by the watchdog: the retry before has passed, so RetryMs have.
LEMMA EnsureKeeps ==
  ASSUME DogIInv, NEW works \in BOOLEAN, Dog!CheckTimer(restart), Dog!Ensure(works),
         now' = now, frontend' = frontend, polled' = 0, check' \in Time, check' # 0, now > 0
  PROVE  DogIInv'
<1> USE Periods
<1>t. WatchdogTypeOK
  BY DEF DogIInv
<1>1. restart' = IF now + RetryMs < Wrap THEN now + RetryMs
                 ELSE IF now + RetryMs = Wrap THEN 1 ELSE now + RetryMs - Wrap
  BY <1>t, DeadlineIs DEF Dog!Ensure, WatchdogTypeOK
<1>2. since.ticks = RetryMs /\ since.least = RetryMs
  BY <1>t DEF DogIInv, Spacing, Dog!CheckTimer, WatchdogTypeOK, Time
<1>3. since' = [ticks |-> IF now + RetryMs < Wrap THEN 0 ELSE RetryMs, least |-> RetryMs]
  BY <1>2 DEF Dog!Ensure, Dog!Counted
<1>4. core' \in [st : {"down", "starting", "up"}, pid : {"none", "live", "stale"}]
      /\ (core'.st = "up" <=> core'.pid = "live")
  BY <1>t DEF WatchdogTypeOK, Dog!Ensure, Dog!Ensured
<1>5. WatchdogTypeOK'
  BY <1>1, <1>3, <1>4, <1>t DEF WatchdogTypeOK, Dog!Ensure, Time, Bound
<1>6. Spacing' /\ Armed'
  BY <1>1, <1>3, <1>t DEF Spacing, Armed, WatchdogTypeOK, Time
<1> QED BY <1>5, <1>6, EndedCountKeeps DEF Dog!Ensure

\* A poll leaves the deadlines alone, or arms the next check and looks at the pid:
\* a live one ends the count, a dead one is started when the retry has passed.
LEMMA PollKeeps == ASSUME DogIInv, NEW works \in BOOLEAN, Dog!WatchdogPoll(works) PROVE DogIInv'
<1> USE Periods
<1>t. WatchdogTypeOK
  BY DEF DogIInv
<1>0. now' = now /\ frontend' = frontend /\ polled' = 0
  BY DEF Dog!WatchdogPoll
<1>1. CASE UNCHANGED <<check, restart, core, since, late>> /\ (~frontend \/ check > now)
  <2>1. WatchdogTypeOK' /\ Spacing' /\ LateIsStale'
    BY <1>0, <1>1, <1>t DEF DogIInv, WatchdogTypeOK, Spacing, LateIsStale
  <2>2. Armed'
    BY <1>0, <1>1, <1>t DEF DogIInv, WatchdogTypeOK, Armed, LateIsStale, Time
  <2>3. CASE late = 0
    BY <2>1, <2>2, <2>3, <1>1, EndedCountKeeps
  <2>4. CASE late # 0
    <3>1. check > now
      BY <2>4, <1>1, <1>t DEF DogIInv, LateIsStale, WatchdogTypeOK
    <3>2. ~Dog!Missed' => Sooner'
      BY <3>1, <1>0, <1>1, <1>t DEF DogIInv, WatchdogTypeOK, Time, Dog!Missed, Sooner, RetryAhead,
           CheckAhead, CheckPassed, JustPassed
    <3> QED BY <3>2, <2>1, <2>2, <1>1, <1>t DEF DogIInv, Bound
  <2> QED BY <2>3, <2>4
<1>2. CASE frontend /\ (check = 0 \/ Dog!CheckTimer(check))
  <2>0. check <= now
    BY <1>2, <1>t DEF Dog!CheckTimer, WatchdogTypeOK, Time
  <2>1. check' = IF now + CheckMs < Wrap THEN now + CheckMs
                 ELSE IF now + CheckMs = Wrap THEN 1 ELSE now + CheckMs - Wrap
    BY <1>2, <1>t, DeadlineIs DEF Dog!WatchdogPoll, WatchdogTypeOK, Dog!CheckTimer
  <2>2. check' \in Time /\ check' # 0
    BY <2>1, <1>t DEF WatchdogTypeOK, Time
  <2>3. CASE UNCHANGED <<restart, core, since, late>> /\ (late = 0 \/ check = 0 \/ restart > now)
    <3>1. WatchdogTypeOK' /\ Spacing' /\ LateIsStale' /\ Armed'
      BY <1>0, <2>2, <2>3, <1>t DEF DogIInv, WatchdogTypeOK, Spacing, LateIsStale, Armed
    <3>2. CASE late = 0
      BY <3>1, <3>2, <2>3, EndedCountKeeps
    <3>3. CASE late # 0 /\ ~Dog!Missed'
      <4>1. RetryAhead'
        BY <3>3, <1>0, <2>0, <2>1, <2>3, <1>t
        DEF DogIInv, WatchdogTypeOK, Time, Dog!Missed, Sooner, RetryAhead, Armed
      <4>2. CheckAhead' /\ CheckPassed'
        BY <3>3, <1>0, <2>1, <2>3, <1>t
        DEF DogIInv, WatchdogTypeOK, Time, CheckAhead, CheckPassed, Armed
      <4>3. JustPassed'
        BY <3>3, <1>0, <2>1, <2>3, <1>t
        DEF DogIInv, WatchdogTypeOK, Time, JustPassed, Across, Armed
      <4> QED BY <4>1, <4>2, <4>3, <3>1, <2>3 DEF DogIInv, Sooner, Bound
    <3> QED BY <3>2, <3>3, <3>1, <2>3 DEF DogIInv, Bound
  <2>4. CASE check # 0 /\ core.pid = "live" /\ Dog!Look(works)
    <3>1. restart' = 0 /\ since' = [ticks |-> RetryMs, least |-> RetryMs] /\ late' = 0 /\ core' = core
      BY <2>4, <1>t DEF Dog!Look, Dog!Free, DogIInv, Spacing, WatchdogTypeOK
    <3>2. WatchdogTypeOK' /\ Spacing' /\ Armed'
      BY <3>1, <1>0, <2>2, <1>t DEF WatchdogTypeOK, Spacing, Armed, Time, Bound
    <3> QED BY <3>1, <3>2, EndedCountKeeps
  <2>5. CASE check # 0 /\ core.pid # "live" /\ Dog!CheckTimer(restart) /\ Dog!Look(works)
    <3>1. now > 0
      BY <1>2, <2>5, <1>t DEF Dog!CheckTimer, WatchdogTypeOK, Time
    <3>2. Dog!Ensure(works)
      BY <2>5 DEF Dog!Look
    <3> QED BY <3>1, <3>2, <2>5, <2>2, <1>0, EnsureKeeps
  <2>6. check = 0 \/ core.pid = "none" \/ ~Dog!CheckTimer(restart) =>
        late = 0 \/ check = 0 \/ restart > now
    BY <1>t DEF DogIInv, LateIsStale, Dog!CheckTimer, WatchdogTypeOK, Time
  <2> QED BY <2>3, <2>4, <2>5, <2>6, <1>2 DEF Dog!WatchdogPoll, Dog!Look
<1>3. ~frontend \/ (check # 0 /\ ~Dog!CheckTimer(check)) => ~frontend \/ check > now
  BY <1>t DEF Dog!CheckTimer, WatchdogTypeOK, Time
<1> QED BY <1>1, <1>2, <1>3 DEF Dog!WatchdogPoll

\* Every other step ends the count, and a new Main has nothing armed.
LEMMA OthersKeep ==
  ASSUME DogIInv, (\E works \in BOOLEAN : Dog!Reexec(works)) \/ Dog!SetActive \/ Dog!ServiceStarts \/ Dog!ServiceEnds
  PROVE  DogIInv'
<1> USE Periods
<1>t. WatchdogTypeOK
  BY DEF DogIInv
<1>1. ASSUME NEW works \in BOOLEAN, Dog!Reexec(works) PROVE DogIInv'
  <2>1. since' = [ticks |-> RetryMs, least |-> RetryMs]
    BY <1>1, <1>t DEF Dog!Reexec, Dog!Free, DogIInv, Spacing, WatchdogTypeOK
  <2>2. core' \in [st : {"down", "starting", "up"}, pid : {"none", "live", "stale"}]
        /\ (core'.st = "up" <=> core'.pid = "live")
    BY <1>1, <1>t DEF WatchdogTypeOK, Dog!Reexec, Dog!Ensured
  <2>3. WatchdogTypeOK' /\ Spacing' /\ Armed'
    BY <1>1, <2>1, <2>2, <1>t DEF Dog!Reexec, WatchdogTypeOK, Spacing, Armed, Time, Bound
  <2> QED BY <1>1, <2>3, EndedCountKeeps DEF Dog!Reexec
<1>2. CASE Dog!SetActive \/ Dog!ServiceStarts \/ Dog!ServiceEnds
  <2>1. WatchdogTypeOK'
    <3>1. CASE Dog!SetActive
      BY <3>1, <1>t DEF WatchdogTypeOK, Dog!SetActive, Bound
    <3>2. CASE Dog!ServiceStarts
      BY <3>2, <1>t DEF WatchdogTypeOK, Dog!ServiceStarts, Bound
    <3>3. CASE Dog!ServiceEnds
      BY <3>3, <1>t DEF WatchdogTypeOK, Dog!ServiceEnds, Bound
    <3> QED BY <1>2, <3>1, <3>2, <3>3
  <2>2. Spacing' /\ Armed' /\ late' = 0
    BY <1>2, <1>t DEF DogIInv, WatchdogTypeOK, Spacing, Armed, Dog!SetActive, Dog!ServiceStarts, Dog!ServiceEnds
  <2> QED BY <2>1, <2>2, EndedCountKeeps
<1> QED BY <1>1, <1>2

\* Every step keeps the inductive invariant.
THEOREM DogNextKeepsIInv == DogIInv /\ [Dog!Next]_(Dog!vars) => DogIInv'
<1> SUFFICES ASSUME DogIInv, [Dog!Next]_(Dog!vars) PROVE DogIInv'
  OBVIOUS
<1>1. CASE Dog!Next
  BY <1>1, TickKeeps, PollKeeps, OthersKeep DEF Dog!Next
<1>2. CASE UNCHANGED Dog!vars
  BY <1>2 DEF Dog!vars, DogIInv, WatchdogTypeOK, Spacing, Armed, LateIsStale, Dog!Missed, Sooner, RetryAhead,
     CheckAhead, CheckPassed, JustPassed, Across
<1> QED BY <1>1, <1>2

\* The inductive invariant holds throughout.
THEOREM DogSpecIInv == Dog!Spec => []DogIInv
  BY DogInitIInv, DogNextKeepsIInv, PTL DEF Dog!Spec

-----------------------------------------------------------------------------
(* The invariants of the run *)

\* Every deadline is a time of the clock, and core.pid names a live process only
\* when the service is up.
THEOREM SpecWatchdogTypeOK == Dog!Spec => []WatchdogTypeOK
<1>1. DogIInv => WatchdogTypeOK
  BY DEF DogIInv
<1> QED BY <1>1, DogSpecIInv, PTL

\* A service that keeps failing is started by the watchdog once in RetryMs.
THEOREM SpecRestartsAreSpaced == Dog!Spec => []RestartsAreSpaced
<1>1. DogIInv => RestartsAreSpaced
  BY DEF DogIInv, Spacing, RestartsAreSpaced
<1> QED BY <1>1, DogSpecIInv, PTL

\* A service that died is started again within Bound ticks, on a clock of any
\* length and from any deadlines left over from earlier rounds.
THEOREM SpecBackSoon == Dog!Spec => []BackSoon
<1>1. DogIInv => BackSoon
  BY DEF DogIInv, BackSoon
<1> QED BY <1>1, DogSpecIInv, PTL
=============================================================================
