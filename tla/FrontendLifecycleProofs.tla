----------------------- MODULE FrontendLifecycleProofs -----------------------
(***************************************************************************)
(* Proofs that the invariants of FrontendLifecycle hold for every set of   *)
(* process ids and every combination of faults.                            *)
(*                                                                         *)
(* The statics change in functions of alt_launcher.cpp that are composed   *)
(* (stop, then queue a start; reap, then give up): each function gets a    *)
(* lemma that it keeps StaticsOK, and the proof that a step keeps IInv     *)
(* cites them.                                                             *)
(***************************************************************************)
EXTENDS FrontendLifecycle, TLAPS

\* What the statics alone satisfy
StaticsOK(t) == t \in Statics /\ OneStartIn(t) /\ GivenUpIn(t)

\* A Main that has just been executed has no frontend yet
BootIsClean == booting => s.pid = NoPid

\* The inductive invariant
IInv == TypeOK /\ OneStart /\ GivenUpStaysDown /\ OneFrontend /\ BootIsClean

-----------------------------------------------------------------------------
(* The functions of alt_launcher.cpp keep StaticsOK *)

\* A count starts at zero, below the limit.
LEMMA ZeroStrikes == 0 \in Strikes
  BY DEF Strikes, CrashLimit

\* Whether a start may be held black is a Boolean.
LEMMA BlackType == Black \in BOOLEAN
  BY LifecycleAssumption, Zenon DEF Black

\* alt_launcher_init queues a start only when there is no frontend, no start and
\* no give-up, and takes over from an armed respawn timer.
LEMMA InitIfOK ==
  ASSUME NEW t, StaticsOK(t), NEW e
  PROVE  StaticsOK(InitIf(t, e)) /\ InitIf(t, e).pid = t.pid
<1> DEFINE u == [t EXCEPT !.crashes = 0, !.respawn = FALSE, !.tty = FALSE,
                          !.pending = TRUE, !.black = Black]
<1>1. u \in Statics /\ u.pid = t.pid
  BY ZeroStrikes, BlackType, ZenonT(30) DEF StaticsOK, Statics
<1>2. ASSUME t.pid = NoPid, ~t.gaveUp
      PROVE  OneStartIn(u) /\ GivenUpIn(u)
  BY <1>2, Zenon DEF StaticsOK, Statics, OneStartIn, GivenUpIn
<1>3. InitIf(t, e) = t \/ (InitIf(t, e) = u /\ t.pid = NoPid /\ ~t.gaveUp)
  BY Zenon DEF InitIf
<1> QED BY <1>1, <1>2, <1>3, Zenon DEF StaticsOK

\* stop_launcher leaves nothing running, queued or given up.
LEMMA StopAllOK ==
  ASSUME NEW t, StaticsOK(t), NEW r \in BOOLEAN
  PROVE  StaticsOK(StopAll(t, r)) /\ StopAll(t, r).pid = NoPid
<1>1. ASSUME NEW b \in BOOLEAN
      PROVE  [t EXCEPT !.pid = NoPid, !.ready = FALSE, !.black = b,
                       !.reassert = FALSE, !.respawn = FALSE, !.tty = FALSE,
                       !.pending = FALSE, !.crashes = 0, !.gaveUp = FALSE,
                       !.escaped = FALSE, !.resume = FALSE] \in Statics
  BY ZeroStrikes, ZenonT(30) DEF StaticsOK, Statics
<1>2. StopAll(t, r) \in Statics
  <2> DEFINE b == r /\ t.black
  <2>1. b \in BOOLEAN
    BY Zenon
  <2> HIDE DEF b
  <2>2. [t EXCEPT !.pid = NoPid, !.ready = FALSE, !.black = b,
                  !.reassert = FALSE, !.respawn = FALSE, !.tty = FALSE,
                  !.pending = FALSE, !.crashes = 0, !.gaveUp = FALSE,
                  !.escaped = FALSE, !.resume = FALSE] \in Statics
    BY <1>1, <2>1
  <2> QED BY <2>2, Zenon DEF StopAll, b
<1>3. OneStartIn(StopAll(t, r)) /\ GivenUpIn(StopAll(t, r)) /\ StopAll(t, r).pid = NoPid
  BY Zenon DEF StopAll, StaticsOK, Statics, OneStartIn, GivenUpIn
<1> QED BY <1>2, <1>3, Zenon DEF StaticsOK

\* reset_launcher_state likewise.
LEMMA ResetStateOK ==
  ASSUME NEW t, StaticsOK(t)
  PROVE  StaticsOK(ResetState(t)) /\ ResetState(t).pid = NoPid
<1>1. ResetState(t) \in Statics
  BY ZeroStrikes, ZenonT(30) DEF ResetState, StaticsOK, Statics
<1>2. OneStartIn(ResetState(t)) /\ GivenUpIn(ResetState(t)) /\ ResetState(t).pid = NoPid
  BY Zenon DEF ResetState, StaticsOK, Statics, OneStartIn, GivenUpIn
<1> QED BY <1>1, <1>2, Zenon DEF StaticsOK

\* The statics of a fresh process.
LEMMA FreshOK ==
  ASSUME binary \in BOOLEAN
  PROVE  StaticsOK(Fresh) /\ Fresh.pid = NoPid
<1>1. Fresh \in Statics
  BY ZeroStrikes, Zenon DEF Fresh, Statics
<1>2. OneStartIn(Fresh) /\ GivenUpIn(Fresh) /\ Fresh.pid = NoPid
  BY Zenon DEF Fresh, OneStartIn, GivenUpIn
<1> QED BY <1>1, <1>2, Zenon DEF StaticsOK

\* alt_launcher_prepare_for_script leaves no frontend.
LEMMA PrepareOK ==
  ASSUME NEW t, StaticsOK(t)
  PROVE  StaticsOK(Prepare(t)) /\ Prepare(t).pid = NoPid
<1>1. CASE t.pid = NoPid
  <2> DEFINE u == [t EXCEPT !.script = TRUE]
  <2>1. u \in Statics /\ OneStartIn(u) /\ GivenUpIn(u) /\ u.pid = NoPid
    BY <1>1, Zenon DEF StaticsOK, Statics, OneStartIn, GivenUpIn
  <2>2. Prepare(t) = u
    BY <1>1, Zenon DEF Prepare
  <2> QED BY <2>1, <2>2, Zenon DEF StaticsOK
<1>2. CASE t.pid # NoPid
  <2> DEFINE u == [Stopped(t) EXCEPT !.resume = TRUE, !.respawn = FALSE, !.tty = FALSE,
                            !.crashes = 0, !.pending = FALSE, !.gaveUp = FALSE,
                            !.black = FALSE, !.reassert = FALSE,
                            !.script = TRUE]
  <2>1. Stopped(t) \in Statics /\ Stopped(t).pid = NoPid /\ ~Stopped(t).escaped
    BY <1>2, Zenon DEF Stopped, StaticsOK, Statics, GivenUpIn
  <2>2. u \in Statics
    BY <2>1, ZeroStrikes, ZenonT(30) DEF Statics
  <2>3. OneStartIn(u) /\ GivenUpIn(u) /\ u.pid = NoPid
    BY <2>1, Zenon DEF Statics, OneStartIn, GivenUpIn
  <2>4. Prepare(t) = u
    BY <1>2, Zenon DEF Prepare
  <2> QED BY <2>2, <2>3, <2>4, Zenon DEF StaticsOK
<1> QED BY <1>1, <1>2

\* alt_launcher_resume_after_script keeps the frontend that may be there.
LEMMA ResumeOK ==
  ASSUME NEW t, StaticsOK(t)
  PROVE  StaticsOK(Resume(t)) /\ Resume(t).pid = t.pid
<1> DEFINE u == [t EXCEPT !.script = FALSE, !.resume = FALSE, !.gaveUp = FALSE,
                          !.escaped = FALSE]
           v == [t EXCEPT !.script = FALSE]
<1>1. StaticsOK(u) /\ u.pid = t.pid
  BY Zenon DEF StaticsOK, Statics, OneStartIn, GivenUpIn
<1>2. StaticsOK(v) /\ v.pid = t.pid
  BY Zenon DEF StaticsOK, Statics, OneStartIn, GivenUpIn
<1>3. StaticsOK(InitIf(u, enabled)) /\ InitIf(u, enabled).pid = u.pid
  BY <1>1, InitIfOK
<1>4. Resume(t) = InitIf(u, enabled) \/ Resume(t) = v
  BY Zenon DEF Resume
<1> QED BY <1>1, <1>2, <1>3, <1>4, Zenon

\* What a reaping pass leaves: no frontend, nothing queued, nothing given up.
LEMMA ReapedOK ==
  ASSUME NEW t, StaticsOK(t), t.pid # NoPid
  PROVE  /\ StaticsOK(Reaped(t))
         /\ Reaped(t).pid = NoPid /\ ~Reaped(t).pending /\ ~Reaped(t).respawn
         /\ ~Reaped(t).gaveUp /\ ~Reaped(t).escaped
         /\ Reaped(t).crashes = t.crashes
<1>1. Reaped(t) \in Statics
  BY Zenon DEF Reaped, StaticsOK, Statics
<1>2. /\ Reaped(t).pid = NoPid /\ ~Reaped(t).pending /\ ~Reaped(t).respawn
      /\ ~Reaped(t).gaveUp /\ ~Reaped(t).escaped
      /\ Reaped(t).crashes = t.crashes
  BY Zenon DEF Reaped, StaticsOK, Statics, OneStartIn, GivenUpIn
<1> QED BY <1>1, <1>2, Zenon DEF StaticsOK, OneStartIn, GivenUpIn

\* return_to_normal_mode after a reap.
LEMMA NormalModeOK ==
  ASSUME NEW t, StaticsOK(t), t.pid = NoPid, ~t.pending, NEW esc \in BOOLEAN
  PROVE  StaticsOK(NormalMode(t, esc)) /\ NormalMode(t, esc).pid = NoPid
<1>1. NormalMode(t, esc) \in Statics
  BY ZeroStrikes, Zenon DEF NormalMode, StaticsOK, Statics
<1>2. /\ OneStartIn(NormalMode(t, esc)) /\ GivenUpIn(NormalMode(t, esc))
      /\ NormalMode(t, esc).pid = NoPid
  BY Zenon DEF NormalMode, StaticsOK, Statics, OneStartIn, GivenUpIn
<1> QED BY <1>1, <1>2, Zenon DEF StaticsOK

-----------------------------------------------------------------------------
(* What a step that stops or starts a child leaves *)

\* What every step leaves of the statics and the processes.
Owned ==
  /\ StaticsOK(s)
  /\ proc \in [Pid -> ProcState]
  /\ OneFrontend

\* IInv in the terms of these lemmas.
LEMMA OwnedOfIInv == IInv => Owned
  BY Zenon DEF IInv, Owned, TypeOK, OneStart, GivenUpStaysDown, StaticsOK

\* A successful stop leaves no child of this Main.
LEMMA StopSucceedsOK ==
  ASSUME Owned, StopSucceeds
  PROVE  proc' \in [Pid -> ProcState] /\ \A p \in Pid : proc'[p] \notin Own
<1>1. CASE s.pid = NoPid
  BY <1>1, LifecycleAssumption, Zenon DEF Owned, OneFrontend, StopSucceeds
<1>2. CASE s.pid # NoPid
  <2>1. proc' = [proc EXCEPT ![s.pid] = "none"]
    BY <1>2, Zenon DEF StopSucceeds
  <2>2. "none" \in ProcState /\ "none" \notin Own
    BY DEF ProcState, Own
  <2>3. proc' \in [Pid -> ProcState]
    BY <2>1, <2>2, Zenon DEF Owned
  <2>4. ASSUME NEW p \in Pid PROVE proc'[p] \notin Own
    BY <2>1, <2>2, Zenon DEF Owned, OneFrontend
  <2> QED BY <2>3, <2>4
<1> QED BY <1>1, <1>2

\* A stop that timed out leaves Main the owner of its child.
LEMMA StopTimesOutOK ==
  ASSUME Owned, StopTimesOut
  PROVE  proc' \in [Pid -> ProcState] /\ \A p \in Pid : proc'[p] \in Own => p = s.pid
<1>1. proc' = proc \/ proc' = [proc EXCEPT ![s.pid] = "dying"]
  BY Zenon DEF StopTimesOut
<1>2. "dying" \in ProcState
  BY DEF ProcState, Own
<1> QED BY <1>1, <1>2, Zenon DEF Owned, OneFrontend

\* A sweep touches only the frontends of an earlier Main.
LEMMA SweepOK ==
  ASSUME Owned, NEW t, Sweep(t)
  PROVE  proc' \in [Pid -> ProcState] /\ \A p \in Pid : proc'[p] \in Own => p = s.pid
<1>1. "none" \in ProcState /\ "none" \notin Own
  BY DEF ProcState, Own
<1>2. CASE proc' = proc
  BY <1>2, Zenon DEF Owned, OneFrontend
<1>3. ASSUME NEW left,
             proc' = [p \in Pid |-> IF proc[p] = "orphan" /\ p \notin left
                                      THEN "none" ELSE proc[p]]
      PROVE  proc' \in [Pid -> ProcState] /\ \A p \in Pid : proc'[p] \in Own => p = s.pid
  <2>1. ASSUME NEW p \in Pid
        PROVE  proc'[p] = "none" \/ proc'[p] = proc[p]
    BY <1>3, <2>1, Zenon
  <2> QED BY <1>1, <1>3, <2>1, Zenon DEF Owned, OneFrontend
<1> QED BY <1>2, <1>3, Zenon DEF Sweep

\* Stop and queue a start: nothing is left but the start, or everything is as it was.
LEMMA RestartOK ==
  ASSUME Owned, NEW t, StaticsOK(t), t.pid = s.pid, NEW e, Restart(t, e)
  PROVE  Owned'
<1>1. CASE StopSucceeds /\ s' = InitIf(StopAll(t, TRUE), e)
  <2>1. StaticsOK(StopAll(t, TRUE)) /\ StopAll(t, TRUE).pid = NoPid
    BY StopAllOK
  <2>2. StaticsOK(s')
    BY <1>1, <2>1, InitIfOK
  <2> QED BY <1>1, <2>2, StopSucceedsOK, Zenon DEF Owned, OneFrontend
<1>2. CASE StopTimesOut /\ s' = t
  BY <1>2, StopTimesOutOK, Zenon DEF Owned, OneFrontend
<1> QED BY <1>1, <1>2 DEF Restart

\* spawn makes one child where there was none.
LEMMA SpawnOK ==
  ASSUME Owned, edid \in BOOLEAN, s.pid = NoPid,
         NEW t, t \in Statics, t.pid = NoPid, Spawn(t),
         ~t.pending, ~t.respawn, ~t.gaveUp, ~t.escaped
  PROVE  Owned'
<1> DEFINE b == [t EXCEPT !.black = Black, !.ready = FALSE, !.hadEdid = edid]
<1>1. /\ b \in Statics /\ b.pid = NoPid
      /\ ~b.pending /\ ~b.respawn /\ ~b.gaveUp /\ ~b.escaped
  BY BlackType, ZenonT(30) DEF Statics
<1> HIDE DEF b
<1>2. ASSUME NEW p \in Pid, proc[p] = "none", proc' = [proc EXCEPT ![p] = "run"],
             s' = [b EXCEPT !.pid = p, !.tty = TRUE]
      PROVE  Owned'
  <2>1. s' \in Statics /\ s'.pid = p
    BY <1>1, <1>2, Zenon DEF Statics
  <2>2. ~s'.pending /\ ~s'.respawn /\ ~s'.gaveUp /\ ~s'.escaped
    BY <1>1, <1>2, Zenon DEF Statics
  <2>3. StaticsOK(s')
    BY <2>1, <2>2, Zenon DEF StaticsOK, OneStartIn, GivenUpIn
  <2>4. "run" \in ProcState
    BY DEF ProcState, Own
  <2>5. \A q \in Pid : proc[q] \notin Own
    BY LifecycleAssumption, Zenon DEF Owned, OneFrontend
  <2>6. proc' \in [Pid -> ProcState]
    BY <1>2, <2>4, Zenon DEF Owned
  <2>7. \A q \in Pid : proc'[q] \in Own => q = s'.pid
    BY <1>2, <2>1, <2>5, Zenon DEF Owned
  <2> QED BY <2>3, <2>6, <2>7, Zenon DEF Owned, OneFrontend
<1>3. ASSUME s' = [b EXCEPT !.black = FALSE], proc' = proc
      PROVE  Owned'
  <2>1. s' \in Statics /\ s'.pid = NoPid
    BY <1>1, <1>3, Zenon DEF Statics
  <2>2. ~s'.pending /\ ~s'.respawn /\ ~s'.gaveUp /\ ~s'.escaped
    BY <1>1, <1>3, Zenon DEF Statics
  <2>3. StaticsOK(s')
    BY <2>1, <2>2, Zenon DEF StaticsOK, OneStartIn, GivenUpIn
  <2> QED BY <1>3, <2>1, <2>3, Zenon DEF Owned, OneFrontend
<1> QED BY <1>2, <1>3, Zenon DEF Spawn, b

-----------------------------------------------------------------------------
(* IInv is inductive *)

\* The rest of IInv: the types of the other variables, and BootIsClean.
Rest ==
  /\ enabled \in BOOLEAN /\ binary \in BOOLEAN /\ edid \in BOOLEAN
  /\ core \in Cores
  /\ booting \in BOOLEAN
  /\ pc \in {"idle", "acquire", "finalize"}
  /\ ui \in {"pages", "running", "ended", "lost"}
  /\ BootIsClean

\* The invariant in the two halves the lemmas keep.
LEMMA IInvParts == IInv <=> Owned /\ Rest
  BY Zenon DEF IInv, Owned, Rest, TypeOK, OneStart, GivenUpStaysDown, StaticsOK

\* The program starts with clean statics and no process.
THEOREM InitIInv == Init => IInv
<1> SUFFICES ASSUME Init PROVE Owned /\ Rest
  BY IInvParts
<1>1. StaticsOK(s) /\ s.pid = NoPid
  BY FreshOK, Zenon DEF Init
<1>2. "none" \in ProcState /\ "none" \notin Own
  BY DEF ProcState, Own
<1>3. Owned
  BY <1>1, <1>2, Zenon DEF Init, Owned, OneFrontend
<1>4. Rest
  BY <1>1, Zenon DEF Init, Rest, BootIsClean
<1> QED BY <1>3, <1>4

\* A reaped child is gone; s' is what the handler makes of the statics it leaves.
LEMMA ReapStep ==
  ASSUME Owned, Rest, NEW how, Reap(how), StaticsOK(s'), s'.pid = NoPid
  PROVE  Owned' /\ Rest'
<1>1. "none" \in ProcState /\ "none" \notin Own
  BY DEF ProcState, Own
<1>2. proc' \in [Pid -> ProcState] /\ \A p \in Pid : proc'[p] \notin Own
  BY <1>1, Zenon DEF Owned, OneFrontend, Reap
<1> QED BY <1>2, Zenon DEF Owned, OneFrontend, Rest, BootIsClean, Reap, Idle

\* A frontend that exited to be started again.
LEMMA PollReloadStep ==
  ASSUME Owned, Rest, PollReload
  PROVE  Owned' /\ Rest'
<1> DEFINE u == [Reaped(s) EXCEPT !.respawn = FALSE, !.crashes = 0]
<1>1. /\ StaticsOK(Reaped(s)) /\ Reaped(s).pid = NoPid /\ ~Reaped(s).pending
      /\ ~Reaped(s).gaveUp /\ ~Reaped(s).escaped
  BY ReapedOK, Zenon DEF Owned, PollReload, Reap
<1>2. StaticsOK(u) /\ u.pid = NoPid
  BY <1>1, ZeroStrikes, Zenon DEF StaticsOK, Statics, OneStartIn, GivenUpIn
<1>3. StaticsOK(s') /\ s'.pid = NoPid
  BY <1>2, InitIfOK, Zenon DEF PollReload
<1> QED BY <1>3, ReapStep DEF PollReload

\* A frontend the user left.
LEMMA PollEscapeStep ==
  ASSUME Owned, Rest, PollEscape
  PROVE  Owned' /\ Rest'
<1>1. StaticsOK(Reaped(s)) /\ Reaped(s).pid = NoPid /\ ~Reaped(s).pending
  BY ReapedOK, Zenon DEF Owned, PollEscape, Reap
<1>2. StaticsOK(s') /\ s'.pid = NoPid
  BY <1>1, NormalModeOK, Zenon DEF PollEscape
<1> QED BY <1>2, ReapStep DEF PollEscape

\* The count of crashes stays below the limit: at the limit Main gives up.
LEMMA PollCrashStep ==
  ASSUME Owned, Rest, NEW stable \in BOOLEAN, PollCrash(stable)
  PROVE  Owned' /\ Rest'
<1> DEFINE strikes == IF stable THEN 1 ELSE s.crashes + 1
<1>1. /\ StaticsOK(Reaped(s)) /\ Reaped(s).pid = NoPid /\ ~Reaped(s).pending
      /\ ~Reaped(s).gaveUp /\ ~Reaped(s).escaped
  BY ReapedOK, Zenon DEF Owned, PollCrash, Reap
<1>2. s.crashes \in Strikes
  BY Zenon DEF Owned, StaticsOK, Statics
<1>3. strikes >= CrashLimit \/ strikes \in Strikes
  BY <1>2 DEF Strikes, CrashLimit
<1> HIDE DEF strikes
<1>4. CASE s' = NormalMode(Reaped(s), FALSE)
  <2>1. StaticsOK(s') /\ s'.pid = NoPid
    BY <1>1, <1>4, NormalModeOK
  <2> QED BY <2>1, ReapStep DEF PollCrash
<1>5. CASE /\ strikes \in Strikes
           /\ s' = [Reaped(s) EXCEPT !.crashes = strikes, !.respawn = TRUE,
                                     !.black = Black]
  <2>1. s' \in Statics
    BY <1>1, <1>5, BlackType, Zenon DEF StaticsOK, Statics
  <2>2. /\ s'.pid = NoPid /\ ~s'.pending /\ ~s'.gaveUp /\ ~s'.escaped
    BY <1>1, <1>5, Zenon DEF StaticsOK, Statics
  <2>3. StaticsOK(s')
    BY <2>1, <2>2, Zenon DEF StaticsOK, OneStartIn, GivenUpIn
  <2> QED BY <2>2, <2>3, ReapStep DEF PollCrash
<1> QED BY <1>3, <1>4, <1>5, Zenon DEF PollCrash, strikes

\* A queued start.
LEMMA PollSpawnStep ==
  ASSUME Owned, Rest, PollSpawn
  PROVE  Owned' /\ Rest'
<1> DEFINE t == [s EXCEPT !.pending = FALSE]
<1>1. /\ t \in Statics /\ t.pid = NoPid
      /\ ~t.pending /\ ~t.respawn /\ ~t.gaveUp /\ ~t.escaped
  BY Zenon DEF Owned, StaticsOK, Statics, OneStartIn, GivenUpIn, PollSpawn, Configured
<1>2. Owned'
  BY <1>1, SpawnOK, Zenon DEF PollSpawn, Rest
<1> QED BY <1>2, Zenon DEF PollSpawn, Rest, BootIsClean, Idle

\* A respawn that falls due.
LEMMA PollRespawnStep ==
  ASSUME Owned, Rest, PollRespawn
  PROVE  Owned' /\ Rest'
<1> DEFINE t == [s EXCEPT !.respawn = FALSE]
<1>1. /\ t \in Statics /\ t.pid = NoPid
      /\ ~t.pending /\ ~t.respawn /\ ~t.gaveUp /\ ~t.escaped
  BY Zenon DEF Owned, StaticsOK, Statics, OneStartIn, GivenUpIn, PollRespawn, Configured
<1>2. Owned'
  BY <1>1, SpawnOK, Zenon DEF PollRespawn, Rest
<1> QED BY <1>2, Zenon DEF PollRespawn, Rest, BootIsClean, Idle

\* A step of the poll cothread keeps IInv.
LEMMA PollKeeps ==
  ASSUME Owned, Rest, Poll
  PROVE  Owned' /\ Rest'
<1>1. CASE PollReload BY <1>1, PollReloadStep
<1>2. CASE PollEscape BY <1>2, PollEscapeStep
<1>3. ASSUME NEW stable \in BOOLEAN, PollCrash(stable) PROVE Owned' /\ Rest'
  BY <1>3, PollCrashStep
<1>4. CASE PollSpawn BY <1>4, PollSpawnStep
<1>5. CASE PollRespawn BY <1>5, PollRespawnStep
<1>6. CASE PollLateEdid
  <2>1. Owned'
    BY <1>6, RestartOK, Zenon DEF PollLateEdid, Owned
  <2> QED BY <1>6, <2>1, Zenon DEF PollLateEdid, Rest, BootIsClean, Idle
<1>7. CASE PollFinalize
  <2>1. StaticsOK(s') /\ s'.pid = s.pid
    BY <1>7, Zenon DEF PollFinalize, Owned, StaticsOK, Statics, OneStartIn, GivenUpIn
  <2> QED BY <1>7, <2>1, Zenon DEF PollFinalize, Owned, OneFrontend, Rest, BootIsClean, Idle
<1>8. CASE FinalizeDone
  <2>1. StaticsOK(s') /\ s'.pid = s.pid
    BY <1>8, Zenon DEF FinalizeDone, Owned, StaticsOK, Statics, OneStartIn, GivenUpIn
  <2> QED BY <1>8, <2>1, Zenon DEF FinalizeDone, Owned, OneFrontend, Rest, BootIsClean
<1>9. CASE PollScreen
  <2>1. \/ s' = [s EXCEPT !.reassert = FALSE]
        \/ s' = [s EXCEPT !.black = FALSE]
        \/ s' = [s EXCEPT !.ready = FALSE]
    BY <1>9, Zenon DEF PollScreen
  <2>2. StaticsOK(s') /\ s'.pid = s.pid
    BY <2>1, ZenonT(30) DEF Owned, StaticsOK, Statics, OneStartIn, GivenUpIn
  <2> QED BY <1>9, <2>2, Zenon DEF PollScreen, Owned, OneFrontend, Rest, BootIsClean, Idle
<1> QED BY <1>1, <1>2, <1>3, <1>4, <1>5, <1>6, <1>7, <1>8, <1>9, Zenon DEF Poll

\* alt_launcher_set_enabled keeps IInv, from the FIFO and from the OSD.
LEMMA SetEnabledStep ==
  ASSUME Owned, Rest, ~booting, NEW b \in BOOLEAN, SetEnabled(b)
  PROVE  Owned' /\ Rest'
<1> DEFINE t == [s EXCEPT !.installed = binary]
           R == b /\ binary /\ core = "launcher"
<1>1. StaticsOK(t) /\ t.pid = s.pid
  BY Zenon DEF Owned, Rest, StaticsOK, Statics, OneStartIn, GivenUpIn
<1>2. R \in BOOLEAN
  BY Zenon
<1> HIDE DEF t, R
<1>3. CASE s' = [t EXCEPT !.resume = R] /\ proc' = proc
  <2>1. StaticsOK(s') /\ s'.pid = t.pid
    BY <1>1, <1>2, <1>3, Zenon DEF StaticsOK, Statics, OneStartIn, GivenUpIn
  <2> QED BY <1>1, <1>3, <2>1, Zenon DEF SetEnabled, Owned, OneFrontend, Rest, BootIsClean
<1>4. CASE StopSucceeds /\ s' = StopAll(t, FALSE)
  <2>1. StaticsOK(s')
    BY <1>1, <1>4, StopAllOK
  <2> QED BY <1>4, <2>1, StopSucceedsOK, Zenon
          DEF SetEnabled, Owned, OneFrontend, Rest, BootIsClean
<1>5. CASE StopTimesOut /\ s' = t
  BY <1>1, <1>5, StopTimesOutOK, Zenon
     DEF SetEnabled, Owned, OneFrontend, Rest, BootIsClean
<1>6. CASE Restart(t, b)
  <2>1. Owned'
    BY <1>1, <1>6, RestartOK
  <2> QED BY <2>1, Zenon DEF SetEnabled, Rest, BootIsClean
<1>7. CASE s' = t /\ proc' = proc
  BY <1>1, <1>7, Zenon DEF SetEnabled, Owned, OneFrontend, Rest, BootIsClean
<1> QED BY <1>3, <1>4, <1>5, <1>6, <1>7, Zenon DEF SetEnabled, t, R

\* A command from the FIFO keeps IInv.
LEMMA CommandKeeps ==
  ASSUME Owned, Rest, Command
  PROVE  Owned' /\ Rest'
<1>1. CASE CmdSetEnabled
  BY <1>1, SetEnabledStep DEF CmdSetEnabled, Idle
<1>2. CASE CmdAcquire
  <2>1. Rest'
    BY <1>2, PrepareOK, Zenon DEF CmdAcquire, Rest, BootIsClean, Idle
  <2>2. CASE StopSucceeds /\ s' = Prepare(s)
    <3>1. StaticsOK(s')
      BY <2>2, PrepareOK DEF Owned
    <3> QED BY <2>1, <2>2, <3>1, StopSucceedsOK, Zenon DEF Owned, OneFrontend
  <2>3. CASE StopTimesOut /\ s' = s
    BY <2>1, <2>3, StopTimesOutOK, Zenon DEF Owned, OneFrontend
  <2> QED BY <1>2, <2>2, <2>3, Zenon DEF CmdAcquire
<1>3. CASE AcquireDone
  <2>1. StaticsOK([s EXCEPT !.lease = TRUE]) /\ [s EXCEPT !.lease = TRUE].pid = s.pid
    BY Zenon DEF Owned, StaticsOK, Statics, OneStartIn, GivenUpIn
  <2>2. StaticsOK(Resume(s)) /\ Resume(s).pid = s.pid
    BY ResumeOK DEF Owned
  <2>3. StaticsOK(s') /\ s'.pid = s.pid
    BY <1>3, <2>1, <2>2, Zenon DEF AcquireDone
  <2> QED BY <1>3, <2>3, Zenon DEF AcquireDone, Owned, OneFrontend, Rest, BootIsClean
<1>4. CASE CmdRelease
  <2>1. StaticsOK([s EXCEPT !.lease = FALSE]) /\ [s EXCEPT !.lease = FALSE].pid = s.pid
    BY Zenon DEF Owned, StaticsOK, Statics, OneStartIn, GivenUpIn
  <2>2. StaticsOK(s') /\ s'.pid = s.pid
    BY <1>4, <2>1, ResumeOK, Zenon DEF CmdRelease
  <2> QED BY <1>4, <2>2, Zenon DEF CmdRelease, Owned, OneFrontend, Rest, BootIsClean, Idle
<1> QED BY <1>1, <1>2, <1>3, <1>4 DEF Command

\* A step of the UI cothread keeps IInv.
LEMMA UiKeeps ==
  ASSUME Owned, Rest, Ui
  PROVE  Owned' /\ Rest'
<1>1. CASE UiSetEnabled
  BY <1>1, SetEnabledStep DEF UiSetEnabled, OnPages
<1>2. CASE UiRestart
  <2>1. Owned'
    BY <1>2, RestartOK, Zenon DEF UiRestart, Owned
  <2> QED BY <1>2, <2>1, Zenon DEF UiRestart, OnPages, Rest, BootIsClean
<1>3. CASE UiStartScript
  <2>1. Rest'
    BY <1>3, Zenon DEF UiStartScript, OnPages, Rest, BootIsClean
  <2>2. CASE StopSucceeds /\ s' = Prepare(s)
    <3>1. StaticsOK(s')
      BY <2>2, PrepareOK DEF Owned
    <3> QED BY <2>1, <2>2, <3>1, StopSucceedsOK, Zenon DEF Owned, OneFrontend
  <2>3. CASE StopTimesOut /\ s' = s
    BY <2>1, <2>3, StopTimesOutOK, Zenon DEF Owned, OneFrontend
  <2> QED BY <1>3, <2>2, <2>3, Zenon DEF UiStartScript
<1>4. CASE UiScriptExits
  BY <1>4, Zenon DEF UiScriptExits, Owned, OneFrontend, Rest, BootIsClean
<1>5. CASE UiReapAny
  <2>1. "none" \in ProcState /\ "none" \notin Own
    BY DEF ProcState, Own
  <2>2. PICK p \in Pid : proc' = [proc EXCEPT ![p] = "none"]
    BY <1>5, Zenon DEF UiReapAny
  <2>3. proc' \in [Pid -> ProcState]
    BY <2>1, <2>2, Zenon DEF Owned
  <2>4. \A q \in Pid : proc'[q] \in Own => q = s'.pid
    BY <1>5, <2>1, <2>2, Zenon DEF UiReapAny, Owned, OneFrontend
  <2> QED BY <1>5, <2>3, <2>4, Zenon DEF UiReapAny, Owned, OneFrontend, Rest, BootIsClean
<1>6. CASE UiEndScript
  <2>1. StaticsOK(s') /\ s'.pid = s.pid
    BY <1>6, ResumeOK, Zenon DEF UiEndScript, Owned
  <2> QED BY <1>6, <2>1, Zenon DEF UiEndScript, Owned, OneFrontend, Rest, BootIsClean
<1> QED BY <1>1, <1>2, <1>3, <1>4, <1>5, <1>6 DEF Ui

\* The statics of the next Main, over processes none of which is a child.
LEMMA ReexecOK ==
  ASSUME Owned, Rest, NEW c \in Cores, Reexec(c),
         proc' \in [Pid -> ProcState], \A p \in Pid : proc'[p] \notin Own,
         UNCHANGED <<enabled, binary, edid>>
  PROVE  Owned' /\ Rest'
<1>1. StaticsOK(s') /\ s'.pid = NoPid
  BY FreshOK, Zenon DEF Reexec, Rest
<1>2. Owned'
  BY <1>1, Zenon DEF Owned, OneFrontend
<1>3. Rest'
  BY <1>1, Zenon DEF Reexec, Rest, BootIsClean
<1> QED BY <1>2, <1>3

\* Where there is no frontend, a sweep leaves no child either.
LEMMA SweepCleans ==
  ASSUME Owned, s.pid = NoPid, NEW t, Sweep(t)
  PROVE  proc' \in [Pid -> ProcState] /\ \A p \in Pid : proc'[p] \notin Own
  BY SweepOK, LifecycleAssumption, Zenon

\* Loading a core or starting a Main keeps IInv.
LEMMA LoadKeeps ==
  ASSUME Owned, Rest, Load
  PROVE  Owned' /\ Rest'
<1>1. CASE LoadCore
  <2>1. CASE ShutDown
    <3>1. proc' \in [Pid -> ProcState] /\ \A p \in Pid : proc'[p] \notin Own
      BY <2>1, SweepCleans, StopSucceedsOK, Zenon DEF ShutDown
    <3>2. ASSUME NEW c \in Cores, Reexec(c) PROVE Owned' /\ Rest'
      BY <1>1, <3>1, <3>2, ReexecOK, Zenon DEF LoadCore
    <3>3. CASE s' = ResetState(s) /\ UNCHANGED <<core, booting, pc, ui>>
      <4>1. StaticsOK(s') /\ s'.pid = NoPid
        BY <3>3, ResetStateOK DEF Owned
      <4> QED BY <1>1, <3>1, <3>3, <4>1, Zenon
              DEF LoadCore, Owned, OneFrontend, Rest, BootIsClean
    <3>4. CASE StopTimesOut /\ UNCHANGED <<s, core, booting, pc, ui>>
      BY <1>1, <3>4, StopTimesOutOK, Zenon
         DEF LoadCore, Owned, OneFrontend, Rest, BootIsClean
    <3> QED BY <1>1, <3>2, <3>3, <3>4, Zenon DEF LoadCore
  <2>2. CASE StopTimesOut /\ UNCHANGED <<s, core, booting, pc, ui>>
    BY <1>1, <2>2, StopTimesOutOK, Zenon
       DEF LoadCore, Owned, OneFrontend, Rest, BootIsClean
  <2> QED BY <1>1, <2>1, <2>2, Zenon DEF LoadCore
<1>2. CASE UserIoInit
  <2>1. s.pid = NoPid
    BY <1>2, Zenon DEF UserIoInit, Rest, BootIsClean
  <2>2. CASE Sweep(s) /\ Reexec("launcher")
    <3>1. "launcher" \in Cores
      BY DEF Cores
    <3>2. proc' \in [Pid -> ProcState] /\ \A p \in Pid : proc'[p] \notin Own
      BY <2>1, <2>2, SweepCleans
    <3> QED BY <1>2, <2>2, <3>1, <3>2, ReexecOK, Zenon DEF UserIoInit
  <2>3. CASE /\ s' = IF core = "game" THEN s ELSE InitIf(s, enabled)
             /\ booting' = FALSE
             /\ UNCHANGED <<proc, core, pc, ui>>
    <3>1. StaticsOK(s') /\ s'.pid = s.pid
      BY <2>3, InitIfOK, Zenon DEF Owned
    <3> QED BY <1>2, <2>3, <3>1, Zenon
            DEF UserIoInit, Owned, OneFrontend, Rest, BootIsClean
  <2> QED BY <1>2, <2>2, <2>3, Zenon DEF UserIoInit
<1> QED BY <1>1, <1>2 DEF Load

\* The environment keeps IInv.
LEMMA EnvironmentKeeps ==
  ASSUME Owned, Rest, Environment
  PROVE  Owned' /\ Rest'
<1>1. CASE ChildExits
  <2>1. /\ Exited \subseteq ProcState /\ "none" \in ProcState /\ "none" \notin Own
        /\ "run" \in Own /\ "dying" \in Own /\ "crash" \in ProcState
    BY DEF ProcState, Own, Exited
  <2>2. PICK p \in Pid, v \in ProcState :
          proc' = [proc EXCEPT ![p] = v] /\ (v = "none" \/ proc[p] \in Own)
    BY <1>1, <2>1, Zenon DEF ChildExits
  <2>3. proc' \in [Pid -> ProcState]
    BY <2>2, Zenon DEF Owned
  <2>4. \A q \in Pid : proc'[q] \in Own => q = s.pid
    BY <2>1, <2>2, Zenon DEF Owned, OneFrontend
  <2> QED BY <1>1, <2>3, <2>4, Zenon DEF ChildExits, Owned, OneFrontend, Rest, BootIsClean
<1>2. CASE MainDies
  <2>1. /\ "none" \in ProcState /\ "orphan" \in ProcState
        /\ "none" \notin Own /\ "orphan" \notin Own
    BY DEF ProcState, Own
  <2>2. PICK left \in SUBSET {p \in Pid : proc[p] \in {"run", "dying"}} :
          proc' = [p \in Pid |-> IF p \in left THEN "orphan"
                                 ELSE IF proc[p] \in Own THEN "none" ELSE proc[p]]
    BY <1>2, Zenon DEF MainDies
  <2>3. \A p \in Pid : proc'[p] \in ProcState /\ proc'[p] \notin Own
    BY <2>1, <2>2, Zenon DEF Owned
  <2>4. proc' \in [Pid -> ProcState]
    BY <2>2, <2>3, Zenon
  <2>5. core \in Cores /\ Reexec(core) /\ UNCHANGED <<enabled, binary, edid>>
    BY <1>2, Zenon DEF MainDies, Rest
  <2> QED BY <2>3, <2>4, <2>5, ReexecOK
<1>3. CASE EdidChanges
  BY <1>3, Zenon DEF EdidChanges, Owned, OneFrontend, Rest, BootIsClean
<1>4. CASE BinaryChanges
  BY <1>4, Zenon DEF BinaryChanges, Owned, OneFrontend, Rest, BootIsClean
<1> QED BY <1>1, <1>2, <1>3, <1>4 DEF Environment

\* Every step keeps IInv.
THEOREM NextKeepsIInv == IInv /\ [Next]_vars => IInv'
<1> SUFFICES ASSUME Owned, Rest, [Next]_vars PROVE Owned' /\ Rest'
  BY IInvParts, PTL
<1>1. CASE Next
  BY <1>1, PollKeeps, CommandKeeps, UiKeeps, LoadKeeps, EnvironmentKeeps DEF Next
<1>2. CASE UNCHANGED vars
  BY <1>2, Zenon DEF vars, Owned, OneFrontend, Rest, BootIsClean
<1> QED BY <1>1, <1>2

-----------------------------------------------------------------------------
(* A suspended frontend comes back *)

\* Nothing is running while the console is handed over, and a lease over a frontend
\* that is switched off will not start it again
Suspended ==
  /\ pc = "acquire" => s.pid = NoPid
  /\ s.lease \/ pc = "acquire" => enabled \/ ~s.resume

\* What ResumeRestores says of a step
Restores ==
  s.resume /\ ~s'.resume /\ enabled' /\ s'.installed /\ ~booting' /\ ~LoadCore
    => s'.pending \/ s'.pid # NoPid

\* A step that leaves the suspension, the lease and the setting alone.
LEMMA PlainStep ==
  ASSUME Suspended, s'.resume = s.resume, s'.lease = s.lease, enabled' = enabled,
         pc' = "acquire" => pc = "acquire" /\ s'.pid = s.pid
  PROVE  Suspended' /\ Restores
  BY Zenon DEF Suspended, Restores

\* A queued start leaves the suspension and the lease alone.
LEMMA InitIfSuspends ==
  ASSUME NEW t \in Statics, NEW e
  PROVE  /\ InitIf(t, e).resume = t.resume /\ InitIf(t, e).lease = t.lease
         /\ InitIf(t, e).pid = t.pid
  BY Zenon DEF InitIf, Statics

\* A start that is wanted and not given up is queued, unless there is a frontend.
LEMMA InitIfQueues ==
  ASSUME NEW t \in Statics, NEW e, e, ~t.escaped, ~t.gaveUp, InitIf(t, e).installed
  PROVE  InitIf(t, e).pending \/ InitIf(t, e).pid # NoPid
<1>1. CASE InitIf(t, e) = t
  <2>1. t.installed
    BY <1>1
  <2>2. CASE t.pid # NoPid \/ t.pending
    BY <1>1, <2>2, Zenon
  <2>3. CASE ~(t.pid # NoPid \/ t.pending)
    <3>1. InitIf(t, e) = [t EXCEPT !.crashes = 0, !.respawn = FALSE, !.tty = FALSE,
                                   !.pending = TRUE, !.black = Black]
      BY <2>1, <2>3, Zenon DEF InitIf
    <3> QED BY <3>1, Zenon DEF Statics
  <2> QED BY <2>2, <2>3
<1>2. CASE InitIf(t, e) = [t EXCEPT !.crashes = 0, !.respawn = FALSE, !.tty = FALSE,
                                    !.pending = TRUE, !.black = Black]
  BY <1>2, Zenon DEF Statics
<1> QED BY <1>1, <1>2, Zenon DEF InitIf

\* A stop forgets the suspension, and with it an escape and a give-up.
LEMMA StopAllForgets ==
  ASSUME NEW t, StaticsOK(t), NEW r \in BOOLEAN
  PROVE  /\ StopAll(t, r) \in Statics /\ StopAll(t, r).pid = NoPid /\ StopAll(t, r).lease = t.lease
         /\ ~StopAll(t, r).resume /\ ~StopAll(t, r).escaped /\ ~StopAll(t, r).gaveUp
<1>1. StopAll(t, r) \in Statics
  BY StopAllOK DEF StaticsOK
<1>2. /\ StopAll(t, r).pid = NoPid /\ StopAll(t, r).lease = t.lease
      /\ ~StopAll(t, r).resume /\ ~StopAll(t, r).escaped /\ ~StopAll(t, r).gaveUp
  BY Zenon DEF StopAll, StaticsOK, Statics
<1> QED BY <1>1, <1>2

\* A restart queues the start that it stopped, or leaves the statics alone.
LEMMA RestartRestores ==
  ASSUME NEW t, StaticsOK(t), NEW e, Restart(t, e)
  PROVE  \/ /\ ~s'.resume /\ s'.lease = t.lease /\ s'.pid = NoPid
            /\ e /\ s'.installed => s'.pending
         \/ s' = t /\ s.pid # NoPid
<1>1. CASE s' = InitIf(StopAll(t, TRUE), e)
  <2> DEFINE u == StopAll(t, TRUE)
  <2>1. /\ u \in Statics /\ u.pid = NoPid /\ u.lease = t.lease
        /\ ~u.resume /\ ~u.escaped /\ ~u.gaveUp
    BY StopAllForgets
  <2> HIDE DEF u
  <2>2. s'.resume = u.resume /\ s'.lease = u.lease /\ s'.pid = u.pid
    BY <1>1, <2>1, InitIfSuspends DEF u
  <2>3. e /\ s'.installed => s'.pending
    BY <1>1, <2>1, <2>2, InitIfQueues DEF u
  <2> QED BY <2>1, <2>2, <2>3
<1>2. CASE s' = t /\ StopTimesOut
  BY <1>2 DEF StopTimesOut
<1> QED BY <1>1, <1>2 DEF Restart

\* The end of a suspension queues the start that it held back.
LEMMA ResumeRestoresStart ==
  ASSUME NEW t, StaticsOK(t)
  PROVE  /\ Resume(t).lease = t.lease /\ Resume(t).pid = t.pid /\ ~Resume(t).resume
         /\ t.resume /\ enabled /\ Resume(t).installed =>
              Resume(t).pending \/ Resume(t).pid # NoPid
<1>1. CASE t.resume
  <2> DEFINE u == [t EXCEPT !.script = FALSE, !.resume = FALSE, !.gaveUp = FALSE,
                            !.escaped = FALSE]
  <2>1. /\ u \in Statics /\ ~u.resume /\ ~u.gaveUp /\ ~u.escaped
        /\ u.lease = t.lease /\ u.pid = t.pid
    BY Zenon DEF StaticsOK, Statics
  <2>2. Resume(t) = InitIf(u, enabled)
    BY <1>1, Zenon DEF Resume
  <2> HIDE DEF u
  <2> QED BY <2>1, <2>2, InitIfSuspends, InitIfQueues
<1>2. CASE ~t.resume
  <2>1. Resume(t) = [t EXCEPT !.script = FALSE]
    BY <1>2, Zenon DEF Resume
  <2> QED BY <1>2, <2>1, Zenon DEF StaticsOK, Statics
<1> QED BY <1>1, <1>2

\* The poll cothread keeps the suspension, but for a restart, which queues a start.
LEMMA PollRestores == ASSUME Owned, Suspended, Poll PROVE Suspended' /\ Restores
<1>0. s \in Statics /\ StaticsOK(s)
  BY DEF Owned, StaticsOK
<1>1. CASE PollReload
  <2> DEFINE u == [Reaped(s) EXCEPT !.respawn = FALSE, !.crashes = 0]
  <2>1. u \in Statics /\ u.resume = s.resume /\ u.lease = s.lease
    <3>1. Reaped(s) \in Statics /\ Reaped(s).resume = s.resume /\ Reaped(s).lease = s.lease
      BY <1>0, Zenon DEF Reaped, Statics
    <3> QED BY <3>1, ZeroStrikes, Zenon DEF Statics
  <2>2. s' = InitIf(u, enabled) /\ enabled' = enabled /\ pc' = "idle"
    BY <1>1, Zenon DEF PollReload, Reap, Idle
  <2> HIDE DEF u
  <2>3. s'.resume = s.resume /\ s'.lease = s.lease
    BY <2>1, <2>2, InitIfSuspends
  <2>4. pc' # "acquire"
    BY <2>2
  <2> QED BY <2>2, <2>3, <2>4, PlainStep
<1>2. CASE PollEscape \/ \E stable \in BOOLEAN : PollCrash(stable)
  <2>1. Reaped(s) \in Statics /\ Reaped(s).resume = s.resume /\ Reaped(s).lease = s.lease
    BY <1>0, Zenon DEF Reaped, Statics
  <2>2. /\ enabled' = enabled /\ pc' = "idle"
        /\ \/ \E e : s' = NormalMode(Reaped(s), e)
           \/ \E n : s' = [Reaped(s) EXCEPT !.crashes = n, !.respawn = TRUE, !.black = Black]
    BY <1>2, Zenon DEF PollEscape, PollCrash, Reap, Idle
  <2>3. s'.resume = s.resume /\ s'.lease = s.lease
    BY <2>1, <2>2, Zenon DEF NormalMode, Statics
  <2>4. pc' # "acquire"
    BY <2>2
  <2> QED BY <2>2, <2>3, <2>4, PlainStep
<1>3. CASE PollSpawn \/ PollRespawn
  <2>1. PICK t \in Statics : Spawn(t) /\ t.resume = s.resume /\ t.lease = s.lease
    <3>1. /\ [s EXCEPT !.pending = FALSE] \in Statics
          /\ [s EXCEPT !.pending = FALSE].resume = s.resume
          /\ [s EXCEPT !.pending = FALSE].lease = s.lease
      BY <1>0, Zenon DEF Statics
    <3>2. /\ [s EXCEPT !.respawn = FALSE] \in Statics
          /\ [s EXCEPT !.respawn = FALSE].resume = s.resume
          /\ [s EXCEPT !.respawn = FALSE].lease = s.lease
      BY <1>0, Zenon DEF Statics
    <3> QED BY <1>3, <3>1, <3>2, Zenon DEF PollSpawn, PollRespawn
  <2> DEFINE b == [t EXCEPT !.black = Black, !.ready = FALSE, !.hadEdid = edid]
  <2>2. /\ b.resume = t.resume /\ b.lease = t.lease /\ DOMAIN b = DOMAIN t
    BY Zenon DEF Statics
  <2>3. \/ \E p \in Pid : s' = [b EXCEPT !.pid = p, !.tty = TRUE]
        \/ s' = [b EXCEPT !.black = FALSE]
    BY <2>1, Zenon DEF Spawn
  <2>4. "resume" \in DOMAIN b /\ "lease" \in DOMAIN b
    BY <2>2, Zenon DEF Statics
  <2> HIDE DEF b
  <2>5. s'.resume = b.resume /\ s'.lease = b.lease
    BY <2>3, <2>4, Zenon
  <2>6. enabled' = enabled /\ pc' = "idle"
    BY <1>3 DEF PollSpawn, PollRespawn, Idle
  <2>7. pc' # "acquire"
    BY <2>6
  <2> QED BY <2>1, <2>2, <2>5, <2>6, <2>7, PlainStep
<1>4. CASE PollLateEdid
  <2>1. /\ ~s.lease /\ pc' = "idle" /\ enabled' = enabled /\ Restart(s, enabled)
    BY <1>4 DEF PollLateEdid, Idle
  <2>2. \/ /\ ~s'.resume /\ s'.lease = s.lease
           /\ enabled /\ s'.installed => s'.pending
        \/ s' = s
    BY <1>0, <2>1, RestartRestores
  <2>3. pc' # "acquire"
    BY <2>1
  <2> QED BY <2>1, <2>2, <2>3 DEF Suspended, Restores
<1>5. CASE PollFinalize \/ FinalizeDone \/ PollScreen
  <2>1. s'.resume = s.resume /\ s'.lease = s.lease
    BY <1>0, <1>5, Zenon DEF PollFinalize, FinalizeDone, PollScreen, Statics
  <2>2. enabled' = enabled /\ (pc' = "finalize" \/ pc' = "idle")
    BY <1>5 DEF PollFinalize, FinalizeDone, PollScreen, Idle
  <2>3. pc' # "acquire"
    BY <2>2
  <2> QED BY <2>1, <2>2, <2>3, PlainStep
<1> QED BY <1>1, <1>2, <1>3, <1>4, <1>5 DEF Poll

\* The setting under a lease is what the end of the lease does; without one it
\* stops the frontend or queues a start.
LEMMA SetEnabledRestores ==
  ASSUME Owned, Rest, Suspended, NEW b \in BOOLEAN, SetEnabled(b)
  PROVE  Suspended' /\ Restores
<1> DEFINE t == [s EXCEPT !.installed = binary]
<1>1. /\ StaticsOK(t) /\ t.pid = s.pid /\ t.resume = s.resume /\ t.lease = s.lease
  BY Zenon DEF Owned, Rest, StaticsOK, Statics, OneStartIn, GivenUpIn
<1>2. t \in Statics /\ s.lease \in BOOLEAN /\ s.resume \in BOOLEAN /\ enabled \in BOOLEAN
  BY <1>1, Zenon DEF Owned, Rest, StaticsOK, Statics
<1>3. enabled # b /\ enabled' = b /\ pc' = pc
  BY DEF SetEnabled
<1>4. CASE s.lease /\ s' = [t EXCEPT !.resume = b /\ binary /\ core = "launcher"]
  <2> DEFINE R == b /\ binary /\ core = "launcher"
  <2> HIDE DEF t, R
  <2>1. s'.resume = R /\ s'.pid = t.pid
    BY <1>2, <1>4, Zenon DEF Statics, R
  <2>2. R => b
    BY DEF R
  <2>3. Suspended'
    BY <1>1, <1>3, <2>1, <2>2 DEF Suspended
  <2>4. s.resume => ~b
    BY <1>2, <1>3, <1>4 DEF Suspended
  <2> QED BY <1>3, <2>3, <2>4 DEF Restores
<1>5. CASE ~s.lease /\ ~b /\ StopSucceeds /\ s' = StopAll(t, FALSE)
  <2>1. s'.pid = NoPid /\ ~s'.resume
    BY <1>1, <1>5, StopAllForgets
  <2> QED BY <1>3, <1>5, <2>1 DEF Suspended, Restores
<1>6. CASE ~s.lease /\ StopTimesOut /\ s' = t
  <2>1. s.pid # NoPid
    BY <1>6 DEF StopTimesOut
  <2>2. pc # "acquire"
    BY <2>1 DEF Suspended
  <2> HIDE DEF t
  <2> QED BY <1>1, <1>3, <1>6, <2>2 DEF Suspended, Restores
<1>7. CASE ~s.lease /\ b /\ Restart(t, b)
  <2>1. \/ /\ ~s'.resume /\ s'.lease = t.lease /\ s'.pid = NoPid
           /\ b /\ s'.installed => s'.pending
        \/ s' = t /\ s.pid # NoPid
    BY <1>1, <1>7, RestartRestores
  <2> HIDE DEF t
  <2> QED BY <1>1, <1>3, <1>7, <2>1 DEF Suspended, Restores
<1>8. CASE ~s.lease /\ b /\ s' = t /\ proc' = proc
  <2> HIDE DEF t
  <2> QED BY <1>1, <1>3, <1>8 DEF Suspended, Restores
<1>9. \/ s.lease /\ s' = [t EXCEPT !.resume = b /\ binary /\ core = "launcher"]
      \/ ~s.lease /\ ~b /\ StopSucceeds /\ s' = StopAll(t, FALSE)
      \/ ~s.lease /\ StopTimesOut /\ s' = t
      \/ ~s.lease /\ b /\ Restart(t, b)
      \/ ~s.lease /\ b /\ s' = t /\ proc' = proc
  BY Zenon DEF SetEnabled
<1> QED BY <1>4, <1>5, <1>6, <1>7, <1>8, <1>9

\* What takes the console leaves no frontend, and suspends the one that there was.
LEMMA PrepareSuspends ==
  ASSUME NEW t, StaticsOK(t)
  PROVE  /\ Prepare(t).pid = NoPid /\ Prepare(t).lease = t.lease
         /\ Prepare(t).resume = t.resume \/ Prepare(t).resume = TRUE
<1>1. Prepare(t).pid = NoPid
  BY PrepareOK
<1>2. CASE t.pid = NoPid
  <2>1. Prepare(t) = [t EXCEPT !.script = TRUE]
    BY <1>2, Zenon DEF Prepare
  <2> QED BY <1>1, <2>1, Zenon DEF StaticsOK, Statics
<1>3. CASE t.pid # NoPid
  <2>1. Stopped(t) \in Statics /\ Stopped(t).lease = t.lease
    BY <1>3, Zenon DEF Stopped, StaticsOK, Statics
  <2>2. Prepare(t) = [Stopped(t) EXCEPT !.resume = TRUE, !.respawn = FALSE, !.tty = FALSE,
                            !.crashes = 0, !.pending = FALSE, !.gaveUp = FALSE,
                            !.black = FALSE, !.reassert = FALSE,
                            !.script = TRUE]
    BY <1>3, Zenon DEF Prepare
  <2> QED BY <1>1, <2>1, <2>2, Zenon DEF Statics
<1> QED BY <1>2, <1>3

\* A command of the FIFO: a lease is taken from a frontend that is switched on only,
\* and its end queues the start.
LEMMA CommandRestores == ASSUME Owned, Rest, Suspended, Command PROVE Suspended' /\ Restores
<1>0. s \in Statics /\ StaticsOK(s) /\ s.resume \in BOOLEAN /\ s.lease \in BOOLEAN
  BY Zenon DEF Owned, StaticsOK, Statics
<1>1. CASE CmdSetEnabled
  BY <1>1, SetEnabledRestores DEF CmdSetEnabled
<1>2. CASE CmdAcquire
  <2>1. enabled /\ enabled' = enabled /\ pc = "idle"
    BY <1>2 DEF CmdAcquire, Configured, Idle
  <2>2. CASE s' = Prepare(s)
    <3>1. s'.pid = NoPid /\ (s'.resume = s.resume \/ s'.resume = TRUE)
      BY <1>0, <2>2, PrepareSuspends
    <3> QED BY <2>1, <3>1 DEF Suspended, Restores
  <2>3. CASE s' = s /\ pc' = pc
    BY <2>1, <2>3 DEF Suspended, Restores
  <2> QED BY <1>2, <2>2, <2>3 DEF CmdAcquire
<1>3. CASE AcquireDone
  <2>1. pc = "acquire" /\ pc' = "idle" /\ enabled' = enabled /\ (enabled \/ ~s.resume)
    BY <1>3 DEF AcquireDone, Suspended
  <2>2. CASE s' = [s EXCEPT !.lease = TRUE]
    <3>1. s'.resume = s.resume
      BY <1>0, <2>2, Zenon DEF Statics
    <3> QED BY <2>1, <3>1 DEF Suspended, Restores
  <2>3. CASE s' = Resume(s)
    <3>1. /\ ~s'.resume
          /\ s.resume /\ enabled /\ s'.installed => s'.pending \/ s'.pid # NoPid
      BY <1>0, <2>3, ResumeRestoresStart
    <3> QED BY <2>1, <3>1 DEF Suspended, Restores
  <2> QED BY <1>3, <2>2, <2>3 DEF AcquireDone
<1>4. CASE CmdRelease
  <2> DEFINE t == [s EXCEPT !.lease = FALSE]
  <2>1. StaticsOK(t) /\ t.resume = s.resume
    BY Zenon DEF Owned, StaticsOK, Statics, OneStartIn, GivenUpIn
  <2>2. s' = Resume(t) /\ pc' = "idle" /\ enabled' = enabled
    BY <1>4 DEF CmdRelease, Idle
  <2> HIDE DEF t
  <2>3. /\ ~s'.resume
        /\ s.resume /\ enabled /\ s'.installed => s'.pending \/ s'.pid # NoPid
    BY <2>1, <2>2, ResumeRestoresStart
  <2> QED BY <2>2, <2>3 DEF Suspended, Restores
<1> QED BY <1>1, <1>2, <1>3, <1>4 DEF Command

\* The UI cothread: a script that is started or ended while the console is handed
\* over finds no frontend to suspend.
LEMMA UiRestores == ASSUME Owned, Rest, Suspended, Ui PROVE Suspended' /\ Restores
<1>0. s \in Statics /\ StaticsOK(s) /\ s.resume \in BOOLEAN /\ s.lease \in BOOLEAN
  BY Zenon DEF Owned, StaticsOK, Statics
<1>1. CASE UiSetEnabled
  BY <1>1, SetEnabledRestores DEF UiSetEnabled
<1>2. CASE UiRestart
  <2>1. ~s.lease /\ enabled' = enabled /\ pc' = pc /\ Restart(s, enabled)
    BY <1>2 DEF UiRestart, OnPages
  <2>2. \/ /\ ~s'.resume /\ s'.lease = s.lease /\ s'.pid = NoPid
           /\ enabled /\ s'.installed => s'.pending
        \/ s' = s /\ s.pid # NoPid
    BY <1>0, <2>1, RestartRestores
  <2> QED BY <2>1, <2>2 DEF Suspended, Restores
<1>3. CASE UiStartScript
  <2>1. ~s.lease /\ enabled' = enabled /\ pc' = pc
    BY <1>3 DEF UiStartScript, OnPages
  <2>2. CASE s' = Prepare(s)
    <3>1. s'.pid = NoPid /\ s'.lease = s.lease /\ (s'.resume = s.resume \/ s'.resume = TRUE)
      BY <1>0, <2>2, PrepareSuspends
    <3>2. pc = "acquire" => s'.resume = s.resume
      <4>1. ASSUME pc = "acquire" PROVE s'.resume = s.resume
        <5>1. Prepare(s) = [s EXCEPT !.script = TRUE]
          BY <4>1, Zenon DEF Prepare, Suspended
        <5> QED BY <1>0, <2>2, <5>1, Zenon DEF Statics
      <4> QED BY <4>1
    <3> QED BY <2>1, <3>1, <3>2 DEF Suspended, Restores
  <2>3. CASE s' = s
    BY <2>1, <2>3 DEF Suspended, Restores
  <2> QED BY <1>3, <2>2, <2>3 DEF UiStartScript
<1>4. CASE UiScriptExits \/ UiReapAny
  <2>1. s' = s /\ enabled' = enabled /\ pc' = pc
    BY <1>4 DEF UiScriptExits, UiReapAny
  <2> QED BY <2>1, PlainStep
<1>5. CASE UiEndScript
  <2>1. s' = Resume(s) /\ enabled' = enabled /\ pc' = pc
    BY <1>5 DEF UiEndScript
  <2>2. /\ s'.pid = s.pid /\ ~s'.resume
        /\ s.resume /\ enabled /\ s'.installed => s'.pending \/ s'.pid # NoPid
    BY <1>0, <2>1, ResumeRestoresStart
  <2> QED BY <2>1, <2>2 DEF Suspended, Restores
<1> QED BY <1>1, <1>2, <1>3, <1>4, <1>5 DEF Ui

\* A load or the end of Main forgets a suspension; what else happens around Main
\* leaves it alone.
LEMMA LoadRestores ==
  ASSUME Owned, Suspended, Load \/ Environment
  PROVE  Suspended' /\ Restores
<1>0. s \in Statics /\ StaticsOK(s)
  BY DEF Owned, StaticsOK
<1>1. ASSUME NEW c, Reexec(c) PROVE Suspended' /\ Restores
  <2>1. s' = Fresh /\ booting' = TRUE /\ pc' = "idle" /\ ~Fresh.lease
    BY <1>1, Zenon DEF Reexec, Fresh
  <2> QED BY <2>1 DEF Suspended, Restores
<1>2. ASSUME s' = s, enabled' = enabled, pc' = pc PROVE Suspended' /\ Restores
  BY <1>2, PlainStep
<1>3. CASE LoadCore
  <2>1. CASE s' = ResetState(s) /\ pc' = pc /\ enabled' = enabled
    <3>1. s'.pid = NoPid /\ ~s'.resume
      BY <1>0, <2>1, Zenon DEF ResetState, Statics
    <3> QED BY <1>3, <2>1, <3>1 DEF Suspended, Restores
  <2> QED BY <1>1, <1>2, <1>3, <2>1, Zenon DEF LoadCore
<1>4. CASE UserIoInit
  <2>1. CASE s' = (IF core = "game" THEN s ELSE InitIf(s, enabled)) /\ pc' = pc
    <3>1. s'.resume = s.resume /\ s'.lease = s.lease /\ s'.pid = s.pid
      BY <1>0, <2>1, InitIfSuspends, Zenon
    <3> QED BY <1>4, <2>1, <3>1, PlainStep DEF UserIoInit
  <2> QED BY <1>1, <1>4, <2>1, Zenon DEF UserIoInit
<1>5. CASE MainDies
  BY <1>1, <1>5, Zenon DEF MainDies
<1>6. CASE ChildExits \/ EdidChanges \/ BinaryChanges
  BY <1>2, <1>6 DEF ChildExits, EdidChanges, BinaryChanges
<1> QED BY <1>3, <1>4, <1>5, <1>6 DEF Load, Environment

\* Every step keeps Suspended, and restores what it resumes.
LEMMA StepRestores ==
  ASSUME IInv, Suspended, [Next]_vars
  PROVE  Suspended' /\ [Restores]_vars
<1>0. Owned /\ Rest
  BY IInvParts
<1>1. CASE Next
  BY <1>0, <1>1, PollRestores, CommandRestores, UiRestores, LoadRestores DEF Next
<1>2. CASE UNCHANGED vars
  BY <1>2 DEF vars, Suspended
<1> QED BY <1>1, <1>2

-----------------------------------------------------------------------------
(* The theorems *)

\* The inductive invariant holds in every behaviour of the launcher.
THEOREM SpecIInv == Spec => []IInv
  BY InitIInv, NextKeepsIInv, PTL DEF Spec

\* The statics, processes and flags keep their types; among them the count of
\* crashes never reaches the limit at which Main gives up.
THEOREM SpecTypeOK == Spec => []TypeOK
<1>1. IInv => TypeOK
  BY DEF IInv
<1> QED BY <1>1, SpecIInv, PTL

\* Main never has two frontends, with any number of process ids.
THEOREM SpecOneFrontend == Spec => []OneFrontend
<1>1. IInv => OneFrontend
  BY DEF IInv
<1> QED BY <1>1, SpecIInv, PTL

\* Never two starts on their way, never one behind a live frontend.
THEOREM SpecOneStart == Spec => []OneStart
<1>1. IInv => OneStart
  BY DEF IInv
<1> QED BY <1>1, SpecIInv, PTL

\* A frontend that was given up or left by the user has no start on its way.
THEOREM SpecGivenUpStaysDown == Spec => []GivenUpStaysDown
<1>1. IInv => GivenUpStaysDown
  BY DEF IInv
<1> QED BY <1>1, SpecIInv, PTL

\* The FPGA changes only in a step that executes a new Main.
LEMMA CoreChangesInReexec ==
  Next /\ (core' # core \/ (~booting /\ booting')) => s'.pid = NoPid
<1> SUFFICES ASSUME Next, core' # core \/ (~booting /\ booting') PROVE s' = Fresh
  BY DEF Fresh
<1>1. CASE Poll
  BY <1>1, Zenon DEF Poll, PollReload, PollEscape, PollCrash, Reap, PollSpawn, PollRespawn,
            PollLateEdid, PollFinalize, FinalizeDone, PollScreen
<1>2. CASE Command
  BY <1>2, Zenon DEF Command, CmdSetEnabled, SetEnabled, CmdAcquire, AcquireDone, CmdRelease
<1>3. CASE Ui
  BY <1>3, Zenon DEF Ui, UiSetEnabled, SetEnabled, UiRestart, UiStartScript, UiScriptExits,
            UiReapAny, UiEndScript
<1>4. CASE Load
  BY <1>4, Zenon DEF Load, LoadCore, UserIoInit, Reexec
<1>5. CASE Environment
  BY <1>5, Zenon DEF Environment, ChildExits, MainDies, EdidChanges, BinaryChanges, Reexec
<1> QED BY <1>1, <1>2, <1>3, <1>4, <1>5 DEF Next

\* The FPGA is never reconfigured over a frontend of this Main.
THEOREM SpecNoReloadUnderFrontend == Spec => NoReloadUnderFrontend
<1>1. IInv' /\ [Next]_vars =>
        [core' # core \/ (~booting /\ booting') => \A p \in Pid : proc'[p] \notin Own]_vars
  <2> SUFFICES ASSUME IInv', Next, core' # core \/ (~booting /\ booting')
               PROVE  \A p \in Pid : proc'[p] \notin Own
    BY DEF vars
  <2>1. s'.pid = NoPid
    BY CoreChangesInReexec
  <2> QED BY <2>1, LifecycleAssumption, Zenon DEF IInv, OneFrontend
<1> QED BY <1>1, SpecIInv, PTL DEF Spec, NoReloadUnderFrontend

\* Main lets go of a pid only when the process is gone.
THEOREM SpecOwnedUntilReaped == Spec => OwnedUntilReaped
<1>1. IInv /\ IInv' =>
        [s.pid # NoPid /\ s'.pid # s.pid => proc'[s.pid] \notin Own]_vars
  BY Zenon DEF IInv, TypeOK, Statics, OneFrontend
<1> QED BY <1>1, SpecIInv, PTL DEF OwnedUntilReaped

\* A suspended frontend that is still wanted when Main forgets the suspension is
\* started again, whoever held the console and whatever was switched meanwhile.
THEOREM SpecResumeRestores == Spec => ResumeRestores
<1>1. Init => Suspended
  <2> SUFFICES ASSUME Init PROVE Suspended
    OBVIOUS
  <2>1. s = Fresh /\ pc = "idle"
    BY DEF Init
  <2>2. ~Fresh.lease
    BY Zenon DEF Fresh
  <2> QED BY <2>1, <2>2 DEF Suspended
<1>2. IInv /\ Suspended /\ [Next]_vars => Suspended'
  BY StepRestores
<1>3. IInv /\ Suspended /\ [Next]_vars =>
        [s.resume /\ ~s'.resume /\ enabled' /\ s'.installed /\ ~booting' /\ ~LoadCore
           => s'.pending \/ s'.pid # NoPid]_vars
  BY StepRestores DEF Restores
<1> QED BY <1>1, <1>2, <1>3, SpecIInv, PTL DEF Spec, ResumeRestores
=============================================================================
