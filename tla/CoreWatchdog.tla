---------------------------- MODULE CoreWatchdog ----------------------------
(***************************************************************************)
(* The Core service as Main keeps it alive: core_watchdog.cpp looks at its *)
(* pid file every CheckMs while a frontend runs, and ensures the           *)
(* service (service_boot.cpp) at most every RetryMs when the process is    *)
(* gone; every start of Main ensures it too.                               *)
(*                                                                         *)
(* A deadline is a point of the millisecond clock kept in an unsigned long *)
(* of 32 bits (hardware.cpp), compared with >=, and 0 is "not armed": time *)
(* is modulo Wrap here, so a deadline may lie past the wrap or be missed   *)
(* just before it.  The main loop may stall for up to Stall ticks.         *)
(***************************************************************************)
EXTENDS WatchdogState

vars == <<now, polled, check, restart, frontend, core, since, late>>

Init ==
  /\ now \in Time
  /\ polled = 0
  /\ check = 0 /\ restart = 0
  /\ frontend \in BOOLEAN
  /\ core \in {[st |-> "starting", pid |-> p] : p \in {"none", "stale"}}
                \cup {[st |-> "up", pid |-> "live"]}
  /\ since = [ticks |-> RetryMs, least |-> RetryMs]
  /\ late = 0

-----------------------------------------------------------------------------
(* hardware.cpp *)

\* Faulty variant: the sum is not truncated
GetTimerWide(ms) == now + ms

GetTimer(ms) == (now + ms) % Wrap

\* The deadline of a timer for which 0 means "not armed"
Deadline(ms) == IF GetTimer(ms) = 0 THEN 1 ELSE GetTimer(ms)

\* Faulty variant: the millisecond of the deadline itself is not enough
CheckTimerLater(t) == t = 0 \/ now > t

CheckTimer(t) == t = 0 \/ now >= t

-----------------------------------------------------------------------------
(* service_boot.cpp and core_watchdog.cpp *)

\* zaparoo_service_start_async runs the ensure script: without effect on a
\* service that runs, and when the script or the fork fails
Ensured(c, works) == IF works /\ c.st = "down" THEN [c EXCEPT !.st = "starting"] ELSE c

\* A start looks back on the distance it kept; the next one has to keep RetryMs
\* unless its deadline lies past the wrap
Counted ==
  [ticks |-> IF now + RetryMs < Wrap THEN 0 ELSE RetryMs,
   least |-> IF since.ticks < since.least THEN since.ticks ELSE since.least]

\* The next start need not keep its distance
Free == [since EXCEPT !.ticks = RetryMs]

\* Faulty variant: the retry is armed with the period of the check
EnsureSoon(works) ==
  /\ core' = Ensured(core, works)
  /\ restart' = Deadline(CheckMs)
  /\ since' = Counted /\ late' = 0

Ensure(works) ==
  /\ core' = Ensured(core, works)
  /\ restart' = Deadline(RetryMs)
  /\ since' = Counted /\ late' = 0

\* Faulty variant: every look at a dead service postpones the next start
LookPostponing(works) ==
  IF core.pid = "live"
    THEN restart' = 0 /\ since' = Free /\ late' = 0 /\ UNCHANGED core
    ELSE IF CheckTimer(restart)
      THEN Ensure(works)
      ELSE restart' = Deadline(RetryMs) /\ UNCHANGED <<core, since, late>>

\* With a pid in core.pid: kill(pid, 0) and pid_matches_core
Look(works) ==
  IF core.pid = "live"
    THEN restart' = 0 /\ since' = Free /\ late' = 0 /\ UNCHANGED core
    ELSE IF CheckTimer(restart)
      THEN Ensure(works)
      ELSE UNCHANGED <<restart, core, since, late>>

\* zaparoo_core_watchdog_poll, from the poll of save.cpp
WatchdogPoll(works) ==
  /\ polled' = 0
  /\ IF ~frontend \/ (check # 0 /\ ~CheckTimer(check))
       THEN UNCHANGED <<check, restart, core, since, late>>
       ELSE /\ check' = Deadline(CheckMs)
            /\ IF check = 0 \/ core.pid = "none"
                 THEN UNCHANGED <<restart, core, since, late>>
                 ELSE Look(works)
  /\ UNCHANGED <<now, frontend>>

\* Main starts again (every core load): new statics, and the boot constructor
Reexec(works) ==
  /\ check' = 0 /\ restart' = 0
  /\ core' = Ensured(core, works)
  /\ polled' = 0
  /\ since' = Free /\ late' = 0
  /\ UNCHANGED <<now, frontend>>

-----------------------------------------------------------------------------
(* The clock, the frontend setting and the service *)

\* A deadline further away than any timer is set was missed: a stall or an inactive
\* frontend held the wrap, and it counts again only at the end of the next round
Missed == check > now + CheckMs \/ restart > now + RetryMs

Tick ==
  /\ polled < Stall
  /\ now' = (now + 1) % Wrap
  /\ polled' = polled + 1
  /\ since' = [since EXCEPT !.ticks = IF @ < RetryMs THEN @ + 1 ELSE @]
  /\ late' = IF frontend /\ core.pid = "stale" /\ ~Missed /\ late <= Bound
               THEN late + 1 ELSE IF Missed THEN 0 ELSE late
  /\ UNCHANGED <<check, restart, frontend, core>>

\* The frontend is enabled or disabled, ends or gives up
SetActive ==
  /\ frontend' = ~frontend
  /\ late' = 0
  /\ UNCHANGED <<now, polled, check, restart, core, since>>

\* A start cleans core.pid up under its gate, then writes it; or it fails
ServiceStarts ==
  /\ core.st = "starting"
  /\ core' \in {[st |-> "starting", pid |-> "none"], [st |-> "up", pid |-> "live"],
                [st |-> "down", pid |-> core.pid]}
  /\ late' = 0
  /\ UNCHANGED <<now, polled, check, restart, frontend, since>>

\* It is killed, which leaves the file, or stops
ServiceEnds ==
  /\ core.st = "up"
  /\ core' \in {[st |-> "down", pid |-> p] : p \in {"stale", "none"}}
  /\ late' = 0
  /\ UNCHANGED <<now, polled, check, restart, frontend, since>>

Next ==
  \/ \E works \in BOOLEAN : WatchdogPoll(works) \/ Reexec(works)
  \/ Tick \/ SetActive \/ ServiceStarts \/ ServiceEnds

Spec == Init /\ [][Next]_vars
=============================================================================
