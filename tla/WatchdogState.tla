--------------------------- MODULE WatchdogState ---------------------------
(***************************************************************************)
(* The state of CoreWatchdog: the periods of core_watchdog.cpp, the clock  *)
(* they are kept on, in ms, and what has to hold of it.                    *)
(***************************************************************************)
EXTENDS Integers

CONSTANTS
  Wrap,     \* 2^32 ms in the code
  CheckMs,  \* CORE_WATCHDOG_POLL_MS
  RetryMs,  \* CORE_WATCHDOG_RETRY_MS
  Stall     \* ticks between two polls of the main loop, at most

ASSUME WatchdogAssumption ==
  /\ {CheckMs, RetryMs, Stall} \subseteq Nat \ {0}
  /\ CheckMs < RetryMs /\ Stall < RetryMs /\ RetryMs > 2
  /\ Wrap \in Nat /\ Wrap > 2 * (RetryMs + CheckMs + 2 * Stall)

VARIABLES
  now,      \* CLOCK_BOOTTIME in ms, modulo Wrap
  polled,   \* ticks since the last poll
  check,    \* s_check_timer
  restart,  \* s_restart_timer
  frontend, \* alt_launcher_active
  core,     \* the service process, and what core.pid says of it
  since,    \* ghost: ticks since the last start, up to RetryMs, and the shortest
            \* distance a start kept
  late      \* ghost: ticks a gone service with a pid file went without a start

Time == 0 .. Wrap - 1

\* The longest wait: a retry just armed, a check a tick before its end that arms
\* the next, a poll a tick before the end of that one, and the stalls after that
\* poll and over the wrap
Bound == (RetryMs - 1) + (CheckMs - 1) + (2 * Stall - 1)

\* Every deadline is a time of the clock, and core.pid names a live process only when
\* the service is up.
WatchdogTypeOK ==
  /\ now \in Time /\ check \in Time /\ restart \in Time
  /\ polled \in 0 .. Stall
  /\ frontend \in BOOLEAN
  \* "stale": the process is gone, or its pid is another program's by now
  /\ core \in [st : {"down", "starting", "up"}, pid : {"none", "live", "stale"}]
  /\ core.st = "up" <=> core.pid = "live"
  /\ since \in [ticks : 0 .. RetryMs, least : 0 .. RetryMs]
  /\ late \in 0 .. Bound + 1

-----------------------------------------------------------------------------
(* Properties *)

\* A service that keeps failing is not started in a loop: a start by the watchdog
\* comes RetryMs after the one before, unless the service was seen alive, Main
\* started again or that deadline was set across the wrap of the clock.
RestartsAreSpaced == since.least = RetryMs

\* A service that died is started again within Bound ticks of being found with
\* its pid file, although the two deadlines are taken modulo Wrap, a retry may
\* be armed from an earlier death, and polls stall: the only exception is a
\* deadline that was missed at the wrap.
BackSoon == late <= Bound
=============================================================================
