---------------------------- MODULE ScanoutLease ----------------------------
(***************************************************************************)
(* The scan-out hand-off: scanout.cpp grants the frontend the framebuffer  *)
(* slots (proxy) or the native video window over a private socket, loads   *)
(* the kernel module this needs in a child process, and bootstrap.h keeps  *)
(* the screen black until a frontend has the slots or a timer gives up.    *)
(* alt_launcher.cpp drives both from alt_launcher_poll.                    *)
(*                                                                         *)
(* Main is one thread, so the whole poll is a step.  The one yield on its  *)
(* path, in the switch_to_vt of finalize_spawn, is in FrontendLifecycle;   *)
(* an s_scanout_ready it sets for a frontend that has gone meanwhile is    *)
(* cleared by the next poll or spawn before anything is granted.           *)
(* The frontend and the module loader are processes that run between two   *)
(* polls.  A timer is armed, then due.  A frontend follows SCANOUT.md or   *)
(* not: it may send anything at any time, an empty packet too, disconnect, *)
(* exit, or be stuck in the kernel when Main kills it.  FrontendLifecycle  *)
(* has the rest of the supervisor (crash counting, console leases,         *)
(* scripts, EDID).                                                         *)
(***************************************************************************)
EXTENDS Integers, Sequences

CONSTANT InFlight  \* bound: packets in the socket, both ways together

ASSUME InFlightAssumption == InFlight \in Nat \ {0}

VARIABLES
  box,     \* the installation: Direct Video, profile, module file, UIO_SET_FBUF
  m,       \* the statics of scanout.cpp, s_scanout_ready and the launcher mode
  boot,    \* s_bootstrap
  loader,  \* the insmod child, as loader_pid stands for it
  dev,     \* /dev/zaparoo-scanout and the build id of the module behind it
  child,   \* the frontend process
  rx, tx   \* the socket, towards Main and towards the frontend

vars == <<box, m, boot, loader, dev, child, rx, tx>>

Mode == {"none", "proxy", "native"}
Packet == {"request", "packet", "junk", "empty"}  \* "empty": of no bytes
Answer == {"PROXY", "NATIVE", "NO", "reply"}
Statics == [open : BOOLEAN,      \* parent_fd >= 0
            requested : BOOLEAN, \* requested
            granted : BOOLEAN,   \* granted_lease
            native : BOOLEAN,    \* native_lease
            tried : BOOLEAN,     \* loader_tried
            offer : Mode,        \* offer_mode
            ready : {"no", "due", "yes"},  \* s_scanout_ready; "due": finalize_spawn may run
            mode : Mode]         \* the offer the next spawn makes
Bootstrap == [hidden : BOOLEAN, fell : BOOLEAN, timer : {"off", "armed", "due"}]
Loader == {"none", "young", "late", "killed", "ok", "bad"}

TypeOK ==
  /\ box \in [direct : BOOLEAN, profile : BOOLEAN, file : {"missing", "wrong", "ours"},
              fbuf : BOOLEAN]
  /\ m \in Statics /\ boot \in Bootstrap /\ loader \in Loader
  /\ dev \in {"absent", "ours", "other"}
  /\ child \in [st : {"none", "up", "stuck", "dead"}, conn : BOOLEAN,
                view : {"start", "asked", "slots", "native", "alone"},
                empty : BOOLEAN]  \* it has sent an empty packet (history)
  /\ rx \in Seq(Packet) /\ tx \in Seq(Answer)
  /\ m.requested \/ m.granted \/ m.native => m.open
  /\ m.granted \/ m.native => m.requested
  /\ ~m.open => rx = << >>

\* direct_video is fixed for the life of Main; native CRT is switched at run time
Modes == IF box.direct THEN {"none", "native"} ELSE {"proxy", "native"}

NoChild == [st |-> "none", conn |-> FALSE, view |-> "start", empty |-> FALSE]
Shown == [hidden |-> FALSE, fell |-> FALSE, timer |-> "off"]

Init ==
  /\ box \in [direct : BOOLEAN, profile : BOOLEAN, file : {"missing", "wrong", "ours"},
              fbuf : BOOLEAN]
  /\ \E mode \in Modes :
       m = [open |-> FALSE, requested |-> FALSE, granted |-> FALSE, native |-> FALSE,
            tried |-> FALSE, offer |-> "none", ready |-> "no", mode |-> mode]
  /\ boot = Shown
  /\ loader = "none"
  /\ dev \in {"absent", "ours", "other"}
  /\ child = NoChild
  /\ rx = << >> /\ tx = << >>

-----------------------------------------------------------------------------
(* bootstrap.h and begin_bootstrap: cancel() is Shown *)

\* bootstrap_available
Available ==
  box.profile /\ (dev = "ours" \/ (dev = "absent" /\ box.file # "missing"))

\* begin_bootstrap: start(), and the blanking that cancels when unsupported
Begin(mode) ==
  IF mode = "proxy" /\ Available /\ box.fbuf
    THEN [hidden |-> TRUE, fell |-> FALSE, timer |-> "armed"]
    ELSE Shown

\* Faulty variant: the startup timer runs on under a granted lease
GrantStillTimed(b) == b

\* Bootstrap::grant
Grant(b) == [b EXCEPT !.timer = "off"]

\* Faulty variant: every poll gives the fallback a new deadline
FallbackAgain(b) == IF b.hidden THEN [b EXCEPT !.fell = TRUE, !.timer = "armed"] ELSE b

\* Bootstrap::fallback
Fallback(b) ==
  IF b.hidden /\ ~b.fell THEN [b EXCEPT !.fell = TRUE, !.timer = "armed"] ELSE b

-----------------------------------------------------------------------------
(* scanout.cpp, on the state s that Main can change *)

S == [m |-> m, boot |-> boot, loader |-> loader, rx |-> rx, tx |-> tx]

Becomes(s) ==
  /\ m' = s.m /\ boot' = s.boot /\ loader' = s.loader /\ rx' = s.rx /\ tx' = s.tx

Running == {"young", "late", "killed"}

\* waitpid(loader_pid, WNOHANG)
Reaped(l) == IF l \in Running THEN l ELSE "none"

\* stop(): SIGKILL is not over when waitpid looks
Stop(s) ==
  [s EXCEPT !.m = [@ EXCEPT !.open = FALSE, !.requested = FALSE, !.granted = FALSE,
                            !.native = FALSE],
            !.loader = IF @ \in Running THEN "killed" ELSE "none",
            !.rx = << >>]

\* A send reaches the socket while the frontend holds its end
Sent(s, p) == IF child.conn THEN [s EXCEPT !.tx = Append(@, p)] ELSE s

\* Faulty variant: the request outlives the socket it came through
DenyKeepsRequest(s) ==
  [Sent(s, "NO") EXCEPT !.m = [@ EXCEPT !.open = FALSE, !.granted = FALSE], !.rx = << >>]

\* deny(); its callers hold an open socket
Deny(s) ==
  [Sent(s, "NO") EXCEPT !.m = [@ EXCEPT !.open = FALSE, !.requested = FALSE, !.granted = FALSE],
                        !.rx = << >>]

\* Faulty variant: the loader is waited for as long as it takes
EnsureModulePatient(s, forks) ==
  CASE dev = "other" -> Deny(s)
    [] dev = "absent" /\ s.loader \in {"ok", "bad"} -> Deny([s EXCEPT !.loader = "none"])
    [] dev = "absent" /\ s.loader = "none" /\ ~s.m.tried ->
         LET t == [s EXCEPT !.m.tried = TRUE]
         IN  IF box.file = "missing" \/ ~forks THEN Deny(t) ELSE [t EXCEPT !.loader = "young"]
    [] OTHER -> s

\* ensure_module, the cases that do not return true.  An absent device behind a
\* loader that exited 0 is a failed load too
EnsureModule(s, forks) ==
  CASE dev = "other" -> Deny(s)
    [] dev = "absent" /\ s.loader \in {"ok", "bad"} -> Deny([s EXCEPT !.loader = "none"])
    [] dev = "absent" /\ s.loader = "late" -> Deny([s EXCEPT !.loader = "killed"])
    [] dev = "absent" /\ s.loader = "none" /\ ~s.m.tried ->
         LET t == [s EXCEPT !.m.tried = TRUE]
         IN  IF box.file = "missing" \/ ~forks THEN Deny(t) ELSE [t EXCEPT !.loader = "young"]
    [] OTHER -> s

\* The tail of poll(): what a request that waits becomes
Decide(s, conflict, forks) ==
  IF ~s.m.requested \/ s.m.granted \/ s.m.native \/ s.m.ready # "yes" THEN s
  ELSE IF conflict THEN Deny(s)
  ELSE IF dev # "ours" THEN EnsureModule(s, forks)
  ELSE IF ~child.conn THEN Stop(s)  \* the send fails
  ELSE IF s.m.offer = "native" THEN Sent([s EXCEPT !.m.native = TRUE], "NATIVE")
  ELSE Sent([s EXCEPT !.m.granted = TRUE, !.boot = Grant(@)], "PROXY")

\* poll() on one packet.  A proxied transaction (or RASTER) is answered, and a
\* malformed one is not
Receive(s, p, conflict, forks) ==
  IF s.m.native \/ (s.m.granted /\ p # "packet") THEN s
  ELSE IF s.m.granted THEN Sent(s, "reply")
  ELSE IF s.m.requested \/ p # "request" THEN Deny(s)
  ELSE Decide([s EXCEPT !.m.requested = TRUE], conflict, forks)

\* zaparoo_scanout::poll, with the Bootstrap::grant of its caller.  recv returns 0
\* for a socket whose other end is closed and for an empty packet alike
ScanoutPoll(s, conflict, forks) ==
  LET t == IF ~s.m.open \/ s.m.granted \/ s.m.native
             THEN [s EXCEPT !.loader = Reaped(@)] ELSE s
  IN  IF ~t.m.open THEN t
      ELSE IF t.rx # << >> /\ Head(t.rx) = "empty" THEN Stop(t)
      ELSE IF t.rx # << >>
        THEN Receive([t EXCEPT !.rx = Tail(@)], Head(t.rx), conflict, forks)
      ELSE IF ~child.conn THEN Stop(t)
      ELSE Decide(t, conflict, forks)

-----------------------------------------------------------------------------
(* alt_launcher.cpp *)

\* alt_launcher_poll before waitpid
PollHead(conflict, forks) ==
  LET s == ScanoutPoll(S, conflict, forks)
  IN  IF s.m.open THEN s ELSE [s EXCEPT !.boot = Fallback(@)]

\* expire(), which ends the offer with the black
Expire(s) ==
  IF s.boot.hidden /\ s.boot.timer = "due" THEN Stop([s EXCEPT !.boot = Shown]) ELSE s

\* A poll with a live (or not yet dead) frontend; finalize_spawn ends it once the
\* tty is ready or its deadline passed, and the FPGA is ready
PollLive(conflict, forks) ==
  /\ child.st \in {"up", "stuck"}
  /\ \E s \in {Expire(PollHead(conflict, forks))} :
       Becomes([s EXCEPT !.m.ready = IF @ = "due" THEN "yes" ELSE @])
  /\ UNCHANGED <<box, dev, child>>

\* The /proc scan finds another mapper or not, a fork fails or not
Poll == \E conflict, forks \in BOOLEAN : PollLive(conflict, forks)

Stopped(s) == [Stop(s) EXCEPT !.m.ready = "no", !.tx = << >>]

\* A poll that reaps the frontend: a reload exit re-enters alt_launcher_init, a
\* clean exit returns to normal mode, a crash respawns until the third
PollReap ==
  /\ child.st = "dead"
  /\ \E conflict, forks \in BOOLEAN : \E s \in {Stopped(PollHead(conflict, forks))} :
       \/ \E mode \in Modes : Becomes([s EXCEPT !.m.mode = mode, !.boot = Begin(mode)])
       \/ Becomes([s EXCEPT !.m.mode = IF box.direct THEN "none" ELSE "proxy",
                            !.boot = Shown])
       \/ Becomes([s EXCEPT !.boot = Begin(m.mode)])
  /\ child' = NoChild
  /\ UNCHANGED <<box, dev>>

\* A poll without a frontend that does not spawn one
PollIdle ==
  /\ child.st = "none"
  /\ Becomes(Stopped(S))
  /\ UNCHANGED <<box, dev, child>>

\* alt_launcher_init, from the menu or after a script
LauncherInit ==
  /\ child.st = "none"
  /\ \E mode \in Modes : Becomes([S EXCEPT !.m.mode = mode, !.boot = Begin(mode)])
  /\ UNCHANGED <<box, dev, child>>

\* prepare(); a killed loader that is still there leaves no offer
Prepare(s, mode) ==
  LET t == Stop(s)
  IN  [t EXCEPT !.m = [@ EXCEPT !.tried = FALSE, !.offer = mode,
                         !.open = mode # "none" /\ t.loader = "none" /\ box.profile],
                !.tx = << >>]

\* A poll that spawns: begin_bootstrap, prepare, fork
Spawn ==
  /\ child.st = "none"
  /\ \E forks \in BOOLEAN :
       LET s == Prepare([Stopped(S) EXCEPT !.boot = Begin(m.mode)], m.mode)
       IN  IF forks
             THEN /\ Becomes(s)
                  /\ child' = [NoChild EXCEPT !.st = "up", !.conn = s.m.open]
             ELSE /\ Becomes(Stop([s EXCEPT !.boot = Shown]))
                  /\ UNCHANGED child
  /\ UNCHANGED <<box, dev>>

\* wait_launcher_stopped for a core load, a script (black ends) or a restart
\* (alt_launcher_init follows).  A stuck frontend is retained with all it owns
StopFrontend ==
  /\ child.st \in {"up", "stuck", "dead"}
  /\ \/ /\ child.st # "stuck"
        /\ \/ Becomes([Stopped(S) EXCEPT !.boot = Shown])
           \/ \E mode \in Modes : Becomes([Stopped(S) EXCEPT !.m.mode = mode, !.boot = Begin(mode)])
        /\ child' = NoChild
     \/ /\ child.st # "dead"
        /\ child' = [child EXCEPT !.st = "stuck"]
        /\ UNCHANGED <<m, boot, loader, rx, tx>>
  /\ UNCHANGED <<box, dev>>

-----------------------------------------------------------------------------
(* The clock, the loader process and the frontend *)

BootDue ==
  /\ boot.timer = "armed"
  /\ boot' = [boot EXCEPT !.timer = "due"]
  /\ UNCHANGED <<box, m, loader, dev, child, rx, tx>>

FinalizeDue ==
  /\ child.st \in {"up", "stuck"} /\ m.ready = "no"
  /\ m' = [m EXCEPT !.ready = "due"]
  /\ UNCHANGED <<box, boot, loader, dev, child, rx, tx>>

\* 3000 ms since the fork
LoaderLate ==
  /\ loader = "young"
  /\ loader' = "late"
  /\ UNCHANGED <<box, m, boot, dev, child, rx, tx>>

\* The hash is checked before insmod; the module may make it in after a SIGKILL
LoaderInserts ==
  /\ loader \in Running /\ box.file = "ours" /\ dev = "absent"
  /\ dev' = "ours"
  /\ UNCHANGED <<box, m, boot, loader, child, rx, tx>>

LoaderExits ==
  /\ loader \in Running
  /\ loader' \in {"bad"} \cup (IF dev = "ours" /\ loader # "killed" THEN {"ok"} ELSE {})
  /\ UNCHANGED <<box, m, boot, dev, child, rx, tx>>

\* The frontend sends: the request once its probes are done, then transactions;
\* or, of another version, anything
FrontendSends(p) ==
  /\ child.st = "up" /\ child.conn /\ m.open
  /\ Len(rx) + Len(tx) < InFlight
  /\ rx' = Append(rx, p)
  /\ child' = [child EXCEPT !.view = IF p = "request" /\ @ = "start" THEN "asked" ELSE @,
                             !.empty = @ \/ p = "empty"]
  /\ UNCHANGED <<box, m, boot, loader, dev, tx>>

\* It reads an answer, or the end of the connection
FrontendReads ==
  /\ child.st = "up" /\ child.conn
  /\ tx # << >> \/ ~m.open
  /\ IF tx # << >>
       THEN /\ tx' = Tail(tx)
            /\ child' = [child EXCEPT !.view =
                 CASE Head(tx) = "PROXY" -> "slots"
                   [] Head(tx) = "NATIVE" -> "native"
                   [] Head(tx) = "NO" -> "alone"
                   [] OTHER -> @]
       ELSE /\ child' = [child EXCEPT !.view = "alone", !.conn = FALSE]
            /\ UNCHANGED tx
  /\ UNCHANGED <<box, m, boot, loader, dev, rx>>

\* It lets its slots go and closes its end
FrontendLeaves ==
  /\ child.st = "up" /\ child.conn
  /\ child' = [child EXCEPT !.view = "alone", !.conn = FALSE]
  /\ tx' = << >>
  /\ UNCHANGED <<box, m, boot, loader, dev, rx>>

\* It exits, or is gone at last; a helper it started may keep its end open
FrontendDies ==
  /\ child.st \in {"up", "stuck"}
  /\ \E conn \in {FALSE, child.conn} :
       child' = [child EXCEPT !.st = "dead", !.conn = conn, !.view = "alone"]
  /\ UNCHANGED <<box, m, boot, loader, dev, rx, tx>>

Next ==
  \/ Poll \/ PollReap \/ PollIdle \/ LauncherInit \/ Spawn \/ StopFrontend
  \/ BootDue \/ FinalizeDue \/ LoaderLate \/ LoaderInserts \/ LoaderExits
  \/ \E p \in Packet : FrontendSends(p)
  \/ FrontendReads \/ FrontendLeaves \/ FrontendDies

Spec == Init /\ [][Next]_vars

\* Main polls, its timers expire (tty deadline and FPGA, 8000/250 ms, 3000 ms),
\* and a frontend reads what it is sent; neither it nor the loader must end.
\* Fairness is on the poll that finds no conflict and whose fork works: fairness
\* of Poll would promise the conflict or the failure that answers a request
FairSpec ==
  /\ Spec
  /\ WF_vars(PollLive(FALSE, TRUE)) /\ WF_vars(BootDue) /\ WF_vars(FinalizeDue) /\ WF_vars(LoaderLate)
  /\ WF_vars(FrontendReads)

-----------------------------------------------------------------------------
(* Properties *)

\* "Ownership ends on socket EOF or after Main stops the child" (SCANOUT.md) and
\* "live bus ownership has no timeout" (bootstrap.h): as long as a frontend that
\* was told it has the slots (or the native window) runs, keeps its socket and
\* never sent an empty packet, which the code takes for EOF, Main counts it as the
\* owner, whatever timer, denial, other packet or failed stop comes; and Main
\* grants only a request, for the module it verified, under the offer it made,
\* with no startup timer left to take the grant back.
LeaseHolds ==
  /\ child.st \in {"up", "stuck"} /\ child.conn /\ ~child.empty =>
       /\ child.view = "slots" => m.granted
       /\ child.view = "native" => m.native
  /\ m.granted => m.offer = "proxy" /\ dev = "ours" /\ (boot.hidden => boot.timer = "off")
  /\ m.native => m.offer = "native" /\ dev = "ours"
  /\ m.open => child.st # "none"

\* A frontend that asks is answered or sees the connection end, though the module
\* loader may hang for ever: the 3000 ms of ensure_module.
RequestIsAnswered ==
  child.st = "up" /\ child.view = "asked" ~> child.st # "up" \/ child.view # "asked"

\* "Keep startup black without trapping legacy/fallback frontends indefinitely"
\* (bootstrap.h): with a frontend that runs, black ends or the frontend has the
\* slots, whether it never asks, is denied, got no offer because an old loader
\* was not gone, or disconnects after a grant.
BlackEnds ==
  boot.hidden /\ child.st = "up" ~> ~boot.hidden \/ m.granted \/ child.st # "up"

StartupSettles == RequestIsAnswered /\ BlackEnds
=============================================================================
