------------------------- MODULE FrontendLifecycle -------------------------
(***************************************************************************)
(* support/zaparoo/alt_launcher.cpp: how Main starts, supervises, stops    *)
(* and suspends the external frontend, with the callers that drive it: the *)
(* poll cothread (alt_launcher_poll and the command FIFO), the UI cothread *)
(* (OSD pages and scripts), fpga_load_rbf / app_restart (which end this    *)
(* Main), user_io_init (which starts the next one) and the kernel (exits,  *)
(* stops that time out, the death of Main).                                *)
(*                                                                         *)
(* The cothreads share one thread and interleave only where switch_to_vt   *)
(* yields: pc says where co_poll stands, and every other handler is one    *)
(* step.  The file-static variables of alt_launcher.cpp are the record s.  *)
(* A timer that is armed may be found expired or not at any poll, so it is *)
(* a Boolean.  Left out: the native CRT path and Direct Video (s_native_crt*)
(* and cfg.direct_video are off), the display's EDID dance beyond whether  *)
(* an EDID has been read, and everything that only draws.                  *)
(***************************************************************************)
EXTENDS Naturals

CONSTANTS
  Pid,          \* process ids the kernel may give a frontend
  NoPid,        \* s_pid == 0
  HasBootstrap, \* whether the core and the bridge can hold the screen black
  Faults        \* what may go wrong, a subset of AllFaults

AllFaults == {"stop_times_out", "fork_fails", "main_dies", "orphan_survives",
              "binary_changes", "load_fails"}

ASSUME LifecycleAssumption ==
  /\ NoPid \notin Pid
  /\ HasBootstrap \in BOOLEAN
  /\ Faults \subseteq AllFaults

CrashLimit == 3
Strikes == 0 .. CrashLimit - 1   \* crashes Main lets pass

Cores == {"launcher", "menu", "game"}   \* the core in the FPGA

VARIABLES
  s,        \* the static variables of alt_launcher.cpp
  proc,     \* what each process id stands for
  enabled,  \* zaparoo_settings_frontend_enabled(), persisted
  binary,   \* the frontend's binary is on the storage
  edid,     \* video_get_edid() has a valid EDID
  core,     \* the core in the FPGA
  booting,  \* a fresh Main that has not run user_io_init yet
  pc,       \* co_poll: "idle", or in switch_to_vt of "acquire" or "finalize"
  ui        \* co_ui: "pages", or showing a script that is "running",
            \* "ended" or "lost" (its fork failed and ttypid is -1)

vars == <<s, proc, enabled, binary, edid, core, booting, pc, ui>>

Statics ==
  [pid : Pid \cup {NoPid},      \* s_pid
   pending : BOOLEAN,           \* s_init_pending
   respawn : BOOLEAN,           \* s_respawn_timer armed
   crashes : Strikes,           \* s_crash_count
   gaveUp : BOOLEAN,            \* s_gave_up
   escaped : BOOLEAN,           \* s_escaped
   resume : BOOLEAN,            \* s_resume_after_script
   lease : BOOLEAN,             \* s_console_lease
   script : BOOLEAN,            \* s_script_running
   tty : BOOLEAN,               \* s_tty_deadline armed
   ready : BOOLEAN,             \* s_scanout_ready
   reassert : BOOLEAN,          \* s_hdmi_fb_reassert_timer armed
   black : BOOLEAN,             \* s_bootstrap.hidden()
   hadEdid : BOOLEAN,           \* s_spawn_had_edid
   installed : BOOLEAN]         \* what alt_launcher_installed() answers

\* A process id is free ("none"), a child of this Main that runs, that was sent
\* SIGKILL but is not dead ("dying") or that exited and is not reaped ("exit0",
\* "exit42", "crash": another code or a signal), or a frontend of an earlier Main.
Own == {"run", "dying", "exit0", "exit42", "crash"}
Exited == {"exit0", "exit42", "crash"}
ProcState == {"none", "orphan"} \cup Own

TypeOK ==
  /\ s \in Statics
  /\ proc \in [Pid -> ProcState]
  /\ enabled \in BOOLEAN /\ binary \in BOOLEAN /\ edid \in BOOLEAN
  /\ core \in Cores
  /\ booting \in BOOLEAN
  /\ pc \in {"idle", "acquire", "finalize"}
  /\ ui \in {"pages", "running", "ended", "lost"}

-----------------------------------------------------------------------------
(* The functions of alt_launcher.cpp, on the statics t *)

Configured(t) == ~t.escaped /\ t.installed /\ enabled

\* begin_bootstrap: black only under a menu core that can be held black
Black == HasBootstrap /\ core # "game"

\* A Main that was just started; the cache of alt_launcher_installed is read here
Fresh ==
  [pid |-> NoPid, pending |-> FALSE, respawn |-> FALSE, crashes |-> 0,
   gaveUp |-> FALSE, escaped |-> FALSE, resume |-> FALSE, lease |-> FALSE,
   script |-> FALSE, tty |-> FALSE, ready |-> FALSE, reassert |-> FALSE,
   black |-> FALSE, hadEdid |-> FALSE, installed |-> binary]

\* Faulty variant: a queued start leaves an armed respawn timer behind
InitIfKeepsTimer(t, e) ==
  IF ~e \/ t.escaped \/ ~t.installed \/ t.pid # NoPid \/ t.pending \/ t.gaveUp
    THEN t
    ELSE [t EXCEPT !.crashes = 0, !.tty = FALSE, !.pending = TRUE, !.black = Black]

\* alt_launcher_init, with enabled as it is once the caller has set it to e
InitIf(t, e) ==
  IF ~e \/ t.escaped \/ ~t.installed \/ t.pid # NoPid \/ t.pending \/ t.gaveUp
    THEN t
    ELSE [t EXCEPT !.crashes = 0, !.respawn = FALSE, !.tty = FALSE,
                   !.pending = TRUE, !.black = Black]

\* wait_launcher_stopped reaped the child
Stopped(t) == [t EXCEPT !.pid = NoPid, !.ready = FALSE]

\* stop_launcher once no child is left; a restart keeps the screen black
StopAll(t, restart) ==
  [t EXCEPT !.pid = NoPid, !.ready = FALSE,
            !.black = restart /\ t.black,
            !.reassert = FALSE, !.respawn = FALSE, !.tty = FALSE,
            !.pending = FALSE, !.crashes = 0, !.gaveUp = FALSE,
            !.escaped = FALSE, !.resume = FALSE]

\* reset_launcher_state
ResetState(t) ==
  [t EXCEPT !.black = FALSE, !.ready = FALSE, !.pid = NoPid, !.respawn = FALSE,
            !.tty = FALSE, !.reassert = FALSE, !.crashes = 0, !.gaveUp = FALSE,
            !.pending = FALSE, !.escaped = FALSE, !.resume = FALSE]

\* return_to_normal_mode
NormalMode(t, esc) ==
  [t EXCEPT !.black = FALSE, !.respawn = FALSE, !.reassert = FALSE,
            !.crashes = 0, !.gaveUp = TRUE, !.escaped = esc]

\* alt_launcher_prepare_for_script once no child is left: without a child there
\* was nothing to stop, and only the console is taken
Prepare(t) ==
  IF t.pid = NoPid
    THEN [t EXCEPT !.script = TRUE]
    ELSE [Stopped(t) EXCEPT !.resume = TRUE, !.respawn = FALSE, !.tty = FALSE,
                            !.crashes = 0, !.pending = FALSE, !.gaveUp = FALSE,
                            !.black = FALSE, !.reassert = FALSE,
                            !.script = TRUE]

\* Faulty variant: an escape is not forgotten before the start is queued
ResumeKeepsEscape(t) ==
  IF t.resume
    THEN InitIf([t EXCEPT !.script = FALSE, !.resume = FALSE, !.gaveUp = FALSE],
                enabled)
    ELSE [t EXCEPT !.script = FALSE]

\* alt_launcher_resume_after_script
Resume(t) ==
  IF t.resume
    THEN InitIf([t EXCEPT !.script = FALSE, !.resume = FALSE, !.gaveUp = FALSE,
                          !.escaped = FALSE], enabled)
    ELSE [t EXCEPT !.script = FALSE]

\* Faulty variant: the signal is sent and the child is taken to be gone
StopSucceedsUnreaped ==
  proc' = IF s.pid \in Pid /\ proc[s.pid] = "run"
            THEN [proc EXCEPT ![s.pid] = "dying"] ELSE proc

\* wait_launcher_stopped(s_pid): the child is reaped, or it outlives the SIGKILL
\* for more than a second; a pid that is no child of ours is never reaped
StopSucceeds ==
  /\ s.pid # NoPid => proc[s.pid] \in Own
  /\ proc' = IF s.pid = NoPid THEN proc ELSE [proc EXCEPT ![s.pid] = "none"]

StopTimesOut ==
  /\ s.pid # NoPid
  /\ \/ /\ "stop_times_out" \in Faults
        /\ proc[s.pid] \in {"run", "dying"}
        /\ proc' = [proc EXCEPT ![s.pid] = "dying"]
     \/ /\ proc[s.pid] \notin Own
        /\ UNCHANGED proc

\* kill_stale_frontends: a process in uninterruptible sleep outlives its SIGKILL
Sweep(t) ==
  IF ~t.installed THEN UNCHANGED proc
  ELSE \E left \in SUBSET {p \in Pid : proc[p] = "orphan"} :
         /\ "stop_times_out" \notin Faults => left = {}
         /\ proc' = [p \in Pid |-> IF proc[p] = "orphan" /\ p \notin left
                                     THEN "none" ELSE proc[p]]

-----------------------------------------------------------------------------
(* The poll cothread: alt_launcher_poll *)

Idle == pc = "idle" /\ ~booting

Alive == s.pid # NoPid /\ proc[s.pid] \notin Exited

\* What every reaping pass does before it looks at the exit status
Reaped(t) == [t EXCEPT !.pid = NoPid, !.ready = FALSE, !.tty = FALSE,
                       !.reassert = FALSE]

\* waitpid(s_pid, WNOHANG) returned the child, which had ended with `how'
Reap(how) ==
  /\ Idle
  /\ s.pid # NoPid /\ proc[s.pid] = how
  /\ proc' = [proc EXCEPT ![s.pid] = "none"]
  /\ UNCHANGED <<enabled, binary, edid, core, booting, pc, ui>>

\* Exit code 42: the frontend asks to be started again
PollReload ==
  /\ Reap("exit42")
  /\ s' = InitIf([Reaped(s) EXCEPT !.respawn = FALSE, !.crashes = 0], enabled)

\* Exit code 0: the user left the frontend
PollEscape ==
  /\ Reap("exit0")
  /\ s' = NormalMode(Reaped(s), TRUE)

\* Faulty variant: a crash is not counted
PollCrashUncounted(stable) ==
  /\ Reap("crash")
  /\ s' = [Reaped(s) EXCEPT !.respawn = TRUE, !.black = Black]

\* Faulty variant: the respawn is scheduled before the limit is looked at
PollCrashTimerFirst(stable) ==
  LET strikes == IF stable THEN 1 ELSE s.crashes + 1
      armed == [Reaped(s) EXCEPT !.respawn = TRUE, !.black = Black] IN
  /\ Reap("crash")
  /\ s' = IF strikes >= CrashLimit
            THEN [armed EXCEPT !.crashes = 0, !.gaveUp = TRUE, !.escaped = FALSE]
            ELSE [armed EXCEPT !.crashes = strikes]

\* Faulty variant: a fourth crash is allowed
PollCrashLate(stable) ==
  LET strikes == IF stable THEN 1 ELSE s.crashes + 1 IN
  /\ Reap("crash")
  /\ s' = IF strikes > CrashLimit
            THEN NormalMode(Reaped(s), FALSE)
            ELSE [Reaped(s) EXCEPT !.crashes = strikes, !.respawn = TRUE,
                                   !.black = Black]

\* Any other end is a crash; one after ten seconds of uptime starts a new count
PollCrash(stable) ==
  LET strikes == IF stable THEN 1 ELSE s.crashes + 1 IN
  /\ Reap("crash")
  /\ s' = IF strikes >= CrashLimit
            THEN NormalMode(Reaped(s), FALSE)
            ELSE [Reaped(s) EXCEPT !.crashes = strikes, !.respawn = TRUE,
                                   !.black = Black]

\* spawn(): the fork succeeds, or nothing is left of the attempt
Spawn(t) ==
  LET b == [t EXCEPT !.black = Black, !.ready = FALSE, !.hadEdid = edid]
  IN \/ \E p \in Pid :
          /\ proc[p] = "none"
          /\ proc' = [proc EXCEPT ![p] = "run"]
          /\ s' = [b EXCEPT !.pid = p, !.tty = TRUE]
     \/ /\ "fork_fails" \in Faults
        /\ s' = [b EXCEPT !.black = FALSE]
        /\ UNCHANGED proc

\* Faulty variant: the start waits for an EDID without a limit
PollSpawnNeedsEdid ==
  /\ Idle /\ s.pid = NoPid /\ Configured(s) /\ s.pending /\ edid
  /\ Spawn([s EXCEPT !.pending = FALSE])
  /\ UNCHANGED <<enabled, binary, edid, core, booting, pc, ui>>

\* The queued start; it is held back while an EDID may still come, for 3 s at most
PollSpawn ==
  /\ Idle /\ s.pid = NoPid /\ Configured(s) /\ s.pending
  /\ Spawn([s EXCEPT !.pending = FALSE])
  /\ UNCHANGED <<enabled, binary, edid, core, booting, pc, ui>>

\* The respawn timer fired
PollRespawn ==
  /\ Idle /\ s.pid = NoPid /\ Configured(s) /\ ~s.pending /\ s.respawn
  /\ Spawn([s EXCEPT !.respawn = FALSE])
  /\ UNCHANGED <<enabled, binary, edid, core, booting, pc, ui>>

\* Faulty variant: a stop that timed out is ignored
RestartAnyway(t, e) ==
  (StopSucceeds \/ StopTimesOut) /\ s' = InitIf(StopAll(t, TRUE), e)

\* stop_launcher(false) and, when it could stop, alt_launcher_init, on statics t
Restart(t, e) ==
  \/ StopSucceeds /\ s' = InitIf(StopAll(t, TRUE), e)
  \/ StopTimesOut /\ s' = t

\* The display answered behind a child that was started without an EDID
PollLateEdid ==
  /\ Idle /\ Alive /\ ~s.lease /\ ~s.hadEdid /\ edid
  /\ Restart(s, enabled)
  /\ UNCHANGED <<enabled, binary, edid, core, booting, pc, ui>>

\* finalize_spawn up to the yields of switch_to_vt
PollFinalize ==
  /\ Idle /\ Alive /\ s.tty
  /\ s' = [s EXCEPT !.tty = FALSE]
  /\ pc' = "finalize"
  /\ UNCHANGED <<proc, enabled, binary, edid, core, booting, ui>>

\* finalize_spawn after switch_to_vt, whatever happened meanwhile; MenuHide
\* leaves any UI state, the one of a running script included
FinalizeDone ==
  /\ pc = "finalize" /\ ~booting
  /\ s' = [s EXCEPT !.reassert = TRUE, !.ready = TRUE]
  /\ pc' = "idle"
  /\ ui' = "pages"
  /\ UNCHANGED <<proc, enabled, binary, edid, core, booting>>

\* The rest of a pass: the scan-out is granted, the re-assert timer runs out, the
\* black start ends; without a child the scan-out offer is withdrawn
PollScreen ==
  /\ Idle
  /\ \/ s.pid # NoPid /\ s.ready /\ s.reassert /\ s' = [s EXCEPT !.reassert = FALSE]
     \/ Alive /\ s.reassert /\ s' = [s EXCEPT !.reassert = FALSE]
     \/ Alive /\ s.black /\ s' = [s EXCEPT !.black = FALSE]
     \/ s.pid = NoPid /\ s.ready /\ s' = [s EXCEPT !.ready = FALSE]
  /\ UNCHANGED <<proc, enabled, binary, edid, core, booting, pc, ui>>

-----------------------------------------------------------------------------
(* Commands from the FIFO, read by the poll cothread *)

\* alt_launcher_set_enabled
SetEnabled(b) ==
  LET t == [s EXCEPT !.installed = binary] IN
  /\ enabled # b
  /\ enabled' = b
  /\ \/ /\ s.lease
        /\ s' = [t EXCEPT !.resume = b /\ binary /\ core = "launcher"]
        /\ UNCHANGED proc
     \/ /\ ~s.lease /\ ~b
        /\ \/ StopSucceeds /\ s' = StopAll(t, FALSE)
           \/ StopTimesOut /\ s' = t
     \/ /\ ~s.lease /\ b
        /\ IF binary /\ core = "launcher"
             THEN Restart(t, b)
             ELSE s' = t /\ UNCHANGED proc
  /\ UNCHANGED <<binary, edid, core, booting, pc, ui>>

CmdSetEnabled == Idle /\ \E b \in BOOLEAN : SetEnabled(b)

\* zaparoo_console acquire, up to the yields of switch_to_vt
CmdAcquire ==
  /\ Idle /\ Configured(s) /\ ~s.lease
  /\ \/ StopSucceeds /\ s' = Prepare(s) /\ pc' = "acquire"
     \/ StopTimesOut /\ UNCHANGED <<s, pc>>
  /\ UNCHANGED <<enabled, binary, edid, core, booting, ui>>

\* acquire after switch_to_vt: the lease is held, or the VT never became active
AcquireDone ==
  /\ pc = "acquire" /\ ~booting
  /\ \/ s' = [s EXCEPT !.lease = TRUE] /\ ui' = "pages"
     \/ s' = Resume(s) /\ UNCHANGED ui
  /\ pc' = "idle"
  /\ UNCHANGED <<proc, enabled, binary, edid, core, booting>>

\* The guard of alt_launcher_command: a command it does not answer is dropped
Answers(t) == t.installed

\* zaparoo_console release by the holder
CmdRelease ==
  /\ Idle /\ Answers(s) /\ s.lease
  /\ s' = Resume([s EXCEPT !.lease = FALSE])
  /\ UNCHANGED <<proc, enabled, binary, edid, core, booting, pc, ui>>

-----------------------------------------------------------------------------
(* The UI cothread.  A held lease keeps the OSD closed. *)

OnPages == ~booting /\ ui = "pages" /\ ~s.lease

\* The frontend page lives in the menu core's system menu
UiSetEnabled == OnPages /\ core # "game" /\ \E b \in BOOLEAN : SetEnabled(b)

\* CRT toggle, video standard, screen position: alt_launcher_respawn and kin
UiRestart ==
  /\ OnPages /\ core # "game"
  /\ Restart(s, enabled)
  /\ UNCHANGED <<enabled, binary, edid, core, booting, pc, ui>>

\* A script or a document viewer is started.  A fork that fails is an ended
\* viewer (ttypid = 0) for a document, but a lost one (ttypid = -1) for a script.
UiStartScript ==
  /\ OnPages
  /\ \/ /\ StopSucceeds /\ s' = Prepare(s)
        /\ \/ ui' = "running"
           \/ "fork_fails" \in Faults /\ ui' \in {"ended", "lost"}
     \/ StopTimesOut /\ UNCHANGED <<s, ui>>
  /\ UNCHANGED <<enabled, binary, edid, core, booting, pc>>

UiScriptExits ==
  /\ ~booting /\ ui = "running"
  /\ ui' = "ended"
  /\ UNCHANGED <<s, proc, enabled, binary, edid, core, booting, pc>>

\* waitpid(-1, WNOHANG) reaps whatever child has exited
UiReapAny ==
  /\ ~booting /\ ui = "lost"
  /\ \E p \in Pid : /\ proc[p] \in Exited
                    /\ proc' = [proc EXCEPT ![p] = "none"]
  /\ ui' = "ended"
  /\ UNCHANGED <<s, enabled, binary, edid, core, booting, pc>>

\* The key that closes the script's screen
UiEndScript ==
  /\ ~booting /\ ui = "ended"
  /\ s' = Resume(s)
  /\ ui' = "pages"
  /\ UNCHANGED <<proc, enabled, binary, edid, core, booting, pc>>

-----------------------------------------------------------------------------
(* fpga_load_rbf, app_restart and user_io_init *)

\* Faulty variant: the bitstream is loaded although the stop timed out
ShutDownAnyway ==
  IF s.pid = NoPid THEN Sweep(s) ELSE StopSucceeds \/ StopTimesOut

\* alt_launcher_shutdown when it returns true
ShutDown == IF s.pid = NoPid THEN Sweep(s) ELSE StopSucceeds

\* A new Main is executed for core c
Reexec(c) ==
  /\ core' = c
  /\ s' = Fresh
  /\ booting' = TRUE /\ pc' = "idle" /\ ui' = "pages"

\* fpga_load_rbf from the FIFO, the CD autorun or an OSD page: refused when the
\* frontend could not be stopped, and given up when the file does not open
LoadCore ==
  /\ ~booting
  /\ pc = "idle" \/ OnPages
  /\ \/ /\ ShutDown
        /\ \/ \E c \in Cores : Reexec(c)
           \/ /\ "load_fails" \in Faults
              /\ s' = ResetState(s)
              /\ UNCHANGED <<core, booting, pc, ui>>
     \/ StopTimesOut /\ UNCHANGED <<s, core, booting, pc, ui>>
  /\ UNCHANGED <<enabled, binary, edid>>

\* The start of a Main.  The stock menu core may be replaced by the launcher core
\* first; a menu core queues the frontend.
UserIoInit ==
  /\ booting
  /\ \/ /\ core = "menu"
        /\ Sweep(s)
        /\ Reexec("launcher")
     \/ /\ s' = IF core = "game" THEN s ELSE InitIf(s, enabled)
        /\ booting' = FALSE
        /\ UNCHANGED <<proc, core, pc, ui>>
  /\ UNCHANGED <<enabled, binary, edid>>

-----------------------------------------------------------------------------
(* The environment *)

\* A frontend ends by itself, or a SIGKILL finally takes effect
ChildExits ==
  /\ \E p \in Pid :
       \/ /\ proc[p] = "run"
          /\ \E how \in Exited : proc' = [proc EXCEPT ![p] = how]
       \/ proc[p] = "dying" /\ proc' = [proc EXCEPT ![p] = "crash"]
       \/ proc[p] = "orphan" /\ proc' = [proc EXCEPT ![p] = "none"]
  /\ UNCHANGED <<s, enabled, binary, edid, core, booting, pc, ui>>

\* Main is killed and started again; PR_SET_PDEATHSIG takes its children along,
\* except one that had not called prctl yet or cannot die yet
MainDies ==
  /\ "main_dies" \in Faults /\ ~booting
  /\ \E left \in SUBSET {p \in Pid : proc[p] \in {"run", "dying"}} :
       /\ "orphan_survives" \notin Faults => left = {}
       /\ proc' = [p \in Pid |-> IF p \in left THEN "orphan"
                                 ELSE IF proc[p] \in Own THEN "none" ELSE proc[p]]
  /\ Reexec(core)
  /\ UNCHANGED <<enabled, binary, edid>>

EdidChanges ==
  /\ edid' = ~edid
  /\ UNCHANGED <<s, proc, enabled, binary, core, booting, pc, ui>>

BinaryChanges ==
  /\ "binary_changes" \in Faults
  /\ binary' = ~binary
  /\ UNCHANGED <<s, proc, enabled, edid, core, booting, pc, ui>>

-----------------------------------------------------------------------------
Init ==
  /\ enabled \in BOOLEAN /\ binary \in BOOLEAN /\ edid \in BOOLEAN
  /\ core \in Cores
  /\ proc = [p \in Pid |-> "none"]
  /\ s = Fresh
  /\ booting = TRUE
  /\ pc = "idle" /\ ui = "pages"

Poll == \/ PollReload \/ PollEscape \/ (\E stable \in BOOLEAN : PollCrash(stable))
        \/ PollSpawn \/ PollRespawn \/ PollLateEdid \/ PollFinalize \/ FinalizeDone \/ PollScreen
Command == CmdSetEnabled \/ CmdAcquire \/ AcquireDone \/ CmdRelease
Ui == \/ UiSetEnabled \/ UiRestart \/ UiStartScript \/ UiScriptExits
      \/ UiReapAny \/ UiEndScript
Load == LoadCore \/ UserIoInit
Environment == ChildExits \/ MainDies \/ EdidChanges \/ BinaryChanges

Next == Poll \/ Command \/ Ui \/ Load \/ Environment

Spec == Init /\ [][Next]_vars

\* switch_to_vt is bounded by 500 ms, every pass of co_poll polls the launcher and
\* co_ui gets its turn; users and children do what they like
Fairness ==
  /\ WF_vars(FinalizeDone) /\ WF_vars(AcquireDone) /\ WF_vars(UserIoInit)
  /\ SF_vars(PollSpawn) /\ SF_vars(PollRespawn)
  /\ WF_vars(UiReapAny)

FairSpec == Spec /\ Fairness

\* What happens to a frontend that does nothing but crash within ten seconds and is
\* left to itself
ChildCrashes ==
  /\ \E p \in Pid : proc[p] = "run" /\ proc' = [proc EXCEPT ![p] = "crash"]
  /\ UNCHANGED <<s, enabled, binary, edid, core, booting, pc, ui>>

Undisturbed ==
  \/ UserIoInit \/ PollSpawn \/ PollRespawn \/ PollCrash(FALSE) \/ PollLateEdid
  \/ PollFinalize \/ FinalizeDone \/ PollScreen \/ ChildCrashes

-----------------------------------------------------------------------------
(* Properties *)

\* Main never has two frontends: whatever stops, restarts, suspends and respawns
\* interleave, every child that is not reaped is the one s_pid names.
OneFrontend == \A p \in Pid : proc[p] \in Own => p = s.pid

\* At most one start is on its way, and none behind a live frontend: otherwise a
\* later poll would fork a second frontend onto the first one's tty and buffer.
OneStartIn(t) ==
  /\ t.pid # NoPid => ~t.pending /\ ~t.respawn
  /\ ~(t.pending /\ t.respawn)
OneStart == OneStartIn(s)

\* After an escape (exit code 0) or three crashes nothing is queued, so only an
\* explicit request of the user brings the frontend back.
GivenUpIn(t) ==
  /\ t.escaped => t.gaveUp
  /\ t.gaveUp => t.pid = NoPid /\ ~t.pending /\ ~t.respawn
GivenUpStaysDown == GivenUpIn(s)

\* The FPGA is never reconfigured, for another core or the same one again, and Main
\* never replaced over a frontend of this Main: a live one would deadlock the bridge
\* that is reset.  A frontend that an earlier Main left behind is not spoken of.
NoReloadUnderFrontend ==
  [][core' # core \/ (~booting /\ booting') => \A p \in Pid : proc'[p] \notin Own]_vars

\* Main lets go of a frontend's pid only when that process is gone: a stop that
\* timed out leaves Main the owner, so nothing else takes the screen.
OwnedUntilReaped ==
  [][s.pid # NoPid /\ s'.pid # s.pid => proc'[s.pid] \notin Own]_vars

\* A frontend that was suspended for a script or a lease and is still wanted when
\* Main forgets the suspension is started again: the resume flag is consumed by
\* nothing but a start, whoever ran meanwhile.  (A core load that fails is left
\* out: fpga_load_rbf forgets the suspension before it opens the file.)
ResumeRestores ==
  [][s.resume /\ ~s'.resume /\ enabled' /\ s'.installed /\ ~booting' /\ ~LoadCore
       => s'.pending \/ s'.pid # NoPid]_vars

\* A crash loop ends: when from some time on nothing happens but a frontend that
\* crashes young each time, it is not respawned forever.
CrashLoopEnds == <>[][Undisturbed]_vars => <>[][~PollCrash(FALSE)]_vars

\* A queued start happens: while the frontend is wanted and the start is still
\* queued, co_poll gets to spawn it.
StartHappens == (s.pending /\ Configured(s)) ~> (~s.pending \/ ~Configured(s))

\* While a script or a console lease holds the console, no frontend runs.
ConsoleIsExclusive == Idle /\ s.script => s.pid = NoPid
=============================================================================
