# Formal models of Main_MiSTer (Zaparoo fork)

Main_MiSTer ("Main") is the Linux process on the ARM side of a MiSTer: it loads
FPGA cores, serves their disk sectors, draws the OSD and handles input. This fork adds an external frontend that Main starts and supervises,
forced saves before a core is replaced, and other parts under
`src/support/zaparoo/`. This directory holds TLA+ models of the parts of Main whose
difficulty is order and failure rather than data, TLC configurations that check
them on small instances, and TLAPS proofs of their safety for every value of the constants.

| Module | Models | Checked by | Proved in |
|---|---|---|---|
| `JobQueue` | what `offload.h` promises (abstract) | through `OffloadQueue` | |
| `OffloadQueue` | `offload.cpp`: the ring of jobs, two threads | `OffloadQueue.cfg` | `OffloadQueueProofs` |
| `FrontendLifecycle` | `alt_launcher.cpp` and its callers | `Lifecycle*.cfg` | `FrontendLifecycleProofs` |
| `SaveFlush` | `save.cpp`, with the OSD, sector writes and core loads | `SaveFlush.cfg`, `SaveFlushExit.cfg` | `SaveFlushProofs` |
| `CdAutorun` | `physical_cd_autorun.cpp`: poll and worker thread | `CdAutorun.cfg` | `AutorunWatchdogProofs` |
| `ScanoutLease` | `scanout.cpp` and `bootstrap.h`, as `alt_launcher_poll` drives them | `ScanoutLease.cfg` | `ScanoutLeaseProofs` |
| `CoreWatchdog`, `WatchdogState` | `core_watchdog.cpp`, `service_boot.cpp` on the clock of `hardware.cpp` | `CoreWatchdog.cfg` | `AutorunWatchdogProofs` |
| `RaSession` | `achievements.cpp`, `ra_http.cpp` and rcheevos' `rc_client.c`: login, load, mirror, awards | `RaSession.cfg` | `RaSessionProofs` |
| `RaAddrList` | `ra_ramread.cpp` and the poll of `achievements_snes.cpp` against the core's scan | `RaAddrList.cfg`, `RaAddrListLate.cfg` | `RaAddrListProofs` |
| `LanceCard` | `support/minimig/minimig_a2065*`: the A2065 ethernet card between Main, the FPGA and the 68k | `LanceCard.cfg` | `LanceCardProofs` |

`MC*.tla` instantiate a module for TLC. `PROJECT.json` maps every definition to
its source lines and lists runs, mutants, findings, hazards and theorems. Operators
commented "Faulty variant" are plausible bugs; nothing of the specifications uses
them, each is put in place of the definition after it to see that some property fails.

To run: `tlc -config Lifecycle.cfg MCFrontendLifecycle.tla` (and likewise for the other
configurations), `tlapm FrontendLifecycleProofs.tla` (and likewise for the other proof modules).

## 1. Inventory

### How Main runs

`scheduler.cpp` runs two cothreads on one thread: `co_poll` (`user_io_poll`, input, the command
FIFO, `zaparoo_poll` with the launcher's and the disc's polls) and `co_ui` (`HandleUI`,
`OsdUpdate`). A cothread keeps the thread until it yields, which `co_poll` does
once per pass and, inside a pass, in `switch_to_vt`. Real threads are few: the
offload worker, the disc worker, detached helpers, and the RetroAchievements HTTP worker.
Loading a core never returns: `fpga_load_rbf` ends in `app_restart`, which executes Main again;
all statics start over and only files, the FPGA and orphaned children remain.

### Components

| Component | State | Operations | What makes it correct |
|---|---|---|---|
| Frontend supervision, `alt_launcher.cpp` | pid, queued start, respawn timer, crash count, gave-up / escaped / resume / lease flags, black screen, cached "installed" | spawn, reap, respawn, give up, stop, suspend, resume, enable, lease, late-EDID restart, shutdown, sweep | one frontend; none lost, none over a reset bridge; a wanted one comes back; a crash loop ends; the console has one user |
| Core loading, `fpga_io.cpp`, `user_io_init` | core in the FPGA, re-exec | `fpga_load_rbf`, `app_restart` | no reload over a live frontend; a failed load leaves a working Main |
| Save flush, `save.cpp` | flush state, four deadlines, OSD signal ownership, Autosave override, deferred load | request, defer, hold, report, reissue | nothing unsaved is lost; OSD and option given back; the load goes on |
| Offload worker, `offload.cpp` | ring, two counters, quit flag | add, run, stop | each job once, in order, none lost by a stop; nobody blocks for good |
| Disc autorun, `physical_cd_autorun.cpp` | handled fingerprint and file, generation, posted result, retries | poll, detect, launch | a disc is launched once per insertion; a stale result is not used |
| Scan-out hand-off, `scanout.cpp`, `bootstrap.h` | offer, request, lease, socket, module loader, black start screen and its timer | prepare, poll, deny, grant, stop | a lease lasts as long as its holder; a request is answered; black ends |
| Command FIFO, `command.cpp`, `command_stream.h` | partial line, discard flag | read, dispatch | fragments and overlong lines never become other commands |
| Settings and kiosk, `settings.cpp`, `kiosk.cpp` | persisted bytes | load, set | what is shown is what is stored, also when the write fails |
| Core watchdog and service boot, `core_watchdog.cpp`, `service_boot.cpp` | two deadlines on a 32-bit clock, `core.pid` | poll, ensure, boot | a dead service is ensured soon, a failing one not in a loop |
| RetroAchievements session, `achievements.cpp`, `ra_http.cpp`, `rc_client.c` | login, load and mirror flags; two rings; load in progress, game, scheduled retries | poll, load, reset, eject; request, answer | the flags and rc_client agree on one game; only its live memory is evaluated; no unlock is lost |
| RetroAchievements address list, `ra_ramread.cpp` | pending, published and active list, request id, header sample | collect, sample, promote, add, flush, prune, clear | a cached byte is served for its own address |
| A2065 ethernet card, `minimig_a2065*.cpp` | CSR0, event marks, ring offsets, read index of the CMD ring; rings in DDR3 | poll, register write, transmit, receive, reset | no event lost or seen twice; only owned descriptors touched; every frame moves on |
| RetroAchievements handlers, `achievements_<console>.cpp` | per-console translation | read, poll, hash | data around the same poll; not modelled |
| Timers, `hardware.cpp` | 32-bit millisecond counter | `GetTimer`, `CheckTimer` | deadlines across the wrap |
| IDE and CD emulation, `ide*.cpp` | ATA register file, transfer state | command, read, write | no data request without data |
| Menu, input, video, files, core drivers, vendored code | large tables and register protocols | | data and I/O; not modelled (section 6) |

### How they interact

- The FIFO and the OSD both enable, disable and restart the frontend; the console lease
  (FIFO) and scripts (OSD) both suspend it. `fpga_load_rbf` shuts it down.
- `fpga_load_rbf` first asks `zaparoo_save_defer_core_load`; the flush later reissues the load.
- The flush and the menu share one `OSD_STATUS` bit; `MenuHide`, `Info` and the
  state machine of `HandleUI` all drive it.
- `user_io_poll` serves the sector writes that a flush waits for (`zaparoo_save_note_write`).
- The disc autorun launches through `xml_load` / `fpga_load_rbf`, so its own Main ends with a launch.
- `app_restart` drains the offload queue (`offload_stop`) before it executes.
- `alt_launcher_poll` drives the scan-out lease and the black start screen; every stop of the frontend ends a lease.
- The watchdog polls from `zaparoo_poll`, only while a frontend runs; every start of Main ensures the service too.
- `user_io` and the ROM loader tell `achievements.cpp` of loads, resets and ejects; the frames it evaluates go through
  the address list, which the core scans in DDRAM at every VBlank without any lock.

### What is hard

Two cothreads between yields, worker threads against their poll, children that
outlive SIGKILL, a Main that is replaced in the middle of anything, and several owners
of one flag. `PROJECT.json` lists each such place as a hazard, with its
line and the properties that would catch it going wrong.

## 2. The models and the code

### OffloadQueue and JobQueue

One step per critical section of `s_queue_lock`, `pthread_cond_wait` splitting it in two;
the call of the handler and `handler = nullptr`, which the worker does outside the lock, are
steps of their own. POSIX lets `pthread_cond_wait` return without a signal, and both waits are under an `if`: `WorkerWakes` and `AddWorkWakes` let a
wait end at any time, and what the code then does is modelled (an empty handler ends the program, `wpc = "aborted"`; a ninth job takes a slot
in use). The history variable `early` notes that this happened, and the properties except what follows from it. `head` and `tail` are counters modulo `Wrap`, so the ring's dependence
on `QUEUE_SIZE` dividing 2^32 is an assumption (`Wrap % QueueSize = 0`). A job is its number.
`Abstract == INSTANCE JobQueue` maps the backlog and the run history to the FIFO the header promises.

### FrontendLifecycle

The file statics of `alt_launcher.cpp` are the record `s`; each function that changes them
(`InitIf`, `StopAll`, `ResetState`, `NormalMode`, `Prepare`, `Resume`, `Reaped`) is an operator from record to
record, so a handler's effect is a composition as in the code. `proc` is the kernel's side: a child
runs, is dying after SIGKILL, has exited with a kind of status, or belongs to an earlier
Main. A stop either reaps the child or times out. `pc` says where `co_poll` stands
when it yields inside `switch_to_vt` (`finalize_spawn` and the acquisition of a lease);
only there can `co_ui` come in between, everything else is one step. Timers are Booleans: a
poll may or may not find an armed timer expired. `Faults` selects what may go wrong, so that a run
can isolate a cause. Not modelled: native CRT and Direct Video, the socket of the scan-out, how the
EDID is obtained, the kiosk's refusals.

### SaveFlush

The states of `save.cpp` with its deadlines as ticks that remain, its ownership of `OSD_STATUS`, the
Autosave override, and its surroundings: the menu (`none`, `closing`, `info`, `open`),
the sector writes (`CoreDumps`, `CoreWrites`) and `fpga_load_rbf`. A core is any
combination of arcade, a live save row and an Autosave option. `turn` alternates the cothreads. Time passes at any point, also inside a turn: Main
notes a sector write before it makes it, and the storage may take longer than the quiet time.
The history variable `slow` notes that a write of the dump came later than `Gap`, by the core's or the storage's doing. A load that does not open, or whose frontend
does not stop, is one of `Load`'s outcomes. The Autosave row can be switched whenever the menu is open, also under the banner of a flush that a load has
raised over it; `switched` notes that this happened while the option was overridden.
`owed` says that something that was unsaved when the flush was asked for, or when a load came in front of its hold, still is. A load
that arrives in the hold or in the report window joins that flush and gets no dump of its own, as in the code: it is reissued when the
flush's dump is through, which the property demands of it too, and what the game dirties after that dump is outside `owed`.

### CdAutorun

A poll is three steps, ending at its lock sections (`set_active`, `take_result`, `start_detection`),
the launch a fourth; the worker is four (`open_disc_drive`, `CDROM_MEDIA_CHANGED`, the reads, the last lock
section). `disc` and `changed` are the drive: the flag is set by an insertion and cleared by the
query. The code only compares `s_generation` for equality, so a detection carries whether
it has moved since (`old`); that it could come round after 2^32 activations is left out. `WorkerQueryFails` is the query that returns an error: the
detection goes on with the medium taken for unchanged. `Forgets` is `save_handled_fingerprint(0)`, which may fail and is not looked at. Identification by TOC, signatures or DVD structure
is one step that finds the disc or fails. `lost`, `overlapped`, `unheard` (the query has failed for this disc), `launched` and `ours` are history.

### ScanoutLease

A poll is one step (the one yield on its path, in the `switch_to_vt` of `finalize_spawn`, is in `FrontendLifecycle`; an `s_scanout_ready` set for a frontend that has gone meanwhile is cleared by the next poll or spawn): `ScanoutPoll`, `Grant`, `Fallback`, the reap or `Expire`
and `finalize_spawn` in the order of `alt_launcher_poll`. The statics of `scanout.cpp` are the record `m`, the socket is two queues,
`boot` is `s_bootstrap` with its timer armed or due, and `loader` the insmod child with how long it has run and how it ended. `box` is what the
installation is like. The frontend is a process of its own with its own belief (`view`): it may follow SCANOUT.md, send anything at any time,
an empty packet too (on which `recv` returns 0, as at the end of a connection; the history `empty` notes it), leave, exit, hang in the kernel under SIGKILL, or leave the socket to a helper.
Left out: the words of a proxied transaction, and that `video_fb_set` writes the framebuffer mode only when the black screen is not up.

### CoreWatchdog

Time is a counter modulo `Wrap` and a deadline a point of it compared with `>=`, 0 meaning "not armed", as `GetTimer` and `CheckTimer` do on a
32-bit `unsigned long`. The main loop polls within `Stall` ticks. `core` is the service and what its pid file says of it: none, its own pid, or
a pid that is gone or another program's. `since` and `late` are ghosts that measure the distance of starts and the wait of a dead service.
`Missed` names the one way the code loses a deadline: the end of the round in which the deadline lay passed under a stalled poll, or while the frontend was
inactive and the poll returned before it looked. It is then
passed only at the end of the next round, 49 days later; `BackSoon` excepts exactly that, `RestartsAreSpaced` a retry set across the wrap.

### RaSession

The main thread's steps are the callbacks of `ra_http_poll`, one at a time, the rest of `ra_poll_impl`, and the two halves of
`rc_client_do_frame`; the worker takes and finishes a request in between. Loads, resets and ejects come from the other cothread
while `ra_poll_impl` is not running, since it never yields. `a` holds the flags of `achievements.cpp`, `c` what `rc_client` keeps
between a request and its answer: the load in progress, the game, the achievements unlocked, those whose award waits for a retry, and
the hashes known not to be listed. A load has a name, so an answer to an aborted load is told from one of its successor although both are of the
same ROM; names are reused once no answer carries them. `q.lost` collects the calls that nobody will answer,
because both rings were full. A game may be the Unknown one `rc_client` installs for a hash the server does not list; the client then has a game and `achievements.cpp` none. The
DDRAM mirror is its magic, whether its frame counter moved since it was looked at, and its contents. A frame of the core is a scan that begins (busy is set) and ends (the header is
written, with the counter); Main reads busy and does not look at it. `live` says that the last scan that ended began after Main had cleared the memory, `partial` that
it had begun before, so that its first part is zero. The mirror's magic and counter are taken to be written at the end of a scan; the FPGA's side is not in the repository, and
the comment at `ra_ramread.cpp:447` says so of the address list's header. A request that finds its ring full and the error answer that stands for it are one step.
Left out: popups, the list screens, leaderboards, rich presence, multi-hash games, hardcore, what curl does.

### RaAddrList

Every load or store of the shared memory by Main is a step, and so is every address the core reads: `LoadFrame`, `LoadId`, `LoadAgain` are
`s_refresh_resp`; `WriteAddrs`, `WriteCount`, `Commit` the three stores of a publish (the `memcpy` of the addresses is one step). Lists are sorted
and without duplicates, hence sets; the index of an address is its rank, which is what shifts when an address is inserted below it. A byte in the cache *is* the
address it was read from, so `EvaluatedIsAligned` can ask whether an index still names the address it is served for. `s_publish_window_open` is a
timing argument: a header less than 8 ms old and at least 16.6 ms between two of them. It is modelled as the promise it makes: `NewFrame(TRUE)` is a poll that is in time, and
as long as it runs no VBlank comes (`VBlank`), except from a core that restarts. The model is of the smart-cache path of the SNES; the other consoles call the same functions from polls of the same shape.
Left out: the legacy path, recollects, stall recovery (off by default), the full list, the query mailbox (a missed address is
answered), ids of a Main before a re-exec.

### LanceCard

Main, the FPGA and the 68k share DDR3 without a lock, so a step is one access to what they share: a descriptor's OWN bit, an entry of the CMD
ring, CSR_SHADOW, INT_STATE. `lance` holds the statics of `registers.cpp` and `rings.cpp`; `main.pc` is where `a2065_poll` is and `main.due` the stores that
`push_csr_shadow` and `update_int_state` have left. `Written` is `chip_wput` of CSR0 in the order of its tests. Indices of the CMD ring count from the entry the
FPGA has last seen passed, so that nothing counts without end. The FPGA's side is what `minimig_a2065_ddr3.h` and the comments say of it; the driver is the level 2 server
that `rings_rx_unserviced` describes (read CSR0, acknowledge, scan) over a sender whose demand may overtake its OWN bit, and it waits for a STOP to be applied.
Left out: internal loopback, chained buffers, the other CSRs, a CMD ring that overflows, the limit of 64 frames in `on_transmit_cb`, the interface itself.

## 3. Runs

All bounds are in the `.cfg` files. Distinct states are in brackets.

| Run | Shows |
|---|---|
| `offload_queue` [1.7k] | A ring of 2 slots, counters that wrap at 4, 6 jobs: full, empty, wrapped and stopped in every interleaving, and waits that end without a signal. No one blocks; as long as no wait has ended too early there is no slot race (`NoSlotRace`), and the ring refines `JobQueue`: every job runs, in order, once, no empty handler called, drained by a stop. |
| `lifecycle` [250k] | Two pids, every fault: one frontend, one start, given up stays down, no reload (of another core or the same one) under a frontend, owned until reaped, a suspended one comes back, a queued start happens, a crash loop ends. |
| `save_flush` [647k] | Every kind of core, popup and menu: a live save row loses nothing unless a write of its dump was late, the Autosave option comes back unless it was switched over the override, the OSD comes back, the menu keeps its signal, a held-back load goes on. |
| `cd_autorun` [182k] | Two discs, one launchable, failing queries, reads, writes, removals of the file and thread creation, restarts: see below. |
| `scanout_lease` [72k] | Every installation, device and offer, two packets under way, frontends of any behaviour: a lease holds as long as its holder runs, keeps the socket and has sent no empty packet (`LeaseHolds`); a request is answered and black ends (`StartupSettles`). |
| `core_watchdog` [841k] | A clock of 29 ticks with a check every 2, a retry every 6 and stalls of 3: a dead service is ensured within `Bound` (`BackSoon`), starts keep their distance (`RestartsAreSpaced`). |
| `ra_session` [340k] | A listed and an unlisted ROM, one achievement, rings of 2, three acts of the user: flags and client agree (`SessionAgrees`), a frame is evaluated for the loaded game only, and once a scan has ended since the memory was cleared (`EvaluatedIsLive`), unlocks are kept (`EarnedIsKept`), the session comes to rest (`SessionSettles`). |
| `ra_addr_list` [2.1M] | Two addresses, ids and frames up to 4: cached bytes belong to their address (`EvaluatedIsAligned`), no insertion forgotten (`InsertsArePublished`). |
| `lance_card` [166k] | One descriptor each way, batches of two, one CSR0 write under way: no acknowledged bit comes back (`ShadowCoversIndex`), no frame or sent descriptor is left without its interrupt (`NoneForgotten`), frames are taken, sent and given back (`FramesMove`). |

Bounds. Two ring slots with a wrap at twice that reach every relation of the counters: empty,
full, wrapped once and twice. Two pids suffice because `Next` never looks at more than `s.pid` and "some other pid": one
is this Main's, one an earlier Main's; the proofs remove the bound for the safety properties.
`save_flush` keeps the order of the code's times (200 ms < 400 ms < 1200 ms < 2500 ms) and a
dump of two writes, the least number with a pause inside it. `cd_autorun` needs one retry to see the count reset and the
limit. Its `VIEW` leaves the history variables out of a state in which detections have overlapped: every property excepts the disc in the drive from then on, and no guard
reads them. It has no other bound.
`scanout_lease` holds one frontend at a time, as the code does; two packets let a second one arrive before the first is answered.
`core_watchdog` starts the clock anywhere and keeps check < stall < retry, with a round long enough for two whole retries, so every position
of a deadline to the wrap occurs. In `ra_session` two ROMs are one to abort and one to follow it, and the three acts are spent by loads, resets, ejects and lost mirrors in any order;
a ring of two fills up with one award and one load. In `ra_addr_list` an insertion below the other address is the shift that misaligns, and four ids are
a bootstrap, a reset with a second one, and two revisions (three addresses with three ids and frames pass as well, 3.4M states).

In `lance_card` one write under way is the least with an event between an acknowledge and its application, and a ring of one descriptor is refilled
while it is being scanned (the invariants also hold with two receive descriptors and two writes under way, 3.9M states).

`CHECK_DEADLOCK FALSE` stands where the system may stop: a joined worker, a Main over a game core with nobody
asking for anything, a Main that has been replaced. The configurations of `CdAutorun`, `ScanoutLease`, `CoreWatchdog`, `RaSession`, `RaAddrList` and `LanceCard`
check deadlock.

Where a plain property fails, a history variable names the one way it does, and the property excepts that and nothing else. Each exception was seen to be
needed by taking it out of the property:

- `cd_autorun`: `lost`, a detection that had read and cleared the change was thrown away, or Main could not forget the disc before
  (`unlink` failed); `overlapped`, a worker was started before the last result was used; `unheard`, `CDROM_MEDIA_CHANGED` failed for this disc.
  Without those: a disc is launched once per insertion (`OncePerInsertion`), a swapped disc is not taken for the handled one
  (`SwapIsSeenUnlessLost`), and a disc that stays is handled (`DiscIsHandled`).
- `offload_queue`: `early`, a wait returned before what it waits for had happened.
- `save_flush`: `slow`, a write of the dump came later than the gap, so the hold may end in the silence; `switched`, the user
  switched Autosave on while a flush had it overridden, and the end of the hold switched it off again.
- `scanout_lease`: `empty`, the holder of the lease has sent an empty packet.
- `ra_session`: `partial`, the scan that was in flight when Main cleared the memory ended after it.
- `core_watchdog`: `Missed`, a deadline that lay just below the wrap was passed over by a stalled poll, or by the polls of
  an inactive frontend, which do not look at the deadlines.

`ResumeRestores` leaves out a load that fails: `fpga_load_rbf` calls `reset_launcher_state` before it opens
the file, which forgets a suspension.

With the publish window of `ra_addr_list` the seqlock of `s_refresh_resp` and the gate `seladdr_frame_evaluable` are redundant: weakening either leaves all
its properties true. They matter for the publishes that do not keep the window, the ones `ra_addr_list_late` is about.

### Runs that find a disagreement

| Run | What the code says | What the run shows |
|---|---|---|
| `lifecycle_console` | "the frontend is suspended" while a script runs (`alt_launcher.cpp`, before `publish_status`) | with no child, `alt_launcher_prepare_for_script` keeps a queued start, and the next poll spawns it on top of the script |
| `save_exit` | the flush's promise that a core with something to save is saved before a load | the screen the load was picked from closes and lowers `OSD_STATUS`, or a second load hides the menu; the flush takes it for a popup and lets the load go |
| `ra_addr_list_late` | "Uses the same sample as s_sync_active" (`ra_ramread.cpp:413`), and the fallback that publishes outside the window relies on the `is_ready` net (line 798) | `is_ready` takes two samples; a header that comes between them lets a frame be evaluated by the old snapshot over bytes in the new order |

### Observed, not made a run

Each was met while modelling; the first five were counterexamples of a run of this project before the runs above took their place.

- After a core load whose file is missing the frontend is gone, nothing restarts it, and `publish_status` still says active:
  `fpga_load_rbf` shuts it down before it opens the file (`fpga_io.cpp:456`).
- A console lease becomes unanswerable when the binary is gone and `alt_launcher_set_enabled` refreshes the cache under it (`alt_launcher.cpp:1131`).
- When `fork` fails in `MENU_SCRIPTS_FB`, `ttypid` stays -1, the screen waits for good and the frontend stays suspended (`menu.cpp:8601`).
- `frontend off` under a lease keeps a queued start's black screen, and a later output change stops with `restart`, which `alt_launcher_init`
  then refuses: the output stays black (`alt_launcher.cpp:1548`).
- A disc swapped for the handled one is taken for it when the detection that read and cleared `CDROM_MEDIA_CHANGED` is thrown away
  (`physical_cd_autorun.cpp:581`; `ZAPAROO_FORK.md:70` lets the fingerprint hold "until removal is observed").
- `save_handled_fingerprint(0)` returns false when `unlink` fails, with the handled disc and its file unchanged (line 190), and lines 860 and 868 do not look: a
  swapped disc that cannot be read then is taken for the one before.
- When `CDROM_MEDIA_CHANGED` fails, a handled disc is read as if nothing was known of it (line 581). Four failed reads put the "unreadable" mark in place of its
  fingerprint (872), and the next such query with a good read launches the same insertion again.
- `pthread_cond_wait` may return without a signal, and both waits of `offload.cpp` are under an `if`. A worker that wakes so calls an empty
  `std::function` (line 55), which throws and ends the program; a main thread that wakes so writes a ninth job over one that has not run.
- An empty SOCK_SEQPACKET packet makes `recv` return 0, on which `scanout.cpp:290` ends the connection and drops a live lease while its holder still draws.
  `SCANOUT.md:53` and the comment at `scanout.cpp:318` say that invalid packets do not end a lease.
- A sector write that takes 400 ms ends a hold in the pass that makes it: `user_io.cpp:3553` notes it before the O_SYNC write, and `save.cpp:407` then finds the
  quiet time over, in the middle of a dump.
- The Autosave row (`menu.cpp:2845`) can be switched while a deferred flush has it overridden; `autosave_override_end` (`save.cpp:141`) writes the value
  from before the hold over the user's choice, which is seen when the load then fails.
- A load that a hold adopts (`save.cpp:301`) gets no dump of its own; what the game leaves unsaved after that flush's dump is lost.
- A scan of the core that is in flight when Main clears the mirror ends afterwards with a moved counter: Main validates the mirror and evaluates
  memory whose first part is zero until the next scan. `ra_poll_impl` reads `busy` (`achievements.cpp:2080`) and discards it (line 2090).
- The Unknown game that `rc_client_process_resolved_hash` installs for an unlisted hash (`rc_client.c:2622`) stays in the client until the next load begins, beside `g_game_loaded`
  that is not set.
- A frontend of an earlier Main that outlives its SIGKILL still holds the bridge when a core is loaded: `kill_stale_frontends` waits a second
  for it and goes on (`alt_launcher.cpp:622`). `NoReloadUnderFrontend` speaks of this Main's own children.
- `finalize_spawn` goes on after its yield although the OSD may have stopped its frontend meanwhile: it arms
  the re-assert timer and marks the scan-out ready for nobody. `PollScreen` takes both back.
- `ZAPAROO_FORK.md:27` has every shutdown sweep stale frontends; the sweep runs only when Main has no child of its own.
- A popup (`MENU_INFO`) counts as the user's OSD for `menu_present`: a `zaparoo_save` that arrives under one is
  dropped for a console core without a save row.
- An arcade core's upload request from an earlier extraction ends the hold before the new extraction is through.
- A disc whose launch fails afterwards (the frontend does not stop, the core's file is missing) stays handled.
- A deadline just below the wrap of the clock is missed for a round when the poll stalls over it or the frontend is inactive; one set past the wrap has passed at once
  (`hardware.cpp:65`): a watchdog's second start may then follow the first without its 30 s.
- `achievements.cpp:2020` says "suppressing login/load" for a core that is not adapted, but a login in flight still completes and its callback may begin a load.
- `ra_http_request`: "Must still call callback so the caller doesn't hang". When both rings are full it does not, and the flag that waits stays set for good.
- `g_login_deferred` is set and cleared and never acted on: a login that could not start (no network) waits for the next load.
- Scheduled award retries run from `rc_client_do_frame` only, since nothing calls `rc_client_idle`; without a loaded game they wait, and a re-exec drops them.
- The success of an award with no achievements remaining reads `client->game`, which may be unloaded by then (`rc_client.c`, `rc_client_award_achievement_callback`).
- `achievements_deinit` and `ra_http_deinit` are never called. Hardcore is switched on only without a game, so `EVENT_RESET` is never raised.
- `ra_snes_addrlist_end_collect` publishes without the window (`achievements_console_lookup.cpp:186` says so of GB, NeoGeo and PSX): their recollects meet the same double sample.
- `gotfunc` and `do_transmit` store the descriptor word with the OWN bit before the one with the length or the errors (`minimig_a2065_rings.cpp:406`), and each word
  as two bytes: a 68k that scans at that moment takes a frame with the length of an older one.
- `a2065_set_iface` (`menu.cpp:7480`) restarts the card under the Amiga's driver, which is left with a stopped chip; a TDMD then starts it, with the old ring offsets gone.
- STRT together with INIT sets TXON and RXON by the `am_mode` of the initialisation before (`minimig_a2065_registers.cpp:241`).
- A driver that initialises again before its STOP is applied can find a frame in the new ring that `rx_handed` has forgotten.
- A read that ends past the end of an image fills part of the slot's buffer and leaves an older tail behind it (`user_io.cpp:3713`), although
  a failed read gives "an empty block" (line 3725); two slots on one file do not see each other's writes through their buffers.
- `zaparoo_save_note_write` counts a sector write before it is made (`user_io.cpp:3553`): the flush goes quiet after writes that failed, too.
- With the acknowledge ordering of `ack_mask` in place, the RINT raised again in `a2065_poll` is never needed by the model: without it all properties hold.

## 4. Fairness

- `OffloadQueue`: no fairness of waits that end by themselves; weak fairness of the worker (its thread is scheduled and handlers return) and of the main
  thread inside a call; nothing obliges anyone to add or to stop.
- `FrontendLifecycle`: weak fairness of the two continuations after `switch_to_vt`, which is bounded by 500 ms,
  and of `user_io_init`; strong fairness of the queued start and the respawn, since `co_poll` passes again and
  again and the deadlines that hold a start back (3 s at most) run out, while other commands disable and
  enable the step; weak fairness of the script screen's `waitpid` (`HandleUI` runs in every turn). Users,
  children and the display owe nothing.
- `SaveFlush`: the scheduler alternates (`ZaparooPoll`, `HandleUI`) and time passes (`Tick`). Nothing says that a core goes on with its dump.
- `CdAutorun`: polls and the worker go on. Strong fairness says that a drive with a disc, its reads, thread creation and
  a write to `/tmp` succeed now and then, and that a result that identifies the disc is taken and saved, which is needed only for `DiscIsHandled`. That the poll comes while a result is
  there is the poll's one-second period against a worker that ends.
- `ScanoutLease`: Main polls, the tty deadline, the startup timers and the 3000 ms of the loader run out, and a frontend reads what
  it is sent. Fairness is on the poll that finds no conflict and whose fork works; fairness of any poll would promise the failure that
  answers a request. Nothing says that the loader ends, a killed process goes, or a frontend sends.
- `RaSession`: the worker and `co_poll` go on and the core draws. Strong fairness: a server that is asked again and again answers
  once, a frame is evaluated again and again (the 700 ms of the save guard end), and a retry falls due. Users owe nothing.
- `LanceCard`: Main polls, the transmit timer runs out now and then (strong), the FPGA samples, the 68k runs its server and is not outrun by the network for ever
  (strong fairness of the end of its scan: a ring of one is refilled as fast as it is emptied). Its driver sends, stops and resets as it likes.
- `CoreWatchdog` and `RaAddrList` have safety only: `BackSoon` bounds the wait by ticks instead.

## 5. Proofs

Every theorem below is proved by TLAPS for every value of the constants that the named `ASSUME` of its module admits, from
an inductive invariant that TLC had checked on the run of the module first. A proof module EXTENDS the model it is about and
nothing of a model was changed for it but two assumptions: `WatchdogAssumption` got `RetryMs > 2` (it is 5000), and
`CdAssumption` that `None` is no disc's fingerprint (0 counts as not identified, `physical_cd_autorun.cpp:870`).
`AutorunWatchdogProofs` holds two parts: it EXTENDS `CdAutorun`, and has the actions of `CoreWatchdog` as the instance `Dog`; the constants, their assumption,
the state and the properties are `WatchdogState`'s, which both extend.

| Module | Theorems | Assumed of the constants |
|---|---|---|
| `FrontendLifecycleProofs` | `SpecTypeOK`, `SpecOneFrontend`, `SpecOneStart`, `SpecGivenUpStaysDown`, `SpecNoReloadUnderFrontend`, `SpecOwnedUntilReaped`, `SpecResumeRestores` | `NoPid` is no pid, the faults are known ones |
| `OffloadQueueProofs` | `SpecTypeOK`, `SpecNoSlotRace`, `SpecStepsOfTheQueue` | the ring is not empty and its size divides `Wrap`, as 8 divides 2^32 |
| `SaveFlushProofs` | `SpecTypeOK`, `SpecLiveRowLosesNothing`, `SpecAutosaveIsTheUsers`, `SpecSignalIsShared` | the order of the deadlines of `save.cpp`; `Gap`, from which on a write counts as late, is below the quiet deadline, and a dump without late writes fits below the cap |
| `ScanoutLeaseProofs` | `SpecTypeOK`, `SpecLeaseHolds` | the socket holds at least one packet |
| `AutorunWatchdogProofs` | `SpecTypeOK`, `SpecOncePerInsertion`, `SpecSwapIsSeenUnlessLost` of `CdAutorun` | `Launchable` are discs, neither "no disc" nor `None` is one |
| `AutorunWatchdogProofs` | `SpecWatchdogTypeOK`, `SpecRestartsAreSpaced`, `SpecBackSoon` of `CoreWatchdog` | `CheckMs`, `Stall` below `RetryMs`, `Wrap` above twice their sum |
| `RaSessionProofs` | `SpecTypeOK`, `SpecSessionAgrees`, `SpecEvaluatedIsLive`, `SpecEarnedIsKept` | an achievement is of one listed game; there are more names for loads than answers that can be under way |
| `RaAddrListProofs` | `SpecTypeOK`, `SpecInsertsArePublished`, `SpecEvaluatedIsAligned` | finitely many addresses; the last theorem assumes `~Fallback` |
| `LanceCardProofs` | `SpecTypeOK`, `SpecShadowCoversIndex`, `SpecNoneForgotten` | rings, batch, socket and the CMD ring are not empty |

The bounds (`MaxJobs`, `MaxUser`, `MaxId`, `MaxFrame`, `InFlight`, `Depth`) are constants as well, so a theorem holds for every bound.

**Frontend.** `IInv == TypeOK /\ OneStart /\ GivenUpStaysDown /\ OneFrontend /\ BootIsClean`.
`OneFrontend` alone is not inductive: a spawn with a child around would break it, and only `OneStart` says that no start is
queued behind a live frontend. `OneStart` needs `GivenUpStaysDown`, since
`return_to_normal_mode` leaves the queue alone and `alt_launcher_init` refuses by the give-up flag. `TypeOK` includes that the
crash count stays below the limit, which is what gives up on the third crash. `BootIsClean` says that a Main that has not run
`user_io_init` owns no child, so that `UserIoInit` may re-execute.
Each operator on the statics keeps `StaticsOK` (type, one start, given up), shown once
per operator (`InitIfOK`, `StopAllOK`, `ResumeOK`, ...); each way to stop, sweep or spawn keeps the children in order
(`StopSucceedsOK`, `SweepOK`, `SpawnOK`, ...); then one lemma per group of actions, and `NextKeepsIInv` puts them together.
`ResumeRestores` is about a step, and needs `Suspended` beside `IInv`: while the console is handed over nothing runs, and a
lease over a frontend that was switched off has no resume to lose. It is the reason why `alt_launcher_set_enabled(false)` has to
drop the resume flag under a lease.

**Offload ring.** `Done` counts the slots given back: `tail` and `head` are `Done` and `added` modulo `Wrap`, a slot is the count modulo `QueueSize`
(`Counters`), the jobs in between are where they were put (`Contents`), and each `pthread_cond_wait` waits for what only the other
thread can end (`Handshake`). Since `QueueSize` divides `Wrap`, the counters may wrap without moving a slot. Two counts less than `QueueSize` apart
have different slots, which is `NoSlotRace`. All of it is said as long as no wait has ended too early (`InTime`); that this happened is never forgotten (`EarlyStays`). The refinement takes `JobQueue`'s backlog to the jobs not yet run; each step is one of `JobQueue`'s or a stutter.
That is `StepsOfTheQueue`, the safety of `ImplementsJobQueue`; the run checks it with the fairness.

**Save flush.** `Option` says that Autosave is overridden only in a hold that took the signal, and that `restore` says so unless the user switched it meanwhile, whence every way out
gives it back. `Signal` says whose OSD_STATUS is. `Dumping` is the argument of the deadlines: while what was unsaved on a core with a live row still is and no write was late, its dump goes on, the quiet
deadline lies beyond the core's next write and the cap beyond its last one.

**Disc autorun.** Both properties are about the step that takes a result, and say something of the medium in the drive then. The invariant follows a detection on
its way there. `Shaped` is what a detection may say at all: it has cleared a change only of a disc it opened, and one taken for the handled one was not read. `Compared` ties it to the
fingerprint its worker was started with, and `Ordered` that fingerprint to what is handled now, unless detections overlapped. `Looking` and `Posted` say so of the worker and of the
result. `Looked` says that a medium whose change has been read is the one that was looked at. `Held` is about a launched disc: Main, the file and every detection know it until it
is ejected or a query fails for it, across restarts of Main (`Mine`: what is handled comes from the file). `Seen` is about the change of a disc that is not handled: it is in the drive's flag, on its way to Main (`Pending`), or Main has forgotten.

**Scan-out.** `LeaseHolds` is not inductive, since an answer lies in the socket before the frontend acts on it: `Told` says that
every answer under way agrees with Main's lease, `Sound` that a lease is for the module that was verified and the offer that was made
and that no startup timer runs under it. Main's functions work on a record of its state, so there is one lemma for each of them and a poll is their composition.

**Watchdog.** Modulo `Wrap`, each of the two deadlines is ahead of the clock, passed, passed too early because it was set across the wrap, or missed. `Sooner` bounds
what is left of the wait in the first three cases, with the numbers that make `BackSoon` tight; the fourth ends the count (`Missed`).
`Spacing` ties the armed retry to the last start, which is `RestartsAreSpaced`.

**RetroAchievements session.** The callbacks of `rc_client` are operators on a world `[q, a, c]`; each keeps the flags in agreement with the client (`Agree`), loses no
award that was under way and makes up no answer of success (`Keeps`), and a poll is one after another. A session is asked for only of a listed ROM, which is in the type of a request and tells a loaded game from an Unknown one. The step that begins a load takes a name no answer
carries; `NewIdIsOne` shows by counting that there is one. Beside the run's invariants, `Live` says that memory that is or will be validated was written by the core since it was
cleared, or by the scan that was in flight then, and `Recorded` that a success under way is recorded by the server.

**Address list.** An argument about ids. While a revision is written its id is nowhere (`Unsent`); afterwards the list in DDRAM is the published one (`Written`), so a scan
with its id reads in place (`Scanned`) and a header with its id says that all bytes are (`Confirmed`). Main's snapshot is the published list when its id is the
request (`Snapshot`). That a poll which sees a new frame sees the request confirmed is `Stale`: a header of another id has a frame Main
has had. It rests on `Window`, that a revision is published before the core's next frame, and on nothing else: with `Fallback`
the run `ra_addr_list_late` finds the property violated, so the theorem has that hypothesis.

**Ethernet card.** `ShadowCoversIndex` follows from the order of Main's two stores (`Indices`). `NoneForgotten` needs the protocol: `Phase` follows the driver from its
write of INIT to the chip having stopped, and says that while it runs no STOP or INIT is on its way and no copy of CSR0 is of a stopped chip; then an event
stays in CSR0 until an acknowledge written after it is drained. `Owed` is `NoneForgotten` with the interrupt server's own steps counted in. The
earliest position that matters is found with `WFMin` of the library: a least element needs no induction over an operator.

Only model-checked:

- all liveness (`StartHappens`, `CrashLoopEnds`, `FramesMove`, `MainProceeds`, `SessionSettles`, `LoadGoesOn`, `StartupSettles`, `DiscIsHandled`) and the fairness in `JobQueue`: the prover has no rule
  for fairness or ENABLED here;
- the runs that expect a violation, which are counterexamples by nature.

## 6. Not modelled, and why

- The cothread scheduler: its interleaving is `pc` and `turn`.
- The command FIFO's framing, the settings files and the kiosk: splitting lines, parsing and writing files one call at a time. What
  the commands do is in `FrontendLifecycle` and `SaveFlush`.
- The OSD menu's screens, input mapping, file formats, video modes, audio, HDMI-CEC, SPI register protocols: data and
  device I/O around single calls.
- The drivers of the emulated machines under `support/`, other than the A2065 card: many separate sector and drive protocols, none of
  which interacts with the parts above but through core loads and sector writes. `ide.cpp` and `ide_cdrom.cpp` likewise.
- The achievement conditions and memory maps of the consoles (data), and the console handlers other than the SNES, whose polls have its shape.
- Vendored code (libco, md5, libchdr, zstd, miniz, ...). Of rcheevos the request and answer states of `rc_client.c` are in `RaSession`,
  since `achievements.cpp` cannot be understood without them.

The map covers a small share of the repository's lines: most of them are the vendored libraries, the
menu, and some sixty emulation drivers.

## 7. Plan

Done: `JobQueue` and `OffloadQueue`; `FrontendLifecycle`; `SaveFlush`; `CdAutorun`; `ScanoutLease`;
`CoreWatchdog` (with the wrapped timer); `RaSession` (with the HTTP rings); `RaAddrList`; `LanceCard`.

Not done, and less worth a run than the above: `SdBlockIO` (the slots' read-ahead buffers, `user_io.cpp:3460` to 3815), `CommandStream` (lines split over
reads, overlong lines), `Settings` with the kiosk, the ATA states of `ide.cpp`, recollects of the address list on the other consoles.

Proved: every safety invariant and action property of the runs that pass, and the safety half of the refinement (section 5).
