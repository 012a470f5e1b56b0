----------------------------- MODULE SaveFlush -----------------------------
(***************************************************************************)
(* support/zaparoo/save.cpp: the forced save of a running game core, with  *)
(* what shares its steps: the OSD of menu.cpp, the sector writes that      *)
(* user_io_poll serves, and fpga_load_rbf, which gives a core load to      *)
(* zaparoo_save_defer_core_load before it replaces the core.               *)
(*                                                                         *)
(* co_poll and co_ui take turns.  A turn of co_poll serves writes, reads   *)
(* commands and ends in zaparoo_poll; a turn of co_ui is one HandleUI.     *)
(* Deadlines are what is left of them in ticks.  The core and the kernel   *)
(* run all the time.  A successful load re-executes Main, which ends a     *)
(* behaviour ("gone"); the next Main starts from Init.                     *)
(*                                                                         *)
(* A core saves when its "Save Backup RAM" row is pulsed, or on the rising *)
(* edge of OSD_STATUS if its Autosave option is on; a console core then    *)
(* writes sectors, an arcade core asks for an upload (UIO_CHK_UPLOAD).     *)
(* The menu core, which has nothing to save, and 64DD disks are left out.  *)
(***************************************************************************)
EXTENDS Integers

CONSTANTS
  MinHold, ArcadeMin, Quiet, MaxHold, Report,   \* the ZSAVE_*_MS in ticks
  DumpWrites,   \* sector writes of a dump
  Gap           \* ticks after which the next write of a dump is late

ASSUME SaveAssumption ==
  /\ {MinHold, ArcadeMin, Quiet, MaxHold, Report, DumpWrites} \subseteq Nat \ {0}
  /\ Gap \in Nat
  \* 200 ms < 400 ms < 1200 ms < 2500 ms
  /\ MinHold < Quiet /\ Quiet < ArcadeMin /\ ArcadeMin < MaxHold
  \* a dump none of whose writes is late: it starts and goes on before it counts as
  \* quiet, and it fits below the cap
  /\ Gap < Quiet /\ DumpWrites * (Gap + 1) < MaxHold

VARIABLES
  core,      \* the running core: arcade, live (its save row), auto (has the option)
  saveOnExit,\* zaparoo_settings_save_on_exit()
  st,        \* s_state, or "gone" when another Main has taken over
  left,      \* s_min_deadline, s_quiet_deadline, s_hold_cap, s_report_deadline
  deferred,  \* s_deferred_load
  osdOpen,   \* s_osd_open
  owns,      \* s_owns_signal
  arcSaved,  \* s_arcade_saved
  canReq,    \* s_arcade_can_request
  restore,   \* s_autosave_restore
  autosave,  \* the core's Autosave option is on
  chosen,    \* the user wants it on
  switched,  \* history: the user switched it last while a flush had it overridden
  menu,      \* menustate: "none", "closing" (MENU_NONE1), "info" or "open"
  osd,       \* OSD_STATUS, and user_io_osd_is_visible()
  dump,      \* steps left of the core's dump
  gap,       \* ticks until the core has to go on with it
  upload,    \* what UIO_CHK_UPLOAD reads of an arcade core: "none", "asked", or "old"
             \* for a request from before the flush was asked for
  owed,      \* what was unsaved when the flush was asked for, or a load in front of
             \* its hold, is still unsaved
  slow,      \* history: in this hold a write of the dump was late, the core's fault
             \* or that of the storage, whose writes Main waits for
  turn       \* whose turn it is: "poll" or "ui"

statics == <<deferred, osdOpen, owns, arcSaved, canReq, restore>>
device == <<dump, gap, upload>>
users == <<chosen, switched>>
vars == <<core, saveOnExit, st, left, statics, autosave, users, menu, osd, device,
          owed, slow, turn>>

TypeOK ==
  /\ core \in [arcade : BOOLEAN, live : BOOLEAN, auto : BOOLEAN]
  /\ saveOnExit \in BOOLEAN
  /\ st \in {"idle", "armed", "hold", "report", "gone"}
  /\ left \in [min : 0 .. ArcadeMin, quiet : 0 .. Quiet, cap : 0 .. MaxHold,
               report : 0 .. Report]
  /\ {deferred, osdOpen, owns, arcSaved, canReq, restore} \subseteq BOOLEAN
  /\ {autosave, chosen, switched, osd, owed, slow} \subseteq BOOLEAN
  /\ menu \in {"none", "closing", "info", "open"}
  /\ dump \in 0 .. DumpWrites /\ gap \in 0 .. Gap
  /\ upload \in {"none", "old", "asked"}
  /\ turn \in {"poll", "ui"}

Init ==
  /\ core \in [arcade : BOOLEAN, live : BOOLEAN, auto : BOOLEAN]
  /\ saveOnExit \in BOOLEAN
  /\ st = "idle" /\ left = [min |-> 0, quiet |-> 0, cap |-> 0, report |-> 0]
  /\ deferred = FALSE /\ osdOpen = FALSE /\ owns = FALSE
  /\ arcSaved = FALSE /\ canReq = FALSE /\ restore = FALSE
  /\ autosave \in BOOLEAN /\ (autosave => core.auto) /\ chosen = autosave
  /\ switched = FALSE /\ slow = FALSE
  /\ menu = "none" /\ osd = FALSE
  /\ dump = 0 /\ gap = 0 /\ upload = "none" /\ owed = FALSE
  /\ turn = "poll"

-----------------------------------------------------------------------------
(* The core *)

\* What a trigger makes of the core; a dump under way answers it
Triggered(yes) ==
  IF yes /\ dump = 0
    THEN dump' = (IF core.arcade THEN 1 ELSE DumpWrites) /\ gap' = Gap
    ELSE UNCHANGED <<dump, gap>>

\* The core sees a rising edge of OSD_STATUS as a request when its option is on
EdgeSaves(edge, on) == edge /\ core.auto /\ on

MenuPresent == menu \in {"info", "open"}

\* Faulty variant: every write extends the whole hold
NotedExtendsCap == IF st = "hold" THEN [left EXCEPT !.quiet = Quiet, !.cap = MaxHold] ELSE left

\* zaparoo_save_note_write
Noted == IF st = "hold" THEN [left EXCEPT !.quiet = Quiet] ELSE left

\* The next write of a dump is served, or an arcade core has finished extracting
CoreDumps ==
  /\ st # "gone" /\ dump > 0
  /\ dump' = dump - 1
  /\ gap' = IF dump = 1 THEN 0 ELSE Gap
  /\ IF core.arcade
       THEN upload' = "asked" /\ UNCHANGED <<left, owed>>
       ELSE /\ turn = "poll"
            /\ left' = Noted
            /\ owed' = (owed /\ dump # 1)
            /\ UNCHANGED upload
  /\ UNCHANGED <<core, saveOnExit, st, statics, autosave, users, menu, osd, slow, turn>>

\* A write that belongs to no dump: a chatty core
CoreWrites ==
  /\ st # "gone" /\ turn = "poll"
  /\ left' = Noted
  /\ UNCHANGED <<core, saveOnExit, st, statics, autosave, users, menu, osd, device, owed, slow,
                 turn>>

\* Faulty variant: a deadline that has passed goes on running
LessPast(n) == n - 1

\* What is left of a deadline a tick later
Less(n) == IF n = 0 THEN 0 ELSE n - 1

\* Time passes, in a turn as well: Main waits for the storage after it has noted
\* the write it serves
Tick ==
  /\ st # "gone"
  /\ left' = [min |-> Less(left.min), quiet |-> Less(left.quiet),
              cap |-> Less(left.cap), report |-> Less(left.report)]
  /\ gap' = Less(gap)
  /\ slow' = (slow \/ (st = "hold" /\ dump > 0 /\ gap = 0))
  /\ UNCHANGED <<core, saveOnExit, st, statics, autosave, users, menu, osd, dump, upload,
                 owed, turn>>

-----------------------------------------------------------------------------
(* Loads and requests *)

\* fpga_load_rbf once nothing holds it back, with the menu in state m and OSD_STATUS
\* at o: Main is replaced; or it goes on in state next, as the frontend does not stop
\* or, with a popup, as the file does not open
Load(m, o, next) ==
  \/ st' = "gone" /\ UNCHANGED <<menu, osd>>
  \/ st' = next /\ menu' = m /\ osd' = o
  \/ /\ st' = next
     /\ osd' = FALSE
     /\ menu' = IF m = "open" THEN "open" ELSE "info"

\* From here on a save counts that is written after it
Owing ==
  /\ owed' = TRUE
  /\ upload' = IF upload = "asked" THEN "old" ELSE upload

\* fpga_load_rbf called with the menu in state m and OSD_STATUS at o: with
\* save-on-exit the load waits for a flush, or for the one under way, which then
\* does not start over
LoadRbf(m, o) ==
  IF saveOnExit
    THEN /\ deferred' = TRUE
         /\ IF st = "idle"
              THEN st' = "armed" /\ osdOpen' = (m \in {"info", "open"})
              ELSE UNCHANGED <<st, osdOpen>>
         /\ IF st \in {"idle", "armed"} THEN Owing ELSE UNCHANGED <<owed, upload>>
         /\ menu' = m /\ osd' = o
         /\ UNCHANGED <<owns, arcSaved, canReq, restore>>
    ELSE Load(m, o, st) /\ UNCHANGED <<statics, upload, owed>>

\* zaparoo_save from the command FIFO; refused while a flush is under way
CmdSave ==
  /\ turn = "poll" /\ st = "idle"
  /\ st' = "armed"
  /\ osdOpen' = MenuPresent
  /\ Owing
  /\ UNCHANGED <<core, saveOnExit, left, deferred, owns, arcSaved, canReq, restore, autosave,
                 users, menu, osd, dump, gap, slow, turn>>

\* A load from the FIFO, a button or the disc autorun; xml_load hides the menu
CmdLoad ==
  /\ turn = "poll" /\ st # "gone"
  /\ LoadRbf(menu, osd) \/ LoadRbf("none", FALSE)
  /\ UNCHANGED <<core, saveOnExit, left, autosave, users, dump, gap, slow, turn>>

-----------------------------------------------------------------------------
(* The OSD: one HandleUI in a turn of co_ui *)

UiTurn == turn = "ui" /\ st # "gone" /\ turn' = "poll" /\ UNCHANGED slow

\* The menu comes up, or one that is up is refreshed, or nothing happens
UiOpen ==
  /\ UiTurn /\ menu \in {"none", "info"}
  /\ menu' = "open" /\ osd' = TRUE
  /\ Triggered(EdgeSaves(~osd, autosave))
  /\ UNCHANGED <<core, saveOnExit, st, left, statics, autosave, users, upload, owed>>

\* The menu is left, a popup has run out; OSD_STATUS falls in the next HandleUI
UiClose ==
  /\ UiTurn
  /\ \/ menu \in {"open", "info"} /\ menu' = "closing" /\ UNCHANGED osd
     \/ menu = "closing" /\ menu' = "none" /\ osd' = FALSE
     \/ menu # "closing" /\ UNCHANGED <<menu, osd>>
  /\ UNCHANGED <<core, saveOnExit, st, left, statics, autosave, users, device, owed>>

\* MENU_SAVE_CHECK, on the way to the generic menu: what the core asks for is saved
UiSaveCheck ==
  /\ UiTurn /\ menu = "open" /\ upload # "none"
  /\ upload' = "none" /\ owed' = (owed /\ upload = "old")
  /\ UNCHANGED <<core, saveOnExit, st, left, statics, autosave, users, menu, osd, dump, gap>>

\* The Autosave row, also under the banner of a flush that a load waits for
UiAutosave ==
  /\ UiTurn /\ menu = "open" /\ core.auto
  /\ autosave' = ~autosave /\ chosen' = autosave' /\ switched' = restore
  /\ UNCHANGED <<core, saveOnExit, st, left, statics, menu, osd, device, owed>>

\* A core is picked: MENU_CORE_FILE_SELECTED1 leaves the menu before it calls
\* fpga_load_rbf, xml_load hides it first, and a reboot row keeps it open
UiLoad ==
  /\ UiTurn /\ menu = "open"
  /\ LoadRbf("closing", osd) \/ LoadRbf("none", FALSE) \/ LoadRbf("open", osd)
  /\ UNCHANGED <<core, saveOnExit, left, autosave, users, dump, gap>>

\* Info() from anywhere: a popup where no menu is open drives OSD_STATUS low
Popup ==
  /\ st # "gone" /\ menu # "open"
  /\ menu' = "info" /\ osd' = FALSE
  /\ UNCHANGED <<core, saveOnExit, st, left, statics, autosave, users, device, owed, slow, turn>>

-----------------------------------------------------------------------------
(* zaparoo_poll, the end of a turn of co_poll *)

PollTurn == turn = "poll" /\ turn' = "ui"

\* ... that begins no hold
PollOn == PollTurn /\ UNCHANGED <<users, slow>>

\* Faulty variant: the option is left as the flush needed it
RestoredNever == UNCHANGED <<autosave, restore>>

\* autosave_override_end; s_autosave_prev was off
Restored == autosave' = (autosave /\ ~restore) /\ restore' = FALSE

\* reissue_load; s_reissuing lets the load pass
Reissue(m, o) == deferred' = FALSE /\ Load(m, o, "idle") /\ UNCHANGED osdOpen

\* arcade_blind_flush: a core that cannot ask is written all the same
Blind(saved) == core.arcade /\ ~saved /\ ~canReq

\* Faulty variant: the signal is not given back
EnterReportKeepsSignal(release, saved, due) ==
  /\ arcSaved' = (saved \/ Blind(saved))
  /\ owed' = (due /\ ~Blind(saved))
  /\ Restored
  /\ IF deferred
       THEN Reissue(menu, osd) /\ UNCHANGED left
       ELSE /\ st' = "report"
            /\ left' = [left EXCEPT !.report = Report]
            /\ UNCHANGED <<deferred, osdOpen, menu, osd>>

\* enter_report, with s_arcade_saved and owed as they are by now: OSD_STATUS is
\* given back, then the load goes on or "Saved" pops up
EnterReport(release, saved, due) ==
  /\ arcSaved' = (saved \/ Blind(saved))
  /\ owed' = (due /\ ~Blind(saved))
  /\ Restored
  /\ IF deferred
       THEN Reissue(menu, osd /\ ~(release /\ owns)) /\ UNCHANGED left
       ELSE /\ st' = "report"
            /\ left' = [left EXCEPT !.report = Report]
            /\ menu' = IF release /\ menu # "open" THEN "info" ELSE menu
            /\ osd' = (osd /\ (release => menu = "open" /\ ~owns))
            /\ UNCHANGED <<deferred, osdOpen>>

\* enter_hold: pulse the row, or else take OSD_STATUS unless it is the user's
EnterHold ==
  LET take == ~core.live /\ (~osdOpen \/ deferred)
      nothing == ~core.live /\ osdOpen /\ ~deferred /\ ~core.arcade
      asks == core.arcade /\ (core.live \/ core.auto)
  IN
  /\ PollTurn /\ st = "armed"
  /\ arcSaved' = FALSE /\ canReq' = asks /\ owns' = take
  /\ IF nothing
       THEN st' = "idle" /\ UNCHANGED left
       ELSE /\ st' = "hold"
            /\ left' = [left EXCEPT !.min = IF asks THEN ArcadeMin ELSE MinHold,
                                    !.quiet = Quiet, !.cap = MaxHold]
  /\ IF take
       THEN /\ restore' = (core.auto /\ ~autosave)
            /\ autosave' = core.auto
            /\ osd' = TRUE
       ELSE UNCHANGED <<restore, autosave, osd>>
  /\ slow' = FALSE
  /\ switched' = (switched /\ autosave # chosen)
  /\ Triggered(core.live \/ (take /\ EdgeSaves(osdOpen \/ ~osd, TRUE)))
  /\ UNCHANGED <<core, saveOnExit, deferred, osdOpen, chosen, menu, upload, owed>>

Holding == PollOn /\ st = "hold"
Lost == owns /\ ~osd

Taken == owns /\ osd /\ ~osdOpen /\ MenuPresent

\* Somebody's popup drove the signal low
HoldLost ==
  /\ Holding /\ Lost
  /\ EnterReport(FALSE, arcSaved, owed)
  /\ UNCHANGED <<core, saveOnExit, owns, canReq, device>>

\* The user opened the OSD, whose signal it is now
HoldTaken ==
  /\ Holding /\ Taken
  /\ Restored
  /\ IF deferred THEN Reissue(menu, osd)
                 ELSE st' = "idle" /\ UNCHANGED <<deferred, osdOpen, menu, osd>>
  /\ UNCHANGED <<core, saveOnExit, left, owns, arcSaved, canReq, device, owed>>

\* Faulty variant: a hold ends with its shortest time
HoldOverAtMin(saved) == left.cap = 0 \/ saved \/ left.min = 0

\* The hold ends at its cap, with the upload of an arcade core, or in the quiet
HoldOver(saved) == left.cap = 0 \/ saved \/ (left.min = 0 /\ left.quiet = 0)

\* arcade_poll_flush finds a request
Asked == ~arcSaved /\ upload # "none"

\* The request is answered, then the hold ends if it is time
HoldOn ==
  LET saved == arcSaved \/ Asked
      due == owed /\ ~(Asked /\ upload = "asked")
  IN
  /\ Holding /\ ~Lost /\ ~Taken
  /\ upload' = IF Asked THEN "none" ELSE upload
  /\ IF HoldOver(saved)
       THEN EnterReport(TRUE, saved, due)
       ELSE /\ arcSaved' = saved /\ owed' = due
            /\ UNCHANGED <<st, left, deferred, osdOpen, restore, autosave, menu, osd>>
  /\ UNCHANGED <<core, saveOnExit, owns, canReq, dump, gap>>

\* The report window ends; a load that came in meanwhile goes on
ReportOver ==
  /\ PollOn /\ st = "report" /\ left.report = 0
  /\ IF deferred THEN Reissue(menu, osd)
                 ELSE st' = "idle" /\ UNCHANGED <<deferred, osdOpen, menu, osd>>
  /\ UNCHANGED <<core, saveOnExit, left, owns, arcSaved, canReq, restore, autosave, device,
                 owed>>

\* Nothing to do
PollNothing ==
  /\ PollOn
  /\ st = "idle" \/ (st = "report" /\ left.report > 0)
  /\ UNCHANGED <<core, saveOnExit, st, left, statics, autosave, menu, osd, device, owed>>

ZaparooPoll == EnterHold \/ HoldLost \/ HoldTaken \/ HoldOn \/ ReportOver \/ PollNothing
Commands == CmdSave \/ CmdLoad
HandleUI == UiOpen \/ UiClose \/ UiSaveCheck \/ UiAutosave \/ UiLoad
Environment == CoreDumps \/ CoreWrites \/ Tick \/ Popup

Next == ZaparooPoll \/ Commands \/ HandleUI \/ Environment

Spec == Init /\ [][Next]_vars

\* The scheduler alternates the cothreads, and time passes
Fairness ==
  /\ WF_vars(ZaparooPoll) /\ WF_vars(HandleUI)
  /\ WF_vars(Tick)

FairSpec == Spec /\ Fairness

-----------------------------------------------------------------------------
(* Properties *)

\* A console core with a live save row has on the storage, before save-on-exit lets
\* it be replaced, what was unsaved when the flush was asked for that the load waits
\* for: the pulse needs nobody's signal, and the hold lasts until the dump is
\* through, whatever popups, menus, chatty writes and commands come in between.
\* Except: a write of the dump was late, and the hold took the silence for its end.
\* (A load that a hold or a report window adopts gets no dump of its own.)
LiveRowLosesNothing ==
  st = "gone" /\ saveOnExit /\ core.live /\ ~core.arcade => ~owed \/ slow

\* A console core that can be saved at all has its save on the storage before
\* save-on-exit lets it be replaced, unless a menu or a popup of somebody else
\* is on the screen by then and has taken OSD_STATUS, or a write came late.
Savable == ~core.arcade /\ (core.live \/ core.auto)
ExitIsSaved == st = "gone" /\ saveOnExit /\ Savable /\ menu = "none" => ~owed \/ slow

\* A load that was held back goes on: neither a core that never stops writing, nor
\* popups, nor the user opening menus hold it back for good.
LoadGoesOn == deferred ~> ~deferred

\* Outside a hold the Autosave option is what the user chose: every way out of a
\* hold takes the override back.  Except: the user switched the option on in the
\* hold, over the override, and the end of the hold has switched it off again.
AutosaveIsTheUsers ==
  st # "hold" /\ st # "gone" => autosave = chosen \/ (switched /\ ~autosave)

\* OSD_STATUS is shared: a flush that ends gives it back, so that with no menu the
\* OSD is off, and zaparoo_poll neither raises nor lowers it under the user's open
\* menu, unless a load is about to replace the core anyway.
SignalIsShared ==
  [][/\ st' \in {"idle", "report"} /\ menu' = "none" => ~osd'
     /\ ZaparooPoll /\ menu = "open" /\ ~deferred => osd' = osd]_vars
=============================================================================
