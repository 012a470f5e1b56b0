----------------------------- MODULE CdAutorun -----------------------------
(***************************************************************************)
(* support/zaparoo/physical_cd_autorun.cpp: while the menu core runs and   *)
(* the setting is on, a detached worker thread looks at the disc drive and *)
(* Main launches the core of a disc it has not handled yet.                *)
(*                                                                         *)
(* A poll of Main takes three steps, which end at its lock sections; the   *)
(* worker runs in between.  Loading any core re-executes Main and kills    *)
(* the worker: the statics start again, the handled file stays.  The poll  *)
(* and retry timers are left out: a poll may come at any time.             *)
(***************************************************************************)
EXTENDS Naturals

CONSTANTS
  Discs, NoDisc,
  Launchable,  \* discs with a core or a launcher; the others are ignored
  Retries,     \* 4: unidentified results before the disc is given up
  WritesFail   \* whether writing or removing the handled file may fail

\* Fingerprints: a disc's own, none (0), or of a disc that could not be identified
None == "none"
Unread == "unread"

ASSUME CdAssumption ==
  /\ Launchable \subseteq Discs /\ NoDisc \notin Discs
  /\ None \notin Discs   \* a disc whose fingerprint comes to 0 counts as not identified
  /\ Retries \in Nat /\ WritesFail \in BOOLEAN

Prints == Discs \cup {None, Unread}

VARIABLES
  disc, changed,    \* the drive: its disc, and what CDROM_MEDIA_CHANGED reads and clears
  isMenu, setting,  \* the core that runs is the menu; the setting is on
  file,             \* the handled file in /tmp
  pc,               \* Main: "idle", or where its poll is: "take", "launch" or "start"
  pollActive, handled, loaded, retry, absent,   \* Main's own statics
  active, running, ready, result,   \* the statics under s_lock; a result that is not
                                    \* ready counts as blank
  worker,           \* the worker's locals, or NoWorker
  launched,         \* history: this insertion has been launched
  ours,             \* history: the handled fingerprint is of this insertion
  lost,             \* history: the change of the medium was read and cleared for nothing:
                    \* the detection was thrown away, or Main could not forget
  overlapped,       \* history: a detection was started before the last result was used
  unheard           \* history: CDROM_MEDIA_CHANGED has returned an error for this disc

drive == <<disc, changed>>
mains == <<pollActive, handled, loaded, retry, absent>>
shared == <<active, running, ready, result>>
history == <<launched, ours, lost, overlapped, unheard>>
vars == <<drive, isMenu, setting, file, pc, mains, shared, worker, history>>

\* cd_detection_t.  "old": s_generation has moved since the generation it is for (the
\* code only compares the two; 2^32 moves while a worker runs are left out).  "known":
\* its type was not read (CD_DISC_NONE).  History: "mine", the disc has not been changed
\* since its query, and "cleared", the query read and cleared a change.
Results == [present : BOOLEAN, absent : BOOLEAN, changed : BOOLEAN, known : BOOLEAN,
            classified : BOOLEAN, print : Prints, old : BOOLEAN,
            mine : BOOLEAN, cleared : BOOLEAN]
Blank == [present |-> FALSE, absent |-> FALSE, changed |-> FALSE, known |-> FALSE,
          classified |-> FALSE, print |-> None, old |-> FALSE,
          mine |-> FALSE, cleared |-> FALSE]
Workers == [at : {"open", "query", "read", "post"}, handled : Prints, res : Results]
NoWorker == [at |-> "none"]

TypeOK ==
  /\ disc \in Discs \cup {NoDisc} /\ changed \in BOOLEAN
  /\ isMenu \in BOOLEAN /\ setting \in BOOLEAN
  /\ file \in Prints /\ handled \in Prints
  /\ pc \in {"idle", "take", "start", "launch"}
  /\ pollActive \in BOOLEAN /\ loaded \in BOOLEAN
  /\ retry \in 0 .. Retries /\ absent \in 0 .. 2
  /\ active \in BOOLEAN /\ running \in BOOLEAN /\ ready \in BOOLEAN /\ result \in Results
  /\ worker \in Workers \cup {NoWorker}
  /\ {launched, ours, lost, overlapped, unheard} \subseteq BOOLEAN

Init ==
  /\ disc \in Discs \cup {NoDisc} /\ changed \in BOOLEAN
  /\ isMenu \in BOOLEAN /\ setting \in BOOLEAN
  /\ file = None
  /\ pc = "idle" /\ worker = NoWorker
  /\ pollActive = FALSE /\ handled = None /\ loaded = FALSE /\ retry = 0 /\ absent = 0
  /\ active = FALSE /\ running = FALSE /\ ready = FALSE /\ result = Blank
  /\ launched = FALSE /\ ours = FALSE /\ lost = FALSE /\ overlapped = FALSE
  /\ unheard = FALSE

-----------------------------------------------------------------------------
(* The drive and the user *)

Eject ==
  /\ disc # NoDisc
  /\ disc' = NoDisc
  /\ UNCHANGED <<changed, isMenu, setting, file, pc, mains, shared, worker, history>>

\* The worker was started before the result of the last one was used
Overlap == worker # NoWorker /\ (ready \/ worker.handled # handled)

Insert ==
  /\ disc = NoDisc
  /\ disc' \in Discs /\ changed' = TRUE
  /\ launched' = FALSE /\ ours' = FALSE
  /\ lost' = FALSE /\ overlapped' = Overlap /\ unheard' = FALSE
  /\ result' = [result EXCEPT !.mine = FALSE]
  /\ worker' = IF worker = NoWorker THEN worker ELSE [worker EXCEPT !.res.mine = FALSE]
  /\ UNCHANGED <<isMenu, setting, file, pc, mains, active, running, ready>>

SetSetting ==
  /\ pc = "idle"
  /\ setting' = ~setting
  /\ UNCHANGED <<drive, isMenu, file, pc, mains, shared, worker, history>>

\* Whether the worker, or the result it has posted, holds a change of the medium
Holds == worker # NoWorker /\ worker.res.cleared

\* app_restart of Main with another core: the statics start again
Restart ==
  /\ pc' = "idle" /\ worker' = NoWorker
  /\ pollActive' = FALSE /\ handled' = None /\ loaded' = FALSE /\ retry' = 0 /\ absent' = 0
  /\ active' = FALSE /\ running' = FALSE /\ ready' = FALSE
  /\ result' = Blank
  /\ lost' = (lost \/ Holds \/ (ready /\ result.cleared))

LoadCore ==
  /\ pc = "idle"
  /\ isMenu' \in BOOLEAN
  /\ Restart
  /\ UNCHANGED <<drive, setting, file, launched, ours, overlapped, unheard>>

-----------------------------------------------------------------------------
(* The worker thread *)

\* detection_current
Current == active /\ ~worker.res.old

\* open_disc_drive, unless the detection is out of date; a drive that is getting
\* ready says nothing
WorkerOpen ==
  /\ worker.at = "open"
  /\ \/ /\ Current /\ disc # NoDisc
        /\ worker' = [worker EXCEPT !.at = "query", !.res.present = TRUE]
     \/ /\ Current /\ disc = NoDisc
        /\ worker' = [worker EXCEPT !.at = "post", !.res.absent = TRUE]
     \/ worker' = [worker EXCEPT !.at = "post"]
  /\ UNCHANGED <<drive, isMenu, setting, file, pc, mains, shared, history>>

\* A handled disc that has not been changed is known without a read
Known == worker.handled # None /\ ~changed

\* CDROM_MEDIA_CHANGED, unless the detection is out of date by now
WorkerQuery ==
  /\ worker.at = "query"
  /\ IF Current
       THEN /\ changed' = FALSE
            /\ worker' =
                 IF Known
                   THEN [worker EXCEPT !.at = "post", !.res.known = TRUE,
                           !.res.classified = TRUE, !.res.print = worker.handled,
                           !.res.mine = (disc # NoDisc), !.res.cleared = changed]
                   ELSE [worker EXCEPT !.at = "read",
                           !.res.changed = (worker.handled # None /\ changed),
                           !.res.mine = (disc # NoDisc), !.res.cleared = changed]
       ELSE worker' = [worker EXCEPT !.at = "post"] /\ UNCHANGED changed
  /\ UNCHANGED <<disc, isMenu, setting, file, pc, mains, shared, history>>

\* ... which returns an error: the disc is read, and no change of it is known
WorkerQueryFails ==
  /\ worker.at = "query" /\ Current
  /\ worker' = [worker EXCEPT !.at = "read", !.res.mine = (disc # NoDisc)]
  /\ unheard' = TRUE
  /\ UNCHANGED <<drive, isMenu, setting, file, pc, mains, shared, launched, ours, lost,
                 overlapped>>

\* The disc is identified, or read errors or a newer generation prevent it.  A
\* medium that has been changed since the query fails its first reads.
WorkerRead ==
  /\ worker.at = "read"
  /\ \/ /\ Current /\ worker.res.mine /\ disc # NoDisc
        /\ worker' = [worker EXCEPT !.at = "post", !.res.classified = TRUE, !.res.print = disc]
     \/ worker' = [worker EXCEPT !.at = "post"]
  /\ UNCHANGED <<drive, isMenu, setting, file, pc, mains, shared, history>>

\* Faulty variant: a result of an earlier generation is posted all the same
Posts == active

\* The last lock section posts a result that is current
PostsCurrent == Current

\* Faulty variant: only a worker that posts its result ends
EndsPosted == running' = ~PostsCurrent

Ends == running' = FALSE

WorkerPost ==
  /\ worker.at = "post"
  /\ IF PostsCurrent
       THEN ready' = TRUE /\ result' = worker.res /\ UNCHANGED lost
       ELSE lost' = (lost \/ Holds) /\ UNCHANGED <<ready, result>>
  /\ Ends
  /\ worker' = NoWorker
  /\ UNCHANGED <<drive, isMenu, setting, file, pc, mains, active, launched, ours,
                 overlapped, unheard>>

Worker == WorkerOpen \/ WorkerQuery \/ WorkerQueryFails \/ WorkerRead \/ WorkerPost

-----------------------------------------------------------------------------
(* physical_cd_autorun_poll *)

Wanted == isMenu /\ setting

\* s_generation++ in set_active
GenerationMoves ==
  IF worker = NoWorker
    THEN UNCHANGED worker
    ELSE worker' = [worker EXCEPT !.res.old = TRUE]

\* set_active, and the timer, which may have run out
PollActivate ==
  /\ pc = "idle"
  /\ pc' \in IF Wanted THEN {"idle", "take"} ELSE {"idle"}
  /\ pollActive' = Wanted
  /\ IF pollActive = Wanted
       THEN UNCHANGED <<handled, loaded, absent, active, ready, result, worker, lost>>
       ELSE /\ GenerationMoves
            /\ active' = Wanted /\ ready' = FALSE /\ result' = Blank
            /\ lost' = (lost \/ (ready /\ result.cleared))
            /\ loaded' = (loaded \/ Wanted)
            /\ handled' = IF Wanted /\ ~loaded THEN file ELSE handled
            /\ absent' = IF Wanted THEN absent ELSE 0
  /\ UNCHANGED <<drive, isMenu, setting, file, retry, running, launched, ours, overlapped,
                 unheard>>

-----------------------------------------------------------------------------
(* consume_detection of a result that has just been taken *)

\* Whether Main gets to forget what it has handled; the code does not look
Forgets == IF WritesFail THEN BOOLEAN ELSE {TRUE}

\* A change of the medium makes Main forget
Forgotten(print, forgets) == IF result.changed /\ forgets THEN None ELSE print

\* ... and nothing is saved over what it has forgotten, or has not
Keep(forgets) ==
  /\ handled' = Forgotten(handled, forgets) /\ file' = Forgotten(file, forgets)
  /\ lost' = (lost \/ (result.changed /\ ~forgets))

\* save_handled_fingerprint; a write that fails may leave an empty file
Saved(print) ==
  /\ handled' = print /\ file' = print
  /\ ours' = (result.mine /\ (result.known => ours))
  /\ UNCHANGED lost
SaveFails(forgets) ==
  /\ WritesFail
  /\ handled' = Forgotten(handled, forgets) /\ file' \in {Forgotten(file, forgets), None}
  /\ lost' = (lost \/ (result.changed /\ ~forgets))
  /\ UNCHANGED ours
Save(print, forgets) == Saved(print) \/ SaveFails(forgets)

\* From the second result in a row that says there is no disc Main forgets.
\* Bound: s_absent_count is counted up to 2.
ConsumeAbsent ==
  /\ ~result.present
  /\ absent' = IF ~result.absent THEN 0 ELSE IF absent = 0 THEN 1 ELSE 2
  /\ \/ absent' = 2 /\ handled' = None /\ file' = None
     \/ (absent' = 2 => WritesFail) /\ UNCHANGED <<handled, file>>
  /\ retry' = 0
  /\ pc' = "start"
  /\ UNCHANGED <<ours, lost>>

\* Faulty variant: a disc is tried once more
TriesTooOften == retry <= Retries

TriesAgain == retry < Retries

\* A disc that could not be identified is tried again, then given up
ConsumeUnread(forgets) ==
  /\ result.present /\ ~result.classified
  /\ absent' = 0
  /\ IF TriesAgain THEN retry' = retry + 1 /\ Keep(forgets) /\ pc' = "idle" /\ UNCHANGED ours
                   ELSE retry' = 0 /\ Save(Unread, forgets) /\ pc' = "start"

Identified == result.present /\ result.classified /\ absent' = 0 /\ retry' = 0

ConsumeKnown(forgets) ==
  /\ Identified
  /\ result.print = Forgotten(handled, forgets) /\ Keep(forgets)
  /\ ours' = (ours \/ (result.mine /\ ~result.known))
  /\ pc' = "start"

\* Audio, an unknown disc, one without a core or launcher, or without a type
ConsumeIgnored(forgets) ==
  /\ Identified
  /\ result.print # Forgotten(handled, forgets)
  /\ result.known \/ result.print \notin Launchable
  /\ Save(result.print, forgets)
  /\ pc' = "start"

\* Faulty variant: the disc is launched whether or not it has been saved
LaunchUnsaved == \E forgets \in Forgets : Save(result.print, forgets)

\* Only a disc that has been saved as handled is launched
LaunchSaved == Saved(result.print)

ConsumeNew(forgets) ==
  /\ Identified
  /\ result.print # Forgotten(handled, forgets)
  /\ ~result.known /\ result.print \in Launchable
  /\ \/ LaunchSaved /\ pc' = "launch"
     \/ SaveFails(forgets) /\ pc' = "idle"

Consume ==
  \/ ConsumeAbsent
  \/ \E forgets \in Forgets :
       \/ ConsumeUnread(forgets) \/ ConsumeKnown(forgets)
       \/ ConsumeIgnored(forgets) \/ ConsumeNew(forgets)

\* take_result, then consume_detection
PollTake ==
  /\ pc = "take"
  /\ ready' = FALSE /\ result' = Blank
  /\ IF ready THEN Consume
              ELSE pc' = "start" /\ UNCHANGED <<file, handled, retry, absent, ours, lost>>
  /\ launched' = (launched \/ (pc' = "launch" /\ result.mine))
  /\ UNCHANGED <<drive, isMenu, setting, loaded, pollActive, active, running, worker,
                 overlapped, unheard>>

\* The core of the disc replaces the menu core, or it is missing or the frontend
\* does not end
PollLaunch ==
  /\ pc = "launch"
  /\ \/ isMenu' = FALSE /\ Restart
     \/ pc' = "idle" /\ UNCHANGED <<isMenu, mains, shared, worker, lost>>
  /\ UNCHANGED <<drive, setting, file, launched, ours, overlapped, unheard>>

\* start_detection; no worker is created where one runs, or where that fails
PollStart ==
  /\ pc = "start"
  /\ pc' = "idle"
  /\ \/ /\ ~running
        /\ overlapped' = (overlapped \/ ready)
        /\ running' = TRUE
        /\ worker' = [at |-> "open", handled |-> handled, res |-> Blank]
     \/ UNCHANGED <<running, worker, overlapped>>
  /\ UNCHANGED <<drive, isMenu, setting, file, mains, active, ready, result, launched, ours,
                 lost, unheard>>

Poll == PollActivate \/ PollTake \/ PollLaunch \/ PollStart
User == Eject \/ Insert \/ SetSetting \/ LoadCore

Next == Poll \/ Worker \/ User

Spec == Init /\ [][Next]_vars

\* Polls and the worker go on.  The timers run out, also while a result is there
\* and the next worker, if one is, is not through yet.  A drive with a disc, its
\* reads, the creation of a thread and a write to /tmp do not fail for good.
Fairness ==
  /\ WF_vars(Poll) /\ WF_vars(Worker)
  /\ SF_vars(PollActivate /\ pc' = "take" /\ ready' /\ result.classified)
  /\ SF_vars(PollTake /\ result.classified /\ handled' # None /\ Saved(handled'))
  /\ SF_vars(PollStart /\ running')
  /\ SF_vars(WorkerOpen /\ worker'.res.present)
  /\ SF_vars(WorkerRead /\ worker'.res.classified)

FairSpec == Spec /\ Fairness

-----------------------------------------------------------------------------
(* Properties *)

\* The same inserted disc is launched once, whatever returns to the menu, changes
\* of the setting, failed writes and killed workers come in between.  Except: two
\* detections overlapped, or CDROM_MEDIA_CHANGED has failed for this disc; it is then
\* read although it is handled, and given up over that, or its change is read later.
LaunchAgain == PollTake /\ pc' = "launch" /\ launched /\ result.mine
OncePerInsertion == [][LaunchAgain => overlapped \/ unheard]_vars

\* A disc that is still in the drive is taken for the handled one without a read
TakenForHandled == PollTake /\ ready /\ result.known /\ result.mine

\* A disc is taken for the handled one wrongly only after its change was read and
\* cleared for nothing, as the detection was thrown away or Main could not forget,
\* or after detections overlapped.
SwapIsSeenUnlessLost == [][TakenForHandled => ours' \/ lost \/ overlapped]_vars

\* A disc that stays in the drive while the menu and the setting stay is handled
\* in the end, launched, ignored, given up or found to be the handled one, and it is
\* not taken for another one, unless its change was read and cleared for nothing or
\* detections overlapped.
DiscIsHandled ==
  <>[](Wanted /\ disc # NoDisc /\ ~lost /\ ~overlapped) /\ <>[][~LoadCore]_vars
    => <>[](handled # None /\ ours)
=============================================================================
