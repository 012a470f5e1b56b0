-------------------------- MODULE SaveFlushProofs --------------------------
(***************************************************************************)
(* The forced save, proved for every deadline that save.cpp's own order of *)
(* them allows, dumps of any length and gaps of any size below them.       *)
(*                                                                         *)
(* Three facts carry the properties.  The option is overridden only in a   *)
(* hold that took the signal, and restore says that it was (Option).  A    *)
(* hold that took the signal from an open menu has a load behind it, and   *)
(* with no menu the OSD is on only in a hold that took it (Signal).  While *)
(* what was unsaved is still unsaved in the hold of a live row and no      *)
(* write was late, its dump goes on, the quiet deadline lies beyond the    *)
(* core's next write and the cap beyond its last one (Dumping).            *)
(***************************************************************************)
EXTENDS SaveFlush, TLAPS

\* The Autosave option is the user's, but for an override that is to be restored
Option ==
  /\ autosave => core.auto
  /\ restore => st \in {"hold", "gone"} /\ owns /\ (switched \/ (autosave /\ ~chosen))
  /\ ~restore => autosave = chosen \/ (switched /\ ~autosave)

\* Whose OSD_STATUS is
Signal ==
  /\ st = "armed" => turn = "poll"
  /\ st = "armed" /\ menu = "open" /\ ~deferred => osdOpen
  /\ st = "hold" /\ owns /\ osdOpen => deferred
  /\ menu = "none" /\ osd => st = "gone" \/ (st = "hold" /\ owns)

\* The ticks a dump still takes if no write of it is late
Needed == gap + (dump - 1) * Gap

\* What is unsaved of a console core with a live row is being dumped, in time
Dumping ==
  /\ st = "hold" /\ core.live => ~owns
  /\ ~core.arcade => upload = "none" /\ ~arcSaved
  /\ core.live /\ ~core.arcade /\ owed /\ ~slow =>
       /\ st \in {"armed", "hold"} \/ (st = "gone" /\ ~saveOnExit)
       /\ st = "hold" => dump > 0 /\ left.quiet > gap /\ left.cap > Needed

IInv == TypeOK /\ Option /\ Signal /\ Dumping

-----------------------------------------------------------------------------
(* Arithmetic *)

\* What SaveAssumption says of the constants, a sort at a time.
LEMMA Constants ==
  /\ MinHold \in Nat /\ ArcadeMin \in Nat /\ Quiet \in Nat /\ MaxHold \in Nat
  /\ Report \in Nat /\ DumpWrites \in Nat /\ Gap \in Nat
  /\ DumpWrites > 0 /\ MinHold <= ArcadeMin /\ Gap < Quiet
  /\ DumpWrites * (Gap + 1) < MaxHold
  BY SaveAssumption

\* A dump, whole or begun, fits below the cap.
LEMMA DumpFits ==
  ASSUME NEW d \in 1 .. DumpWrites, NEW g \in 0 .. Gap
  PROVE  g + (d - 1) * Gap < MaxHold
<1>1. DumpWrites * (Gap + 1) = DumpWrites * Gap + DumpWrites
  BY Constants
<1>2. (d - 1) * Gap = d * Gap - Gap
  BY Constants
<1>3. d * Gap <= DumpWrites * Gap
  <2>1. (DumpWrites - d) * Gap >= 0
    BY Constants
  <2>2. (DumpWrites - d) * Gap = DumpWrites * Gap - d * Gap
    BY Constants
  <2>3. d * Gap \in Int /\ DumpWrites * Gap \in Int
    BY Constants
  <2> QED BY <2>1, <2>2, <2>3
<1>4. d * Gap \in Int /\ DumpWrites * Gap \in Int
  BY Constants
<1> QED BY <1>1, <1>2, <1>3, <1>4, Constants

\* The next write of a dump leaves no more to do than before.
LEMMA NeedsLess ==
  ASSUME NEW d \in Nat, d > 1, NEW g \in 0 .. Gap
  PROVE  Gap + (d - 2) * Gap <= g + (d - 1) * Gap
<1>1. (d - 2) * Gap = d * Gap - 2 * Gap /\ (d - 1) * Gap = d * Gap - Gap /\ d * Gap \in Int
  BY Constants
<1> QED BY <1>1, Constants

\* A deadline, a tick later.
LEMMA LessIs ==
  ASSUME NEW n \in Nat
  PROVE  Less(n) \in Nat /\ Less(n) <= n /\ (n > 0 => Less(n) = n - 1)
  BY DEF Less

-----------------------------------------------------------------------------
(* The environment and the commands *)

\* A dump goes on: a write extends the quiet, and the last one is what was owed.
LEMMA CoreDumpsKeeps == ASSUME IInv, CoreDumps PROVE IInv'
<1>0. /\ TypeOK /\ Option /\ Signal /\ Dumping /\ st # "gone" /\ dump > 0 /\ dump' = dump - 1
      /\ gap' = IF dump = 1 THEN 0 ELSE Gap
      /\ UNCHANGED <<core, saveOnExit, st, statics, autosave, users, menu, osd, slow, turn>>
  BY DEF IInv, CoreDumps
<1>1. /\ core.arcade => upload' = "asked" /\ UNCHANGED <<left, owed>>
      /\ ~core.arcade => left' = Noted /\ owed' = (owed /\ dump # 1) /\ upload' = upload
  BY DEF CoreDumps
<1>2. /\ left \in [min : 0 .. ArcadeMin, quiet : 0 .. Quiet, cap : 0 .. MaxHold,
                   report : 0 .. Report]
      /\ core \in [arcade : BOOLEAN, live : BOOLEAN, auto : BOOLEAN]
      /\ gap \in 0 .. Gap /\ dump \in 0 .. DumpWrites /\ owed \in BOOLEAN
  BY <1>0 DEF TypeOK
<1>3. /\ Noted \in [min : 0 .. ArcadeMin, quiet : 0 .. Quiet, cap : 0 .. MaxHold,
                    report : 0 .. Report]
      /\ Noted.cap = left.cap /\ (st = "hold" => Noted.quiet = Quiet)
  BY <1>2, Constants DEF Noted
<1>4. TypeOK'
  <2>1. gap' \in 0 .. Gap /\ dump' \in 0 .. DumpWrites
    BY <1>0, <1>2, Constants
  <2>2. owed' \in BOOLEAN /\ upload' \in {"none", "old", "asked"}
        /\ left' \in [min : 0 .. ArcadeMin, quiet : 0 .. Quiet, cap : 0 .. MaxHold,
                      report : 0 .. Report]
    BY <1>0, <1>1, <1>2, <1>3 DEF TypeOK
  <2> QED BY <1>0, <2>1, <2>2 DEF TypeOK, statics, users
<1>5. Option' /\ Signal'
  BY <1>0 DEF Option, Signal, statics, users
<1>6. Dumping'
  <2>1. CASE core.arcade
    BY <1>0, <1>1, <2>1 DEF Dumping, statics
  <2>2. CASE ~core.arcade /\ core.live /\ owed' /\ ~slow /\ st = "hold"
    <3>1. owed /\ dump > 1 /\ gap' = Gap /\ left'.quiet = Quiet /\ left'.cap = left.cap
      <4>1. owed' = (owed /\ dump # 1) /\ left' = Noted
        BY <1>1, <2>2
      <4>2. owed /\ dump # 1
        BY <1>2, <2>2, <4>1
      <4>3. st = "hold"
        BY <2>2
      <4> QED BY <1>0, <1>2, <1>3, <4>1, <4>2, <4>3, Constants
    <3>2. dump' > 0 /\ left'.quiet > gap'
      BY <1>0, <1>2, <3>1, Constants
    <3>3. left.cap > gap + (dump - 1) * Gap
      BY <1>0, <2>2, <3>1 DEF Dumping, Needed
    <3>4. Gap + (dump - 2) * Gap <= gap + (dump - 1) * Gap
      BY <1>2, <3>1, Constants, NeedsLess
    <3>5. (dump' - 1) * Gap = (dump - 2) * Gap /\ (dump - 2) * Gap \in Int /\ (dump - 1) * Gap \in Int
      <4>1. dump \in Int /\ dump' - 1 = dump - 2
        BY <1>0, <1>2, Constants
      <4> QED BY <4>1, Constants
    <3>6. left'.cap > gap' + (dump' - 1) * Gap
      BY <1>2, <3>1, <3>3, <3>4, <3>5, Constants
    <3> QED BY <1>0, <1>1, <2>2, <3>1, <3>2, <3>6 DEF Dumping, Needed, statics
  <2>3. CASE ~core.arcade /\ ~(core.live /\ owed' /\ ~slow /\ st = "hold")
    BY <1>0, <1>1, <2>3 DEF Dumping, statics
  <2> QED BY <2>1, <2>2, <2>3
<1> QED BY <1>4, <1>5, <1>6 DEF IInv

\* A chatty core only ever extends the quiet.
LEMMA CoreWritesKeeps == ASSUME IInv, CoreWrites PROVE IInv'
<1>0. /\ TypeOK /\ Option /\ Signal /\ Dumping /\ left' = Noted
      /\ UNCHANGED <<core, saveOnExit, st, statics, autosave, users, menu, osd, device, owed, slow,
                     turn>>
  BY DEF IInv, CoreWrites
<1>1. /\ left \in [min : 0 .. ArcadeMin, quiet : 0 .. Quiet, cap : 0 .. MaxHold,
                   report : 0 .. Report]
      /\ gap \in 0 .. Gap
  BY <1>0 DEF TypeOK
<1>2. /\ left' \in [min : 0 .. ArcadeMin, quiet : 0 .. Quiet, cap : 0 .. MaxHold,
                    report : 0 .. Report]
      /\ left'.cap = left.cap /\ (st = "hold" => left'.quiet > gap)
  BY <1>0, <1>1, Constants DEF Noted
<1>3. TypeOK'
  BY <1>0, <1>2 DEF TypeOK, statics, device, users
<1>4. Option' /\ Signal'
  BY <1>0 DEF Option, Signal, statics, users
<1>5. Dumping'
  BY <1>0, <1>2 DEF Dumping, Needed, statics, device
<1> QED BY <1>3, <1>4, <1>5 DEF IInv

\* A tick brings the deadlines nearer, but not before the next write is late.
LEMMA TickKeeps == ASSUME IInv, Tick PROVE IInv'
<1>0. /\ TypeOK /\ Option /\ Signal /\ Dumping
      /\ slow' = (slow \/ (st = "hold" /\ dump > 0 /\ gap = 0))
      /\ left' = [min |-> Less(left.min), quiet |-> Less(left.quiet),
                  cap |-> Less(left.cap), report |-> Less(left.report)]
      /\ gap' = Less(gap)
      /\ UNCHANGED <<core, saveOnExit, st, statics, autosave, users, menu, osd, dump, upload,
                     owed, turn>>
  BY DEF IInv, Tick
<1>1. /\ left.min \in 0 .. ArcadeMin /\ left.quiet \in 0 .. Quiet /\ left.cap \in 0 .. MaxHold
      /\ left.report \in 0 .. Report /\ gap \in 0 .. Gap /\ dump \in 0 .. DumpWrites
  BY <1>0 DEF TypeOK
<1>2. ASSUME NEW n \in Nat, NEW m \in 0 .. n PROVE Less(m) \in 0 .. n
  BY DEF Less
<1>3. /\ left' \in [min : 0 .. ArcadeMin, quiet : 0 .. Quiet, cap : 0 .. MaxHold,
                    report : 0 .. Report]
      /\ gap' \in 0 .. Gap /\ left'.quiet = Less(left.quiet) /\ left'.cap = Less(left.cap)
  BY <1>0, <1>1, <1>2, Constants
<1>4. TypeOK'
  <2>1. slow' \in BOOLEAN
    BY <1>0
  <2> QED BY <1>0, <1>3, <2>1 DEF TypeOK, statics, users
<1>5. Option' /\ Signal'
  BY <1>0 DEF Option, Signal, statics, users
<1>6. ASSUME st = "hold", core.live, ~core.arcade, owed, ~slow'
      PROVE  dump' > 0 /\ left'.quiet > gap' /\ left'.cap > gap' + (dump' - 1) * Gap
  <2>0. ~slow /\ ~(dump > 0 /\ gap = 0)
    BY <1>0, <1>6
  <2>1. dump > 0 /\ left.quiet > gap /\ left.cap > gap + (dump - 1) * Gap
    BY <1>0, <1>6, <2>0 DEF Dumping, Needed
  <2>2. gap > 0 /\ gap' = gap - 1 /\ dump' = dump
    BY <1>0, <1>1, <2>0, <2>1 DEF Less
  <2>3. left'.quiet = left.quiet - 1
    BY <1>1, <1>3, <2>1, Constants DEF Less
  <2>4. (dump - 1) * Gap \in Nat
    BY <1>1, <2>1, Constants
  <2>5. left'.cap = left.cap - 1
    BY <1>1, <1>3, <2>1, <2>4, Constants DEF Less
  <2> QED BY <1>1, <2>1, <2>2, <2>3, <2>4, <2>5, Constants
<1>7. Dumping'
  <2>1. ~slow' => ~slow
    BY <1>0
  <2> QED BY <1>0, <1>6, <2>1 DEF Dumping, Needed, statics
<1> QED BY <1>4, <1>5, <1>7 DEF IInv

\* A popup takes the signal away, never the menu.
LEMMA PopupKeeps == ASSUME IInv, Popup PROVE IInv'
<1>1. TypeOK'
  BY DEF IInv, TypeOK, Popup, statics, device, users
<1>2. Option' /\ Signal' /\ Dumping'
  BY DEF IInv, Popup, Option, Signal, Dumping, Needed, statics, device, users
<1> QED BY <1>1, <1>2 DEF IInv

\* What counts as unsaved is counted anew.
LEMMA OwingIs ==
  ASSUME TypeOK, Owing
  PROVE  owed' = TRUE /\ upload' \in {"none", "old", "asked"} /\ (upload = "none" => upload' = "none")
  BY DEF TypeOK, Owing

\* A load that waits is in front of a flush, which owes what is unsaved from then on,
\* or behind the one under way; one that may pass leaves the flush as it is.
LEMMA LoadRbfKeeps ==
  ASSUME IInv, st # "gone", NEW m \in {"none", "closing", "info", "open"}, NEW o \in BOOLEAN,
         LoadRbf(m, o), m = "none" /\ o => st = "hold" /\ owns, m = "open" => menu = "open",
         turn' = "poll",
         UNCHANGED <<core, saveOnExit, left, autosave, chosen, switched, dump, gap, slow>>
  PROVE  IInv'
<1>0. TypeOK /\ Option /\ Signal /\ Dumping
  BY DEF IInv
<1>1. CASE saveOnExit
  <2>1. /\ deferred' = TRUE
        /\ IF st = "idle"
             THEN st' = "armed" /\ osdOpen' = (m \in {"info", "open"})
             ELSE UNCHANGED <<st, osdOpen>>
        /\ menu' = m /\ osd' = o
        /\ UNCHANGED <<owns, arcSaved, canReq, restore>>
    BY <1>1 DEF LoadRbf
  <2>2. /\ owed' \in BOOLEAN /\ upload' \in {"none", "old", "asked"}
        /\ upload = "none" => upload' = "none"
        /\ st \notin {"idle", "armed"} => owed' = owed
    <3>1. CASE st \in {"idle", "armed"}
      <4>1. Owing
        BY <1>1, <3>1 DEF LoadRbf
      <4> QED BY <1>0, <3>1, <4>1, OwingIs
    <3>2. CASE st \notin {"idle", "armed"}
      BY <1>0, <1>1, <3>2 DEF LoadRbf, TypeOK
    <3> QED BY <3>1, <3>2
  <2>3. TypeOK'
    <3>1. st' \in {"idle", "armed", "hold", "report", "gone"}
      BY <1>0, <2>1 DEF TypeOK
    <3>2. deferred' \in BOOLEAN
      BY <2>1
    <3>3. osdOpen' \in BOOLEAN
      <4>1. CASE st = "idle"
        BY <2>1, <4>1
      <4>2. CASE st # "idle"
        BY <1>0, <2>1, <4>2 DEF TypeOK
      <4> QED BY <4>1, <4>2
    <3> QED BY <1>0, <2>1, <2>2, <3>1, <3>2, <3>3 DEF TypeOK
  <2>4. Option'
    BY <1>0, <2>1 DEF Option
  <2>5. Signal'
    BY <1>0, <2>1 DEF Signal
  <2>6. Dumping'
    BY <1>0, <1>1, <2>1, <2>2 DEF TypeOK, Dumping, Needed
  <2> QED BY <2>3, <2>4, <2>5, <2>6 DEF IInv
<1>2. CASE ~saveOnExit
  <2>1. UNCHANGED <<deferred, osdOpen, owns, arcSaved, canReq, restore, upload, owed>>
    BY <1>2 DEF LoadRbf, statics
  <2>2. \/ st' = "gone" /\ UNCHANGED <<menu, osd>>
        \/ st' = st /\ menu' = m /\ osd' = o
        \/ /\ st' = st /\ osd' = FALSE
           /\ menu' = IF m = "open" THEN "open" ELSE "info"
    BY <1>2 DEF LoadRbf, Load
  <2>3. TypeOK'
    <3>1. /\ menu' \in {"none", "closing", "info", "open"} /\ osd' \in BOOLEAN
          /\ st' \in {"idle", "armed", "hold", "report", "gone"}
      BY <1>0, <2>2 DEF TypeOK
    <3> QED BY <1>0, <2>1, <3>1 DEF TypeOK
  <2>4. Option'
    BY <1>0, <2>1, <2>2 DEF Option
  <2>5. Signal'
    BY <1>0, <2>1, <2>2 DEF Signal
  <2>6. Dumping'
    BY <1>0, <1>2, <2>1, <2>2 DEF Dumping, Needed
  <2> QED BY <2>3, <2>4, <2>5, <2>6 DEF IInv
<1> QED BY <1>1, <1>2

\* The commands of the FIFO: a save, and a load with or without the menu hidden.
LEMMA CommandsKeep == ASSUME IInv, Commands PROVE IInv'
<1>0. TypeOK /\ Option /\ Signal /\ Dumping
  BY DEF IInv
<1>1. CASE CmdSave
  <2>0. owed' = TRUE /\ upload' \in {"none", "old", "asked"} /\ (upload = "none" => upload' = "none")
    BY <1>0, <1>1, OwingIs DEF CmdSave
  <2>1. TypeOK'
    BY <1>0, <1>1, <2>0 DEF TypeOK, CmdSave, MenuPresent, users
  <2>2. Option'
    BY <1>0, <1>1 DEF Option, CmdSave, users
  <2>3. Signal'
    BY <1>0, <1>1 DEF Signal, CmdSave, MenuPresent
  <2>4. Dumping'
    BY <1>0, <1>1, <2>0 DEF Dumping, Needed, CmdSave
  <2> QED BY <2>1, <2>2, <2>3, <2>4 DEF IInv
<1>2. CASE CmdLoad
  <2>1. /\ st # "gone" /\ turn' = "poll" /\ menu \in {"none", "closing", "info", "open"}
        /\ osd \in BOOLEAN
        /\ UNCHANGED <<core, saveOnExit, left, autosave, chosen, switched, dump, gap, slow>>
    BY <1>0, <1>2 DEF CmdLoad, TypeOK, users
  <2>2. menu = "none" /\ osd => st = "hold" /\ owns
    BY <1>0, <2>1 DEF Signal
  <2>3. CASE LoadRbf(menu, osd)
    BY <2>1, <2>2, <2>3, LoadRbfKeeps
  <2>4. CASE LoadRbf("none", FALSE)
    BY <2>1, <2>4, LoadRbfKeeps
  <2> QED BY <1>2, <2>3, <2>4 DEF CmdLoad
<1> QED BY <1>1, <1>2 DEF Commands

-----------------------------------------------------------------------------
(* The OSD *)

\* A dump that a trigger starts is a whole one; a dump under way answers it.
LEMMA TriggeredIs ==
  ASSUME TypeOK, NEW yes \in BOOLEAN, Triggered(yes)
  PROVE  /\ dump' \in 0 .. DumpWrites /\ gap' \in 0 .. Gap
         /\ dump > 0 => dump' = dump /\ gap' = gap
         /\ yes => dump' > 0
<1>1. dump \in 0 .. DumpWrites /\ gap \in 0 .. Gap
  BY DEF TypeOK
<1>2. CASE yes /\ dump = 0
  BY <1>1, <1>2, Constants DEF Triggered
<1>3. CASE ~(yes /\ dump = 0)
  BY <1>1, <1>3, Constants DEF Triggered
<1> QED BY <1>2, <1>3

\* The menu comes up, and its edge of OSD_STATUS may start a dump of its own.
LEMMA UiOpenKeeps == ASSUME IInv, UiOpen PROVE IInv'
<1>0. /\ TypeOK /\ Option /\ Signal /\ Dumping
      /\ turn = "ui" /\ turn' = "poll" /\ menu' = "open" /\ osd' = TRUE
      /\ Triggered(EdgeSaves(~osd, autosave))
      /\ UNCHANGED <<core, saveOnExit, st, left, statics, autosave, users, upload, owed, slow>>
  BY DEF IInv, UiOpen, UiTurn
<1>1. EdgeSaves(~osd, autosave) \in BOOLEAN
  BY DEF EdgeSaves
<1>2. dump' \in 0 .. DumpWrites /\ gap' \in 0 .. Gap /\ (dump > 0 => dump' = dump /\ gap' = gap)
  BY <1>0, <1>1, TriggeredIs
<1>3. TypeOK'
  BY <1>0, <1>2 DEF TypeOK, statics, users
<1>4. Option'
  BY <1>0 DEF Option, statics, users
<1>5. Signal'
  BY <1>0 DEF Signal, statics
<1>6. Dumping'
  BY <1>0, <1>2 DEF Dumping, Needed, statics
<1> QED BY <1>3, <1>4, <1>5, <1>6 DEF IInv

\* The other turns of the menu.
LEMMA HandleUIKeeps == ASSUME IInv, HandleUI PROVE IInv'
<1>0. TypeOK /\ Option /\ Signal /\ Dumping
  BY DEF IInv
<1>1. CASE UiOpen
  BY <1>1, UiOpenKeeps
<1>2. CASE UiClose
  <2>1. TypeOK'
    BY <1>0, <1>2, ZenonT(30) DEF TypeOK, UiClose, UiTurn, statics, device, users
  <2>2. Option'
    BY <1>0, <1>2 DEF Option, UiClose, statics, users
  <2>3. Signal'
    BY <1>0, <1>2 DEF Signal, UiClose, UiTurn, statics
  <2>4. Dumping'
    BY <1>0, <1>2 DEF Dumping, Needed, UiClose, UiTurn, statics, device
  <2> QED BY <2>1, <2>2, <2>3, <2>4 DEF IInv
<1>3. CASE UiSaveCheck
  <2>1. TypeOK'
    BY <1>0, <1>3 DEF TypeOK, UiSaveCheck, UiTurn, statics, users
  <2>2. Option'
    BY <1>0, <1>3 DEF Option, UiSaveCheck, statics, users
  <2>3. Signal'
    BY <1>0, <1>3 DEF Signal, UiSaveCheck, UiTurn, statics
  <2>4. Dumping'
    BY <1>0, <1>3 DEF Dumping, Needed, UiSaveCheck, UiTurn, statics
  <2> QED BY <2>1, <2>2, <2>3, <2>4 DEF IInv
<1>4. CASE UiAutosave
  <2>1. TypeOK'
    BY <1>0, <1>4 DEF TypeOK, UiAutosave, UiTurn, statics, device
  <2>2. Option'
    BY <1>0, <1>4 DEF Option, UiAutosave, statics, TypeOK
  <2>3. Signal'
    BY <1>0, <1>4 DEF Signal, UiAutosave, UiTurn, statics
  <2>4. Dumping'
    BY <1>0, <1>4 DEF Dumping, Needed, UiAutosave, UiTurn, statics, device
  <2> QED BY <2>1, <2>2, <2>3, <2>4 DEF IInv
<1>5. CASE UiLoad
  <2>1. /\ st # "gone" /\ turn' = "poll" /\ menu = "open" /\ osd \in BOOLEAN
        /\ turn' = "poll"
        /\ UNCHANGED <<core, saveOnExit, left, autosave, chosen, switched, dump, gap, slow>>
        /\ LoadRbf("closing", osd) \/ LoadRbf("none", FALSE) \/ LoadRbf("open", osd)
    BY <1>0, <1>5 DEF UiLoad, UiTurn, TypeOK, users
  <2>2. CASE LoadRbf("closing", osd)
    BY <2>1, <2>2, LoadRbfKeeps
  <2>3. CASE LoadRbf("none", FALSE)
    BY <2>1, <2>3, LoadRbfKeeps
  <2>4. CASE LoadRbf("open", osd)
    BY <2>1, <2>4, LoadRbfKeeps
  <2> QED BY <2>1, <2>2, <2>3, <2>4
<1> QED BY <1>1, <1>2, <1>3, <1>4, <1>5 DEF HandleUI

-----------------------------------------------------------------------------
(* zaparoo_poll *)

\* A load that goes on ends Main, or fails, and may leave a popup if no menu is open.
LEMMA ReissueIs ==
  ASSUME TypeOK, NEW o \in BOOLEAN, Reissue(menu, o)
  PROVE  /\ deferred' = FALSE /\ osdOpen' = osdOpen
         /\ \/ st' = "gone" /\ menu' = menu /\ osd' = osd
            \/ st' = "idle" /\ menu' = menu /\ osd' = o
            \/ st' = "idle" /\ osd' = FALSE /\ menu' \in {"open", "info"}
  BY DEF Reissue, Load

\* Restored gives the option back to the user, but for what was switched meanwhile.
LEMMA RestoredIs ==
  ASSUME TypeOK, Option, Restored
  PROVE  /\ restore' = FALSE /\ autosave' \in BOOLEAN /\ (autosave' => core.auto)
         /\ autosave' = chosen \/ (switched /\ ~autosave')
<1>1. /\ {autosave, restore, chosen, switched} \subseteq BOOLEAN /\ (autosave => core.auto)
      /\ restore => switched \/ ~chosen
      /\ ~restore => autosave = chosen \/ (switched /\ ~autosave)
  BY DEF TypeOK, Option
<1>2. autosave' = (autosave /\ ~restore) /\ restore' = FALSE
  BY DEF Restored
<1> QED BY <1>1, <1>2

\* The end of a hold: the option is the user's again, and the flush is over for a
\* live row that owes nothing.
LEMMA EnterReportKeeps ==
  ASSUME IInv, NEW release \in BOOLEAN, NEW saved \in BOOLEAN, NEW due \in BOOLEAN,
         EnterReport(release, saved, due), release \/ ~osd, due => owed,
         ~core.arcade => ~saved, core.live /\ ~core.arcade => ~due \/ slow, st = "hold",
         upload' \in {"none", "old", "asked"}, ~core.arcade => upload' = upload, turn' = "ui",
         UNCHANGED <<core, saveOnExit, owns, canReq, chosen, switched, dump, gap, slow>>
  PROVE  IInv'
<1>0. TypeOK /\ Option /\ Signal /\ Dumping
  BY DEF IInv
<1>1. arcSaved' \in BOOLEAN /\ owed' \in BOOLEAN /\ (owed' => due) /\ (~core.arcade => ~arcSaved')
  BY DEF EnterReport, Blind
<1>2. /\ restore' = FALSE /\ autosave' \in BOOLEAN /\ (autosave' => core.auto)
      /\ autosave' = chosen \/ (switched /\ ~autosave')
  BY <1>0, RestoredIs DEF EnterReport
<1>3. /\ st' \in {"idle", "report", "gone"} /\ deferred' \in BOOLEAN /\ osdOpen' = osdOpen
      /\ menu' \in {"none", "closing", "info", "open"} /\ osd' \in BOOLEAN
      /\ menu' = "none" /\ osd' => st' = "gone"
      /\ left' \in [min : 0 .. ArcadeMin, quiet : 0 .. Quiet, cap : 0 .. MaxHold,
                    report : 0 .. Report]
  <2>1. CASE deferred
    <3> DEFINE o == osd /\ ~(release /\ owns)
    <3>1. Reissue(menu, o) /\ left' = left
      BY <2>1 DEF EnterReport
    <3>2. o \in BOOLEAN /\ (menu = "none" => ~o)
      BY <1>0 DEF Signal
    <3> HIDE DEF o
    <3>3. /\ deferred' = FALSE /\ osdOpen' = osdOpen
          /\ \/ st' = "gone" /\ menu' = menu /\ osd' = osd
             \/ st' = "idle" /\ menu' = menu /\ osd' = o
             \/ st' = "idle" /\ osd' = FALSE /\ menu' \in {"open", "info"}
      BY <1>0, <3>1, <3>2, ReissueIs
    <3>4. CASE st' = "gone" /\ menu' = menu /\ osd' = osd
      BY <1>0, <3>1, <3>3, <3>4 DEF TypeOK
    <3>5. CASE st' = "idle" /\ menu' = menu /\ osd' = o
      BY <1>0, <3>1, <3>2, <3>3, <3>5 DEF TypeOK
    <3>6. CASE st' = "idle" /\ osd' = FALSE /\ menu' \in {"open", "info"}
      BY <1>0, <3>1, <3>3, <3>6 DEF TypeOK
    <3> QED BY <3>3, <3>4, <3>5, <3>6
  <2>2. CASE ~deferred
    <3>1. /\ st' = "report" /\ left' = [left EXCEPT !.report = Report]
          /\ menu' = IF release /\ menu # "open" THEN "info" ELSE menu
          /\ osd' = (osd /\ (release => menu = "open" /\ ~owns))
          /\ UNCHANGED <<deferred, osdOpen>>
      BY <2>2 DEF EnterReport
    <3>2. left' \in [min : 0 .. ArcadeMin, quiet : 0 .. Quiet, cap : 0 .. MaxHold,
                     report : 0 .. Report]
      BY <1>0, <3>1, Constants DEF TypeOK
    <3>3. menu' \in {"none", "closing", "info", "open"}
      BY <1>0, <3>1 DEF TypeOK
    <3>4. osd' \in BOOLEAN /\ ~(menu' = "none" /\ osd')
      BY <3>1
    <3> QED BY <1>0, <3>1, <3>2, <3>3, <3>4 DEF TypeOK
  <2> QED BY <2>1, <2>2
<1>4. TypeOK'
  BY <1>0, <1>1, <1>2, <1>3, ZenonT(30) DEF TypeOK
<1>5. Option'
  BY <1>0, <1>2, <1>3 DEF Option, TypeOK
<1>6. Signal'
  BY <1>3 DEF Signal
<1>7. Dumping'
  <2>1. ~core.arcade => upload' = "none" /\ ~arcSaved'
    BY <1>0, <1>1 DEF Dumping
  <2>2. core.live /\ ~core.arcade => ~owed' \/ slow'
    BY <1>1
  <2> QED BY <1>3, <2>1, <2>2 DEF Dumping
<1> QED BY <1>4, <1>5, <1>6, <1>7 DEF IInv

\* A flush that is over goes back to idle, or gives way to the load behind it.
LEMMA EndKeeps ==
  ASSUME IInv, st \in {"hold", "report"}, turn' = "ui",
         IF deferred THEN Reissue(menu, osd)
                     ELSE st' = "idle" /\ UNCHANGED <<deferred, osdOpen, menu, osd>>,
         menu = "none" => ~osd, restore' = FALSE, autosave' \in BOOLEAN, autosave' => core.auto,
         autosave' = chosen \/ (switched /\ ~autosave'),
         core.live /\ ~core.arcade => ~owed \/ slow,
         UNCHANGED <<core, saveOnExit, left, owns, arcSaved, canReq, chosen, switched, device,
                     owed, slow>>
  PROVE  IInv'
<1>0. TypeOK /\ Option /\ Signal /\ Dumping
  BY DEF IInv
<1>1. /\ st' \in {"idle", "gone"} /\ deferred' \in BOOLEAN /\ osdOpen' = osdOpen
      /\ menu' \in {"none", "closing", "info", "open"} /\ osd' \in BOOLEAN
      /\ menu' = "none" => ~osd'
  <2>1. CASE deferred
    <3>0. osd \in BOOLEAN
      BY <1>0 DEF TypeOK
    <3>1. /\ deferred' = FALSE /\ osdOpen' = osdOpen
          /\ \/ st' \in {"idle", "gone"} /\ menu' = menu /\ osd' = osd
             \/ st' = "idle" /\ osd' = FALSE /\ menu' \in {"open", "info"}
      BY <1>0, <2>1, <3>0, ReissueIs
    <3>2. CASE st' \in {"idle", "gone"} /\ menu' = menu /\ osd' = osd
      <4>1. menu' = "none" => ~osd'
        BY <3>2
      <4> QED BY <1>0, <3>1, <3>2, <4>1 DEF TypeOK
    <3>3. CASE st' = "idle" /\ osd' = FALSE /\ menu' \in {"open", "info"}
      BY <1>0, <3>1, <3>3 DEF TypeOK
    <3> QED BY <3>1, <3>2, <3>3
  <2>2. CASE ~deferred
    BY <1>0, <2>2 DEF TypeOK
  <2> QED BY <2>1, <2>2
<1>2. TypeOK'
  BY <1>0, <1>1 DEF TypeOK, device
<1>3. Option'
  BY <1>0 DEF Option, TypeOK
<1>4. Signal'
  BY <1>1 DEF Signal
<1>5. Dumping'
  BY <1>0, <1>1 DEF Dumping, device
<1> QED BY <1>2, <1>3, <1>4, <1>5 DEF IInv

\* A hold begins: a live row is pulsed and its dump is in time, another core's
\* option is overridden only with the signal taken.
LEMMA EnterHoldKeeps == ASSUME IInv, EnterHold PROVE IInv'
<1> DEFINE take == ~core.live /\ (~osdOpen \/ deferred)
           nothing == ~core.live /\ osdOpen /\ ~deferred /\ ~core.arcade
           asks == core.arcade /\ (core.live \/ core.auto)
           edge == core.live \/ (take /\ EdgeSaves(osdOpen \/ ~osd, TRUE))
<1>0. TypeOK /\ Option /\ Signal /\ Dumping /\ st = "armed" /\ turn' = "ui"
  BY DEF IInv, EnterHold, PollTurn
<1>1. /\ arcSaved' = FALSE /\ canReq' = asks /\ owns' = take
      /\ nothing => st' = "idle" /\ left' = left
      /\ ~nothing => /\ st' = "hold"
                     /\ left' = [left EXCEPT !.min = IF asks THEN ArcadeMin ELSE MinHold,
                                             !.quiet = Quiet, !.cap = MaxHold]
  BY DEF EnterHold
<1>2. /\ take => /\ restore' = (core.auto /\ ~autosave) /\ autosave' = core.auto /\ osd' = TRUE
      /\ ~take => UNCHANGED <<restore, autosave, osd>>
  BY DEF EnterHold
<1>3. /\ Triggered(edge) /\ edge \in BOOLEAN /\ slow' = FALSE
      /\ switched' = (switched /\ autosave # chosen)
      /\ UNCHANGED <<core, saveOnExit, deferred, osdOpen, chosen, menu, upload, owed>>
  BY DEF EnterHold, EdgeSaves
<1>4. take \in BOOLEAN /\ asks \in BOOLEAN /\ nothing \in BOOLEAN /\ (core.live => edge)
  OBVIOUS
<1>5. /\ dump' \in 0 .. DumpWrites /\ gap' \in 0 .. Gap /\ (core.live => dump' > 0)
  BY <1>0, <1>3, <1>4, TriggeredIs
<1>6. /\ core \in [arcade : BOOLEAN, live : BOOLEAN, auto : BOOLEAN]
      /\ left \in [min : 0 .. ArcadeMin, quiet : 0 .. Quiet, cap : 0 .. MaxHold,
                   report : 0 .. Report]
      /\ {osdOpen, deferred, restore, autosave, osd, chosen, switched, owed} \subseteq BOOLEAN
  BY <1>0 DEF TypeOK
<1>7. take => ~nothing /\ ~core.live /\ (osdOpen => deferred)
  OBVIOUS
<1>8. nothing => ~core.live /\ ~take /\ osdOpen
  OBVIOUS
<1> HIDE DEF take, nothing, asks, edge
<1>9. /\ left' \in [min : 0 .. ArcadeMin, quiet : 0 .. Quiet, cap : 0 .. MaxHold,
                    report : 0 .. Report]
      /\ ~nothing => left'.quiet = Quiet /\ left'.cap = MaxHold
  <2> DEFINE m == IF asks THEN ArcadeMin ELSE MinHold
  <2>1. m \in 0 .. ArcadeMin /\ Quiet \in 0 .. Quiet /\ MaxHold \in 0 .. MaxHold
    BY Constants
  <2>2. ~nothing => left' = [left EXCEPT !.min = m, !.quiet = Quiet, !.cap = MaxHold]
    BY <1>1
  <2> HIDE DEF m
  <2>3. CASE nothing
    BY <1>1, <1>6, <2>3
  <2>4. CASE ~nothing
    BY <1>6, <2>1, <2>2, <2>4
  <2> QED BY <2>3, <2>4
<1>10. {restore', autosave', osd'} \subseteq BOOLEAN
  <2>1. CASE take
    BY <1>2, <1>6, <2>1
  <2>2. CASE ~take
    BY <1>2, <1>6, <2>2
  <2> QED BY <2>1, <2>2
<1>11. TypeOK'
  <2>1. st' \in {"idle", "armed", "hold", "report", "gone"} /\ slow' \in BOOLEAN
    BY <1>1, <1>3
  <2>2. switched' \in BOOLEAN
    BY <1>3
  <2> QED BY <1>0, <1>1, <1>3, <1>4, <1>5, <1>9, <1>10, <2>1, <2>2, ZenonT(30) DEF TypeOK
<1>12. Option'
  <2>1. ~restore /\ (autosave => core.auto) /\ (autosave = chosen \/ (switched /\ ~autosave))
    BY <1>0 DEF Option
  <2>2. autosave = chosen \/ switched'
    BY <1>3, <2>1
  <2>3. CASE take
    <3>1. restore' = (core.auto /\ ~autosave) /\ autosave' = core.auto /\ st' = "hold" /\ owns'
      BY <1>1, <1>2, <1>7, <2>3
    <3>2. CASE core.auto /\ ~autosave
      <4>1. switched' \/ ~chosen'
        BY <1>3, <1>6, <2>2, <3>2
      <4>2. restore' /\ autosave' /\ (autosave' => core'.auto)
        BY <1>3, <3>1, <3>2
      <4> QED BY <3>1, <4>1, <4>2 DEF Option
    <3>3. CASE ~(core.auto /\ ~autosave)
      <4>1. ~restore' /\ (autosave' <=> autosave)
        BY <2>1, <3>1, <3>3
      <4>2. autosave' = chosen' \/ (switched' /\ ~autosave')
        BY <1>3, <1>6, <1>10, <2>1, <2>2, <4>1
      <4>3. autosave' => core'.auto
        BY <1>3, <2>1, <4>1
      <4> QED BY <4>1, <4>2, <4>3 DEF Option
    <3> QED BY <3>2, <3>3
  <2>4. CASE ~take
    <3>1. ~restore' /\ autosave' = autosave /\ chosen' = chosen /\ core' = core
      BY <1>2, <1>3, <2>1, <2>4
    <3> QED BY <2>1, <2>2, <3>1 DEF Option
  <2> QED BY <2>3, <2>4
<1>13. Signal'
  <2>1. st' # "armed"
    BY <1>1
  <2>2. owns' /\ osdOpen' => deferred'
    BY <1>1, <1>3, <1>7
  <2>3. menu' = "none" /\ osd' => st' = "hold" /\ owns'
    <3>1. CASE take
      BY <1>1, <1>7, <3>1
    <3>2. CASE ~take
      BY <1>0, <1>2, <1>3, <3>2 DEF Signal
    <3> QED BY <3>1, <3>2
  <2> QED BY <2>1, <2>2, <2>3 DEF Signal
<1>14. Dumping'
  <2>1. ~core.arcade => upload' = "none" /\ ~arcSaved'
    BY <1>0, <1>1, <1>3 DEF Dumping
  <2>2. st' = "hold" /\ core.live => ~owns'
    BY <1>1, <1>7
  <2>3. ASSUME core.live
        PROVE  st' = "hold" /\ dump' > 0 /\ left'.quiet > gap' /\ left'.cap > gap' + (dump' - 1) * Gap
    <3>1. ~nothing /\ dump' > 0 /\ left'.quiet = Quiet /\ left'.cap = MaxHold /\ st' = "hold"
      BY <1>1, <1>5, <1>8, <1>9, <2>3
    <3>2. dump' \in 1 .. DumpWrites
      BY <1>5, <3>1, Constants
    <3>3. gap' + (dump' - 1) * Gap < MaxHold
      BY <1>5, <3>2, DumpFits
    <3>4. left'.cap > gap' + (dump' - 1) * Gap
      <4>1. gap' \in Int /\ (dump' - 1) * Gap \in Int /\ MaxHold \in Int
        BY <1>5, <3>2, Constants
      <4> QED BY <3>1, <3>3, <4>1
    <3>5. left'.quiet > gap'
      BY <1>5, <3>1, Constants
    <3> QED BY <3>1, <3>4, <3>5
  <2> QED BY <1>3, <2>1, <2>2, <2>3 DEF Dumping, Needed
<1> QED BY <1>11, <1>12, <1>13, <1>14 DEF IInv

\* A hold that lost its signal, or gave it to the user's menu, is not a live row's.
LEMMA HoldGivenUpKeeps == ASSUME IInv, HoldLost \/ HoldTaken PROVE IInv'
<1>0. TypeOK /\ Option /\ Signal /\ Dumping
  BY DEF IInv
<1>1. st = "hold" /\ turn' = "ui" /\ owns /\ UNCHANGED <<chosen, switched, slow>>
  BY DEF HoldLost, HoldTaken, Holding, PollOn, PollTurn, Lost, Taken, users
<1>2. ~core.live
  BY <1>0, <1>1 DEF Dumping
<1>3. CASE HoldLost
  <2>1. /\ EnterReport(FALSE, arcSaved, owed) /\ ~osd
        /\ UNCHANGED <<core, saveOnExit, owns, canReq, dump, gap, upload>>
    BY <1>3 DEF HoldLost, Lost, device
  <2>2. arcSaved \in BOOLEAN /\ owed \in BOOLEAN /\ upload \in {"none", "old", "asked"}
    BY <1>0 DEF TypeOK
  <2>3. ~core.arcade => ~arcSaved
    BY <1>0 DEF Dumping
  <2> QED BY <1>1, <1>2, <2>1, <2>2, <2>3, EnterReportKeeps
<1>4. CASE HoldTaken
  <2>1. /\ Restored /\ menu # "none"
        /\ IF deferred THEN Reissue(menu, osd)
                       ELSE st' = "idle" /\ UNCHANGED <<deferred, osdOpen, menu, osd>>
        /\ UNCHANGED <<core, saveOnExit, left, owns, arcSaved, canReq, device, owed>>
    BY <1>4 DEF HoldTaken, Taken, MenuPresent
  <2>2. /\ restore' = FALSE /\ autosave' \in BOOLEAN /\ (autosave' => core.auto)
        /\ autosave' = chosen \/ (switched /\ ~autosave')
    BY <1>0, <2>1, RestoredIs
  <2> QED BY <1>1, <1>2, <2>1, <2>2, EndKeeps
<1> QED BY <1>3, <1>4

\* A hold ends in the quiet, at its cap or with an upload, so not while a live row
\* of a console core is being dumped.
LEMMA HoldOnKeeps == ASSUME IInv, HoldOn PROVE IInv'
<1> DEFINE saved == arcSaved \/ Asked
           due == owed /\ ~(Asked /\ upload = "asked")
<1>0. TypeOK /\ Option /\ Signal /\ Dumping
  BY DEF IInv
<1>1. /\ st = "hold" /\ turn' = "ui" /\ upload' = IF Asked THEN "none" ELSE upload
      /\ UNCHANGED <<core, saveOnExit, owns, canReq, chosen, switched, dump, gap, slow>>
  BY DEF HoldOn, Holding, PollOn, PollTurn, users
<1>2. /\ HoldOver(saved) => EnterReport(TRUE, saved, due)
      /\ ~HoldOver(saved) => /\ arcSaved' = saved /\ owed' = due
                             /\ UNCHANGED <<st, left, deferred, osdOpen, restore, autosave, menu, osd>>
  BY DEF HoldOn
<1>3. saved \in BOOLEAN /\ due \in BOOLEAN /\ (due => owed)
  OBVIOUS
<1>4. ~core.arcade => ~saved /\ ~Asked
  BY <1>0 DEF Dumping, Asked
<1>5. upload' \in {"none", "old", "asked"} /\ (~core.arcade => upload' = upload)
  BY <1>0, <1>1, <1>4 DEF TypeOK
<1> HIDE DEF saved, due
<1>6. CASE HoldOver(saved)
  <2>1. core.live /\ ~core.arcade => ~due \/ slow
    <3> SUFFICES ASSUME core.live, ~core.arcade, due, ~slow PROVE FALSE
      OBVIOUS
    <3>1. dump > 0 /\ left.quiet > gap /\ left.cap > gap + (dump - 1) * Gap
      BY <1>0, <1>1, <1>3 DEF Dumping, Needed
    <3>2. gap \in Nat /\ dump \in Nat /\ left.quiet \in Nat /\ left.cap \in Nat
      BY <1>0, Constants DEF TypeOK
    <3>3. (dump - 1) * Gap \in Nat
      BY <3>1, <3>2, Constants
    <3>4. left.quiet # 0 /\ left.cap # 0
      BY <3>1, <3>2, <3>3
    <3> QED BY <1>4, <1>6, <3>4 DEF HoldOver
  <2> QED BY <1>1, <1>2, <1>3, <1>4, <1>5, <1>6, <2>1, EnterReportKeeps
<1>7. CASE ~HoldOver(saved)
  <2>1. /\ arcSaved' = saved /\ owed' = due
        /\ UNCHANGED <<st, left, deferred, osdOpen, restore, autosave, menu, osd>>
    BY <1>2, <1>7
  <2>2. TypeOK'
    BY <1>0, <1>1, <1>3, <1>5, <2>1 DEF TypeOK
  <2>3. Option'
    BY <1>0, <1>1, <2>1 DEF Option
  <2>4. Signal'
    BY <1>0, <1>1, <2>1 DEF Signal
  <2>5. Dumping'
    BY <1>0, <1>1, <1>3, <1>4, <1>5, <2>1 DEF Dumping, Needed
  <2> QED BY <2>2, <2>3, <2>4, <2>5 DEF IInv
<1> QED BY <1>6, <1>7

\* Every turn of zaparoo_poll.
LEMMA ZaparooPollKeeps == ASSUME IInv, ZaparooPoll PROVE IInv'
<1>0. TypeOK /\ Option /\ Signal /\ Dumping
  BY DEF IInv
<1>1. CASE ReportOver
  <2>1. /\ st = "report" /\ turn' = "ui"
        /\ IF deferred THEN Reissue(menu, osd)
                       ELSE st' = "idle" /\ UNCHANGED <<deferred, osdOpen, menu, osd>>
        /\ UNCHANGED <<core, saveOnExit, left, owns, arcSaved, canReq, restore, autosave, chosen,
                       switched, device, owed, slow>>
    BY <1>1 DEF ReportOver, PollOn, PollTurn, users
  <2>2. /\ restore' = FALSE /\ autosave' \in BOOLEAN /\ (autosave' => core.auto)
        /\ autosave' = chosen \/ (switched /\ ~autosave')
    <3>1. ~restore /\ autosave \in BOOLEAN /\ restore \in BOOLEAN
      BY <1>0, <2>1 DEF Option, TypeOK
    <3> QED BY <1>0, <2>1, <3>1 DEF Option
  <2>3. menu = "none" => ~osd
    BY <1>0, <2>1 DEF Signal
  <2>4. core.live /\ ~core.arcade => ~owed \/ slow
    BY <1>0, <2>1 DEF Dumping
  <2> QED BY <2>1, <2>2, <2>3, <2>4, EndKeeps
<1>2. CASE PollNothing
  <2>1. /\ st \in {"idle", "report"} /\ turn' = "ui"
        /\ UNCHANGED <<core, saveOnExit, st, left, statics, autosave, users, menu, osd, device, owed,
                       slow>>
    BY <1>2 DEF PollNothing, PollOn, PollTurn
  <2>2. TypeOK'
    BY <1>0, <2>1 DEF TypeOK, statics, device, users
  <2>3. Option' /\ Signal' /\ Dumping'
    BY <1>0, <2>1 DEF Option, Signal, Dumping, Needed, statics, device, users
  <2> QED BY <2>2, <2>3 DEF IInv
<1> QED BY <1>1, <1>2, EnterHoldKeeps, HoldGivenUpKeeps, HoldOnKeeps DEF ZaparooPoll

\* With the user's menu open and no load behind the flush, zaparoo_poll leaves
\* OSD_STATUS as it is.
LEMMA PollLeavesSignal ==
  ASSUME IInv, ZaparooPoll, menu = "open", ~deferred
  PROVE  osd' = osd
<1>0. TypeOK /\ Signal /\ osd \in BOOLEAN
  BY DEF IInv, TypeOK
<1>1. CASE EnterHold
  <2>1. osdOpen
    BY <1>0, <1>1 DEF EnterHold, Signal
  <2> QED BY <1>1, <2>1 DEF EnterHold
<1>2. CASE HoldLost
  <2>1. EnterReport(FALSE, arcSaved, owed)
    BY <1>2 DEF HoldLost
  <2>2. osd' = (osd /\ (FALSE => menu = "open" /\ ~owns))
    BY <2>1 DEF EnterReport
  <2> QED BY <1>0, <2>2
<1>3. CASE HoldTaken
  BY <1>3 DEF HoldTaken
<1>4. CASE HoldOn
  <2>1. /\ st = "hold" /\ ~(owns /\ ~osd) /\ ~(owns /\ osd /\ ~osdOpen)
        /\ \/ osd' = osd
           \/ \E saved, due : EnterReport(TRUE, saved, due)
    BY <1>4 DEF HoldOn, Holding, PollOn, Lost, Taken, MenuPresent
  <2>2. CASE \E saved, due : EnterReport(TRUE, saved, due)
    <3>1. osd' = (osd /\ (TRUE => menu = "open" /\ ~owns))
      BY <2>2 DEF EnterReport
    <3>2. ~owns
      BY <1>0, <2>1 DEF Signal
    <3> QED BY <1>0, <3>1, <3>2
  <2> QED BY <2>1, <2>2
<1>5. CASE ReportOver
  BY <1>5 DEF ReportOver
<1>6. CASE PollNothing
  BY <1>6 DEF PollNothing
<1> QED BY <1>1, <1>2, <1>3, <1>4, <1>5, <1>6 DEF ZaparooPoll

-----------------------------------------------------------------------------
(* The theorems *)

\* Main starts with nothing to save, nothing overridden and the OSD off.
LEMMA InitEstablishes == Init => IInv
<1> SUFFICES ASSUME Init PROVE IInv
  OBVIOUS
<1>1. left \in [min : 0 .. ArcadeMin, quiet : 0 .. Quiet, cap : 0 .. MaxHold, report : 0 .. Report]
  BY Constants DEF Init
<1>2. /\ dump \in 0 .. DumpWrites /\ gap \in 0 .. Gap
      /\ chosen \in BOOLEAN /\ autosave \in BOOLEAN
  BY Constants DEF Init
<1>3. TypeOK
  BY <1>1, <1>2 DEF Init, TypeOK
<1>4. Option
  BY DEF Init, Option
<1>5. Signal
  BY DEF Init, Signal
<1>6. Dumping
  BY DEF Init, Dumping
<1> QED BY <1>3, <1>4, <1>5, <1>6 DEF IInv

\* Every step of the cothreads, the core, the kernel and the clock keeps it.
LEMMA StepKeeps == IInv /\ [Next]_vars => IInv'
<1> SUFFICES ASSUME IInv, [Next]_vars PROVE IInv'
  OBVIOUS
<1>1. CASE ZaparooPoll
  BY <1>1, ZaparooPollKeeps
<1>2. CASE Commands
  BY <1>2, CommandsKeep
<1>3. CASE HandleUI
  BY <1>3, HandleUIKeeps
<1>4. CASE Environment
  BY <1>4, CoreDumpsKeeps, CoreWritesKeeps, TickKeeps, PopupKeeps DEF Environment
<1>5. CASE UNCHANGED vars
  <2>1. UNCHANGED <<core, saveOnExit, st, left, deferred, osdOpen, owns, arcSaved, canReq, restore,
                    autosave, chosen, switched, menu, osd, dump, gap, upload, owed, slow, turn>>
    BY <1>5 DEF vars, statics, device, users
  <2>2. TypeOK'
    BY <2>1 DEF IInv, TypeOK
  <2>3. Option' /\ Signal' /\ Dumping'
    BY <2>1 DEF IInv, Option, Signal, Dumping, Needed
  <2> QED BY <2>2, <2>3 DEF IInv
<1> QED BY <1>1, <1>2, <1>3, <1>4, <1>5 DEF Next

\* The inductive invariant holds in every state of the forced save.
THEOREM SpecIInv == Spec => []IInv
  BY InitEstablishes, StepKeeps, PTL DEF Spec

\* Every variable keeps its type and no deadline leaves its range.
THEOREM SpecTypeOK == Spec => []TypeOK
<1>1. IInv => TypeOK
  BY DEF IInv
<1> QED BY <1>1, SpecIInv, PTL

\* A console core with a live save row is never replaced by save-on-exit with what
\* the flush was asked to save still in the core, unless a write of its dump was
\* late: for any deadlines in save.cpp's order and any dump that fits below them.
THEOREM SpecLiveRowLosesNothing == Spec => []LiveRowLosesNothing
<1>1. IInv => LiveRowLosesNothing
  BY DEF IInv, Dumping, LiveRowLosesNothing
<1> QED BY <1>1, SpecIInv, PTL

\* Outside a hold the Autosave option is what the user chose, unless it was switched
\* on over an override.
THEOREM SpecAutosaveIsTheUsers == Spec => []AutosaveIsTheUsers
<1>1. IInv => AutosaveIsTheUsers
  BY DEF IInv, Option, AutosaveIsTheUsers
<1> QED BY <1>1, SpecIInv, PTL

\* A flush that ends leaves no OSD on behind it, and none is switched under the
\* user's open menu.
THEOREM SpecSignalIsShared == Spec => SignalIsShared
<1>1. ASSUME IInv, IInv', [Next]_vars
      PROVE  [/\ st' \in {"idle", "report"} /\ menu' = "none" => ~osd'
              /\ ZaparooPoll /\ menu = "open" /\ ~deferred => osd' = osd]_vars
  <2>1. st' \in {"idle", "report"} /\ menu' = "none" => ~osd'
    BY <1>1 DEF IInv, Signal
  <2>2. ZaparooPoll /\ menu = "open" /\ ~deferred => osd' = osd
    BY <1>1, PollLeavesSignal
  <2> QED BY <2>1, <2>2
<1> QED BY <1>1, SpecIInv, PTL DEF Spec, SignalIsShared
=============================================================================
