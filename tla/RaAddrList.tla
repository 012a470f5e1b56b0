----------------------------- MODULE RaAddrList -----------------------------
(***************************************************************************)
(* The list of watched addresses that Main shares with the core through    *)
(* DDRAM, and the cache of their bytes that the core fills                 *)
(* (ra_ramread.cpp), as the smart-cache poll of achievements_snes.cpp uses *)
(* them.  Neither side has a lock: the core scans the list at every VBlank *)
(* and confirms it with the id it latched; Main decides from that id which *)
(* order of addresses the cached bytes follow.                             *)
(*                                                                         *)
(* A list is sorted and free of duplicates, so it is a set and an index is *)
(* a rank.  A byte is the address it was read from, 0 when it was cleared. *)
(* One step of Main is at most one access to the shared memory.            *)
(***************************************************************************)
EXTENDS Integers, FiniteSets

CONSTANTS
  Addr,      \* the addresses the achievements read, a set of naturals above 0
  MaxId,     \* bound: revisions of the list
  MaxFrame,  \* bound: frames the core counts between two resets
  Fallback   \* whether a publish may follow 30 deferrals outside its window

ASSUME AddrAssumption ==
  /\ Addr \subseteq Nat \ {0} /\ IsFiniteSet(Addr)
  /\ {MaxId, MaxFrame} \subseteq Nat \ {0}
  /\ Fallback \in BOOLEAN

VARIABLES
  list,   \* s_snes_addrs: the pending list, [all, dyn]
  pub,    \* s_published_addrs
  act,    \* the active snapshot, [addrs, id]
  req,    \* s_snes_request_id
  seen,   \* s_resp_valid, s_resp_id_seen, s_resp_frame_seen
  con,    \* [ready, last] of console_state_t, [pending] s_dynamic_pending
  arm,    \* where Main is: [pc, goal], and the loads of the sample it takes
  ddr,    \* what Main wrote: [addrs, id], with the count of its header
  resp,   \* the response header of the core: [id, frame]
  vals,   \* the bytes of the cache
  fpga    \* the core's scan

main == <<list, pub, act, req, seen, con, arm>>
vars == <<list, pub, act, req, seen, con, arm, ddr, resp, vals, fpga>>

Id == 0 .. MaxId
Frame == 0 .. MaxFrame
Slot == 1 .. Cardinality(Addr)

\* Where a sorted list has an address
Rank(a, addrs) == Cardinality({b \in addrs : b <= a})

\* The array a list is written to, over what was there
Write(addrs, old) ==
  [s \in Slot |-> IF \E a \in addrs : Rank(a, addrs) = s
                    THEN CHOOSE a \in addrs : Rank(a, addrs) = s
                    ELSE old[s]]

TypeOK ==
  /\ list \in [all : SUBSET Addr, dyn : SUBSET Addr] /\ list.dyn \subseteq list.all
  /\ pub \in SUBSET Addr
  /\ act \in [addrs : SUBSET Addr, id : Id] /\ act.id <= req
  /\ req \in Id
  /\ seen \in [ok : BOOLEAN, id : Id, frame : Frame] /\ seen.id <= req
  /\ con \in [ready : BOOLEAN, last : Frame, pending : BOOLEAN]
  /\ arm \in [pc : {"idle", "f0", "id", "f1", "sync", "caught", "frame", "eval", "grow",
                    "publish", "addrs", "count", "commit"},
              goal : {"fill", "frame", "eval", "flush", "prune"},
              f0 : Frame, id : Id, open : BOOLEAN, then : {"sync", "caught", "frame", "publish"}]
  /\ ddr \in [addrs : [Slot -> Addr \cup {0}], count : 0 .. Cardinality(Addr), id : Id]
  /\ resp \in [id : Id, frame : Frame]
  /\ vals \in [Slot -> Addr \cup {0}]
  /\ fpga \in [scan : BOOLEAN, id : Id, count : 0 .. Cardinality(Addr),
               at : 1 .. Cardinality(Addr) + 1, latched : Frame, frame : Frame]

Blank == [s \in Slot |-> 0]
NoSample == [ok |-> FALSE, id |-> 0, frame |-> 0]
NoList == [all |-> {}, dyn |-> {}]
NoSnapshot == [addrs |-> {}, id |-> 0]
Resting == [pc |-> "idle", goal |-> "fill", f0 |-> 0, id |-> 0, open |-> FALSE, then |-> "sync"]

Init ==
  /\ list = NoList /\ pub = {} /\ act = NoSnapshot /\ req = 0
  /\ seen = NoSample
  /\ con = [ready |-> FALSE, last |-> 0, pending |-> FALSE]
  /\ arm = Resting
  /\ ddr = [addrs |-> Blank, count |-> 0, id |-> 0]
  /\ resp = [id |-> 0, frame |-> 0]
  /\ vals = Blank
  /\ fpga = [scan |-> FALSE, id |-> 0, count |-> 0, at |-> 1, latched |-> 0, frame |-> 0]

Goto(pc) == arm' = [arm EXCEPT !.pc = pc]
Rest == arm' = Resting

-----------------------------------------------------------------------------
(* The tear-free sample of the response header: s_refresh_resp *)

\* A sample is taken, and Main goes on at pc
Sample(goal, pc, open) ==
  arm' = [Resting EXCEPT !.pc = "f0", !.goal = goal, !.then = pc, !.open = open]

LoadFrame ==
  /\ arm.pc = "f0"
  /\ arm' = [arm EXCEPT !.f0 = resp.frame,
                        !.pc = IF seen.ok /\ resp.frame = seen.frame THEN arm.then ELSE "id"]
  /\ UNCHANGED <<list, pub, act, req, seen, con>>

LoadId ==
  /\ arm.pc = "id"
  /\ arm' = [arm EXCEPT !.id = resp.id, !.pc = "f1"]
  /\ UNCHANGED <<list, pub, act, req, seen, con>>

\* The last of eight torn attempts keeps the sample before
LoadAgain ==
  /\ arm.pc = "f1"
  /\ IF resp.frame = arm.f0
       THEN /\ seen' = [ok |-> TRUE, id |-> arm.id, frame |-> arm.f0]
            /\ Goto(arm.then)
       ELSE /\ arm' \in {[arm EXCEPT !.f0 = resp.frame, !.pc = "id"], [arm EXCEPT !.pc = arm.then]}
            /\ UNCHANGED seen
  /\ UNCHANGED <<list, pub, act, req, con>>

\* s_sync_active: the snapshot after a sample
Synced ==
  IF seen.ok /\ seen.id = req /\ seen.id # act.id THEN [addrs |-> pub, id |-> req] ELSE act

CaughtUp == seen.ok /\ seen.id = req

-----------------------------------------------------------------------------
(* A new revision: the list is written in three steps *)

\* ra_snes_addrlist_init keeps the request id
Cleared ==
  /\ list' = NoList /\ pub' = {} /\ act' = NoSnapshot
  /\ seen' = NoSample
  /\ UNCHANGED req

Publish(l) ==
  /\ req < MaxId
  /\ list' = l /\ pub' = l.all /\ req' = req + 1
  /\ Goto("addrs")

WriteAddrs ==
  /\ arm.pc = "addrs"
  /\ ddr' = [ddr EXCEPT !.addrs = Write(pub, @)]
  /\ Goto("count")
  /\ UNCHANGED <<list, pub, act, req, seen, con, resp, vals, fpga>>

WriteCount ==
  /\ arm.pc = "count"
  /\ ddr' = [ddr EXCEPT !.count = Cardinality(pub)]
  /\ Goto("commit")
  /\ UNCHANGED <<list, pub, act, req, seen, con, resp, vals, fpga>>

Commit ==
  /\ arm.pc = "commit"
  /\ ddr' = [ddr EXCEPT !.id = req]
  /\ Rest
  /\ UNCHANGED <<list, pub, act, req, seen, con, resp, vals, fpga>>

-----------------------------------------------------------------------------
(* The poll: snes_poll *)

\* Phase 1: one frame over zeros collects the addresses; the active snapshot is
\* gone with the list
Bootstrap(addrs) ==
  /\ arm.pc = "idle" /\ list.all = {} /\ ~con.ready
  /\ Publish([all |-> addrs, dyn |-> {}])
  /\ UNCHANGED <<act, seen, con>>

\* Phase 2 waits for the core, phase 3 looks for a new frame
PollStart ==
  /\ arm.pc = "idle" /\ (list.all # {} \/ con.ready)
  /\ IF con.ready THEN Sample("frame", "frame", FALSE) ELSE Sample("fill", "sync", FALSE)
  /\ UNCHANGED <<list, pub, act, req, seen, con>>

\* A poll is in time when its publish comes less than 8 ms after the header of its
\* frame was written (s_publish_window_open): no other header has come since, and
\* unless the core restarts its next VBlank comes after the publish
InTime == ~fpga.scan /\ resp.frame = seen.frame

\* ra_snes_addrlist_response_frame, seladdr_resync_if_backward
NewFrame(open) ==
  /\ arm.pc = "frame" /\ (open => InTime)
  /\ LET frame == IF seen.ok THEN seen.frame ELSE 0
     IN  \/ /\ frame < con.last
            /\ con' = [ready |-> FALSE, last |-> frame, pending |-> FALSE]
            /\ Cleared /\ Rest
         \/ /\ frame > con.last
            /\ con' = [con EXCEPT !.last = frame]
            /\ act' = Synced
            /\ Sample("eval", "sync", open)
            /\ UNCHANGED <<list, pub, req, seen>>
         \/ /\ frame = con.last
            /\ act' = Synced
            /\ Rest
            /\ UNCHANGED <<list, pub, req, seen, con>>

\* ra_snes_addrlist_is_ready takes a sample to promote by, and another to answer by
IsReadySync ==
  /\ arm.pc = "sync"
  /\ act' = Synced
  /\ Sample(arm.goal, "caught", arm.open)
  /\ UNCHANGED <<list, pub, req, seen, con>>

IsReady ==
  /\ arm.pc = "caught"
  /\ \/ /\ arm.goal = "fill" /\ Rest
        /\ con' = IF CaughtUp THEN [con EXCEPT !.ready = TRUE, !.last = 0] ELSE con
     \/ /\ arm.goal = "eval" /\ Goto(IF CaughtUp THEN "eval" ELSE "grow")
        /\ UNCHANGED con
  /\ UNCHANGED <<list, pub, act, req, seen>>

\* rc_client_do_frame reads: a miss is answered by rtquery and added to the list
Evaluate(reads) ==
  /\ arm.pc = "eval"
  /\ LET new == (reads \ act.addrs) \ list.all
     IN  /\ list' = [all |-> list.all \cup new, dyn |-> list.dyn \cup new]
         /\ con' = [con EXCEPT !.pending = @ \/ new # {}]
  /\ Goto("grow")
  /\ UNCHANGED <<pub, act, req, seen>>

\* A cleanup tick prunes when enough of the list is dynamic, else what was added
\* is flushed, but never down to nothing; neither publishes before another sample
Grow ==
  /\ arm.pc = "grow"
  /\ \/ /\ list.dyn # {}
        /\ IF list.dyn = list.all THEN Rest ELSE Sample("prune", "publish", arm.open)
     \/ IF con.pending THEN Sample("flush", "publish", arm.open) ELSE Rest
  /\ UNCHANGED <<list, pub, act, req, seen, con>>

\* Faulty variant: what was added is forgotten before the publish is known to come
DeferredForgets ==
  /\ arm.pc = "publish"
  /\ ~(CaughtUp /\ ~fpga.scan /\ arm.open) \/ req = MaxId
  /\ con' = [con EXCEPT !.pending = FALSE]
  /\ Rest
  /\ UNCHANGED <<list, pub, act, req, seen>>

\* Tried again after a later frame
Deferred ==
  /\ arm.pc = "publish"
  /\ ~(CaughtUp /\ ~fpga.scan /\ arm.open) \/ req = MaxId
  /\ Rest
  /\ UNCHANGED <<list, pub, act, req, seen, con>>

\* Faulty variant: a publish waits for the core to confirm the list, but neither for
\* the end of its scan nor for the window
MayPublishAnyTime == CaughtUp

\* Not before the core confirmed the list, not during its scan, and not so late
\* that another scan may begin before the publish is through
MayPublish == CaughtUp /\ ~fpga.scan /\ (arm.open \/ (arm.goal = "flush" /\ Fallback))

\* Faulty variant: a prune leaves the marks of what it dropped
ReviseKeepsMarks ==
  /\ arm.pc = "publish" /\ MayPublish
  /\ Publish(IF arm.goal = "flush" THEN list ELSE [list EXCEPT !.all = @ \ list.dyn])
  /\ con' = [con EXCEPT !.pending = FALSE]
  /\ UNCHANGED <<act, seen>>

\* ra_snes_addrlist_flush_dynamic, ra_snes_addrlist_prune_dynamic
Revise ==
  /\ arm.pc = "publish" /\ MayPublish
  /\ Publish(IF arm.goal = "flush" THEN list ELSE [all |-> list.all \ list.dyn, dyn |-> {}])
  /\ con' = [con EXCEPT !.pending = FALSE]
  /\ UNCHANGED <<act, seen>>

\* achievements_notify_core_reset, with the reset of the core it goes with: the
\* payload of the mirror is cleared, a scan under way goes on with what it latched
CoreReset ==
  /\ arm.pc = "idle"
  /\ Cleared
  /\ con' = [ready |-> FALSE, last |-> 0, pending |-> FALSE]
  /\ ddr' = [addrs |-> Blank, count |-> 0, id |-> 0]
  /\ resp' = [id |-> 0, frame |-> 0]
  /\ vals' = Blank
  /\ fpga' = [fpga EXCEPT !.frame = 0]
  /\ UNCHANGED arm

Poll ==
  \/ LoadFrame \/ LoadId \/ LoadAgain
  \/ \E addrs \in (SUBSET Addr) \ {{}} : Bootstrap(addrs)
  \/ \E open \in BOOLEAN : NewFrame(open)
  \/ PollStart \/ IsReadySync \/ IsReady
  \/ \E reads \in SUBSET Addr : Evaluate(reads)
  \/ Grow \/ Deferred \/ Revise

-----------------------------------------------------------------------------
(* The core: it latches the header of the list, reads it address by address *)
(* and writes its own header in one word                                    *)

VBlank ==
  /\ ~fpga.scan /\ (arm.open => fpga.frame = 0) /\ fpga.frame < MaxFrame
  /\ fpga' = [scan |-> TRUE, id |-> ddr.id, count |-> ddr.count, at |-> 1,
              latched |-> fpga.frame + 1, frame |-> fpga.frame + 1]
  /\ UNCHANGED <<resp, vals>>

ReadPair ==
  /\ fpga.scan /\ fpga.at <= fpga.count
  /\ vals' = [vals EXCEPT ![fpga.at] = ddr.addrs[fpga.at]]
  /\ fpga' = [fpga EXCEPT !.at = @ + 1]
  /\ UNCHANGED resp

Respond ==
  /\ fpga.scan /\ fpga.at > fpga.count
  /\ resp' = [id |-> fpga.id, frame |-> fpga.latched]
  /\ fpga' = [scan |-> FALSE, id |-> 0, count |-> 0, at |-> 1, latched |-> 0, frame |-> fpga.frame]
  /\ UNCHANGED vals

\* The core restarts without Main ("Eject ROM"): its frames count from 0 again
Restart ==
  /\ fpga.frame > 0
  /\ fpga' = [scan |-> FALSE, id |-> 0, count |-> 0, at |-> 1, latched |-> 0, frame |-> 0]
  /\ UNCHANGED <<resp, vals>>

Core == (VBlank \/ ReadPair \/ Respond \/ Restart) /\ UNCHANGED <<main, ddr>>

Next ==
  \/ Poll /\ UNCHANGED <<ddr, resp, vals, fpga>>
  \/ WriteAddrs \/ WriteCount \/ Commit
  \/ CoreReset
  \/ Core

Spec == Init /\ [][Next]_vars

-----------------------------------------------------------------------------
(* Properties *)

\* While Main evaluates a frame, every cached byte is of the address it is served
\* for, whatever the core is doing to the cache, however the header was torn and
\* whatever scan of an earlier list or an earlier run of the core ended meanwhile.
EvaluatedIsAligned ==
  arm.pc = "eval" => \A a \in act.addrs : vals[Rank(a, act.addrs)] = a

\* An address that was added to the list is published, or Main still knows that
\* it has to: a deferred publish is not forgotten.
InsertsArePublished == list.all # pub => con.pending
=============================================================================
