-------------------------- MODULE RaAddrListProofs --------------------------
(***************************************************************************)
(* The list of watched addresses, proved for every set of addresses, every *)
(* number of revisions and every length of a run of the core.              *)
(*                                                                         *)
(* That the types hold and that no added address is forgotten needs little *)
(* more than itself: ids are handed on from Main to the list, the core,    *)
(* its header and back, and none is above the request (Known).             *)
(*                                                                         *)
(* That an evaluated byte is of its address (for a poll that publishes     *)
(* only in its window, ~Fallback) is an argument about ids.  A revision is *)
(* written while its id is nowhere (Unsent); the committed list is the     *)
(* published one (Written), so a scan that latched its id reads it in      *)
(* place (Scanned) and a header with its id says that the bytes are        *)
(* (Confirmed).  What is left is Main's own snapshot: it is the published  *)
(* one when its id is the request (Snapshot), and a poll that sees a new   *)
(* frame sees the request confirmed, because a header of any other id has  *)
(* a frame Main has had (Stale), and that is so because a revision is      *)
(* published before the core's next frame (Window).                        *)
(***************************************************************************)
EXTENDS RaAddrList, FiniteSetTheorems, TLAPS

\* The steps of Main in which a revision is written, and those of a sample
Publishing == arm.pc \in {"addrs", "count", "commit"}
Sampling == arm.pc \in {"f0", "id", "f1"}

Known ==
  /\ ddr.id <= req /\ resp.id <= req /\ fpga.id <= req /\ arm.id <= req

\* Where a poll is, for what, and what it has found out by then
Course ==
  /\ arm.pc = "idle" => arm = Resting
  /\ arm.pc \in {"frame", "publish"} \/ (Sampling /\ arm.then \in {"frame", "publish"}) =>
       arm.goal \notin {"fill", "eval"}
  /\ arm.pc \in {"sync", "caught"} \/ (Sampling /\ arm.then \in {"sync", "caught"}) =>
       arm.goal \in {"fill", "eval"}
  /\ arm.pc = "frame" \/ (Sampling /\ arm.then = "frame") => arm.goal = "frame"
  /\ arm.pc = "publish" \/ (Sampling /\ arm.then = "publish") => arm.goal \in {"flush", "prune"}
  /\ arm.pc \in {"eval", "grow"} => arm.goal = "eval"
  /\ arm.goal # "fill" => con.ready

\* Main polls only with a list, and never publishes an empty one
Filled ==
  /\ list.all # {} => pub # {}
  /\ arm.pc # "idle" \/ con.ready => list.all # {}
  /\ arm.goal = "prune" /\ ~Publishing => list.dyn # list.all

\* The id of a revision that is being written is nowhere yet
Unsent ==
  Publishing =>
    /\ ddr.id < req /\ resp.id < req /\ fpga.id < req /\ arm.id < req
    /\ seen.id < req /\ act.id < req

\* An array has the addresses of a list in place, up to a slot
InPlace(bytes, addrs, end) ==
  \A a \in addrs : Rank(a, addrs) < end => bytes[Rank(a, addrs)] = a

End(addrs) == Cardinality(addrs) + 1

\* What of the published list the shared memory has, as far as Main has come
Written ==
  pub # {} =>
    /\ arm.pc # "addrs" => InPlace(ddr.addrs, pub, End(pub))
    /\ arm.pc \notin {"addrs", "count"} => ddr.count = Cardinality(pub)
    /\ ~Publishing => ddr.id = req

\* A scan of the published list has put in place what it has read
Scanned ==
  pub # {} /\ fpga.scan /\ fpga.id = req =>
    fpga.count = Cardinality(pub) /\ InPlace(vals, pub, fpga.at)

\* Who knows of the request knows it from the header, and the header says that all
\* bytes are in place, and that no scan is left that would move them
Confirmed ==
  pub # {} =>
    /\ arm.pc = "f1" /\ arm.id = req => resp.id = req
    /\ seen.ok /\ seen.id = req => resp.id = req
    /\ resp.id = req => /\ InPlace(vals, pub, End(pub))
                        /\ fpga.scan => fpga.id = req

\* An id that is not the request comes with a frame Main has had
Stale ==
  con.ready =>
    /\ resp.id # req => resp.frame <= con.last
    /\ fpga.scan /\ fpga.id # req => fpga.latched <= con.last
    /\ seen.ok /\ seen.id # req => seen.frame <= con.last
    /\ arm.pc = "id" => resp.id = req \/ arm.f0 <= con.last
    /\ arm.pc = "f1" => arm.id = req \/ arm.f0 <= con.last

\* In the window of a publish there is no frame that Main has not had
Window ==
  /\ arm.open =>
       /\ con.last > 0
       /\ resp.frame <= con.last /\ seen.frame <= con.last
       /\ fpga.scan => fpga.latched <= con.last
       /\ arm.pc \in {"id", "f1"} => arm.f0 <= con.last
  /\ Publishing /\ con.ready => arm.open

\* Main's snapshot, and what a poll that may evaluate knows of it
Snapshot ==
  /\ act.id = req => act.addrs = pub
  /\ arm.goal = "eval" => act.id = req
  /\ arm.pc = "eval" => CaughtUp

TInv == TypeOK /\ Known /\ Course

AInv ==
  Filled /\ Unsent /\ Written /\ Scanned /\ Confirmed /\ Stale /\ Window /\ Snapshot

-----------------------------------------------------------------------------
(* Ranks: where a list has its addresses *)

\* A list has a finite number of addresses, no more than there are.
LEMMA ListIsFinite ==
  ASSUME NEW addrs \in SUBSET Addr
  PROVE  /\ IsFiniteSet(addrs) /\ Cardinality(addrs) \in Nat
         /\ Cardinality(Addr) \in Nat /\ Cardinality(addrs) <= Cardinality(Addr)
         /\ Cardinality(addrs) = 0 <=> addrs = {}
  BY AddrAssumption, FS_Subset, FS_CardinalityType, FS_EmptySet

\* The rank of an address of a list is one of the list's slots.
LEMMA RankIsSlot ==
  ASSUME NEW addrs \in SUBSET Addr, NEW a \in addrs
  PROVE  Rank(a, addrs) \in 1..Cardinality(addrs) /\ Rank(a, addrs) \in Slot
<1> DEFINE T == {b \in addrs : b <= a}
<1>1. T \in SUBSET addrs /\ a \in T  BY AddrAssumption
<1>2. IsFiniteSet(addrs) /\ Cardinality(addrs) <= Cardinality(Addr)
      /\ Cardinality(addrs) \in Nat /\ Cardinality(Addr) \in Nat
  BY ListIsFinite
<1>3. Cardinality(T) <= Cardinality(addrs) /\ IsFiniteSet(T) /\ Cardinality(T) \in Nat
  BY <1>1, <1>2, FS_Subset, FS_CardinalityType
<1>4. Cardinality(T) # 0  BY <1>1, <1>3, FS_EmptySet
<1>5. Rank(a, addrs) = Cardinality(T)  BY DEF Rank
<1> HIDE DEF T
<1> QED  BY <1>2, <1>3, <1>4, <1>5 DEF Slot

\* The ranks of a list grow with its addresses.
LEMMA RankGrows ==
  ASSUME NEW addrs \in SUBSET Addr, NEW a \in addrs, NEW b \in addrs, a < b
  PROVE  Rank(a, addrs) < Rank(b, addrs)
<1> DEFINE T == {c \in addrs : c <= a}
           U == {c \in addrs : c <= b}
<1>1. T \in SUBSET U /\ b \in U /\ b \notin T
  <2>1. a \in Nat /\ b \in Nat /\ addrs \subseteq Nat  BY AddrAssumption
  <2>2. ASSUME NEW c \in addrs, c <= a PROVE c <= b  BY <2>1, <2>2
  <2>3. ~(b <= a) /\ b <= b  BY <2>1
  <2> QED  BY <2>2, <2>3, Zenon
<1>2. IsFiniteSet(addrs) /\ U \in SUBSET addrs /\ T \in SUBSET addrs  BY ListIsFinite
<1>3. IsFiniteSet(U) /\ IsFiniteSet(T)  BY <1>2, FS_Subset
<1>4. Cardinality(T) \in Nat /\ Cardinality(U) \in Nat  BY <1>3, FS_CardinalityType
<1>5. Cardinality(T) <= Cardinality(U) /\ (Cardinality(U) = Cardinality(T) => U = T)
  BY <1>1, <1>3, FS_Subset
<1>6. Rank(a, addrs) = Cardinality(T) /\ Rank(b, addrs) = Cardinality(U)  BY DEF Rank
<1> HIDE DEF T, U
<1> QED  BY <1>1, <1>4, <1>5, <1>6

\* No two addresses of a list share a slot.
LEMMA RankIsOwn ==
  ASSUME NEW addrs \in SUBSET Addr, NEW a \in addrs, NEW b \in addrs,
         Rank(a, addrs) = Rank(b, addrs)
  PROVE  a = b
<1>1. a \in Nat /\ b \in Nat  BY AddrAssumption
<1>2. Rank(a, addrs) \in Nat /\ Rank(b, addrs) \in Nat  BY RankIsSlot DEF Slot
<1>3. ~(a < b) /\ ~(b < a)  BY <1>2, RankGrows
<1> QED  BY <1>1, <1>3

\* A written array has every address of the list at its rank, and only addresses
\* where it had only addresses (or cleared words) before.
LEMMA WritePlaces ==
  ASSUME NEW addrs \in SUBSET Addr, NEW old \in [Slot -> Addr \cup {0}]
  PROVE  /\ Write(addrs, old) \in [Slot -> Addr \cup {0}]
         /\ InPlace(Write(addrs, old), addrs, End(addrs))
<1>1. ASSUME NEW s \in Slot, \E a \in addrs : Rank(a, addrs) = s
      PROVE  /\ (CHOOSE a \in addrs : Rank(a, addrs) = s) \in addrs
             /\ Rank(CHOOSE a \in addrs : Rank(a, addrs) = s, addrs) = s
  BY <1>1
<1>2. Write(addrs, old) \in [Slot -> Addr \cup {0}]
  <2>1. ASSUME NEW s \in Slot
        PROVE  (IF \E a \in addrs : Rank(a, addrs) = s
                  THEN CHOOSE a \in addrs : Rank(a, addrs) = s
                  ELSE old[s]) \in Addr \cup {0}
    BY <1>1
  <2> QED  BY <2>1 DEF Write
<1>3. ASSUME NEW a \in addrs PROVE Write(addrs, old)[Rank(a, addrs)] = a
  <2> DEFINE s == Rank(a, addrs)
             b == CHOOSE c \in addrs : Rank(c, addrs) = s
  <2>1. s \in Slot  BY RankIsSlot
  <2>2. b \in addrs /\ Rank(b, addrs) = s  BY <1>1, <2>1
  <2>3. Write(addrs, old)[s] = b  BY <2>1 DEF Write
  <2>4. b = a  BY <2>2, RankIsOwn
  <2> QED  BY <2>3, <2>4
<1> QED  BY <1>2, <1>3 DEF InPlace
-----------------------------------------------------------------------------
(* The types and the ids *)

Arms == [pc : {"idle", "f0", "id", "f1", "sync", "caught", "frame", "eval", "grow",
               "publish", "addrs", "count", "commit"},
         goal : {"fill", "frame", "eval", "flush", "prune"},
         f0 : Frame, id : Id, open : BOOLEAN, then : {"sync", "caught", "frame", "publish"}]

\* At rest Main's record is of its set.
LEMMA RestType ==
  ASSUME Rest
  PROVE  arm' = Resting /\ Resting \in Arms /\ Resting.id = 0 /\ Resting.pc = "idle"
         /\ Resting.goal = "fill" /\ ~Resting.open
<1>1. 0 \in Frame /\ 0 \in Id  BY AddrAssumption DEF Frame, Id
<1> QED  BY <1>1 DEF Rest, Resting, Arms

\* A sample starts with nothing of the one before.
LEMMA SampleType ==
  ASSUME NEW goal \in {"fill", "frame", "eval", "flush", "prune"},
         NEW then \in {"sync", "caught", "frame", "publish"}, NEW open \in BOOLEAN,
         Sample(goal, then, open)
  PROVE  /\ arm' \in Arms /\ arm'.pc = "f0" /\ arm'.goal = goal /\ arm'.then = then
         /\ arm'.open = open /\ arm'.id = 0
<1>1. 0 \in Frame /\ 0 \in Id  BY AddrAssumption DEF Frame, Id
<1> QED  BY <1>1 DEF Sample, Resting, Arms

\* A step to another place keeps the rest.
LEMMA GotoType ==
  ASSUME arm \in Arms,
         NEW pc \in {"idle", "f0", "id", "f1", "sync", "caught", "frame", "eval", "grow",
                     "publish", "addrs", "count", "commit"},
         Goto(pc)
  PROVE  /\ arm' \in Arms /\ arm'.pc = pc /\ arm'.goal = arm.goal /\ arm'.then = arm.then
         /\ arm'.open = arm.open /\ arm'.id = arm.id /\ arm'.f0 = arm.f0
  BY DEF Goto, Arms

\* The snapshot that a sample leads to has a type, and an id of its own.
LEMMA SyncedType ==
  ASSUME TInv
  PROVE  Synced \in [addrs : SUBSET Addr, id : Id] /\ Synced.id <= req
  BY DEF TInv, TypeOK, Synced

\* Main starts with nothing, published or known.
LEMMA InitTInv == Init => TInv
<1> SUFFICES ASSUME Init PROVE TInv  OBVIOUS
<1>1. 0 \in Frame /\ 0 \in Id /\ Cardinality(Addr) \in Nat
  BY AddrAssumption, ListIsFinite DEF Frame, Id
<1>2. Blank \in [Slot -> Addr \cup {0}]  BY DEF Blank
<1>3. Resting \in Arms /\ Resting.id = 0  BY <1>1 DEF Resting, Arms
<1>4. /\ list \in [all : SUBSET Addr, dyn : SUBSET Addr] /\ list.dyn \subseteq list.all
      /\ act \in [addrs : SUBSET Addr, id : Id] /\ act.id <= req
      /\ seen \in [ok : BOOLEAN, id : Id, frame : Frame] /\ seen.id <= req
  BY <1>1 DEF Init, NoList, NoSnapshot, NoSample
<1>5. /\ con \in [ready : BOOLEAN, last : Frame, pending : BOOLEAN]
      /\ ddr \in [addrs : [Slot -> Addr \cup {0}], count : 0 .. Cardinality(Addr), id : Id]
      /\ resp \in [id : Id, frame : Frame]
      /\ fpga \in [scan : BOOLEAN, id : Id, count : 0 .. Cardinality(Addr),
                   at : 1 .. Cardinality(Addr) + 1, latched : Frame, frame : Frame]
  BY <1>1, <1>2 DEF Init
<1>6. Known /\ Course  BY <1>3 DEF Init, Known, Course, Resting, Sampling
<1> QED  BY <1>1, <1>2, <1>3, <1>4, <1>5, <1>6 DEF Init, TInv, TypeOK, Arms

\* A revision has an id that is new and below the bound.
LEMMA PublishTypes ==
  ASSUME TInv, NEW l \in [all : SUBSET Addr, dyn : SUBSET Addr], l.dyn \subseteq l.all, Publish(l)
  PROVE  /\ list' = l /\ pub' = l.all /\ pub' \in SUBSET Addr
         /\ req' \in Id /\ req' = req + 1 /\ req < req'
         /\ arm' \in Arms /\ arm'.pc = "addrs" /\ arm'.goal = arm.goal /\ arm'.then = arm.then
         /\ arm'.open = arm.open /\ arm'.id = arm.id
         /\ act.id <= req' /\ seen.id <= req'
         /\ ddr.id <= req' /\ resp.id <= req' /\ fpga.id <= req' /\ arm'.id <= req'
<1>1. req \in Nat /\ req < MaxId /\ MaxId \in Nat /\ req' = req + 1
  BY AddrAssumption DEF TInv, TypeOK, Publish, Id
<1>2. arm \in Arms /\ Goto("addrs")  BY DEF TInv, TypeOK, Publish, Arms
<1>3. /\ arm' \in Arms /\ arm'.pc = "addrs" /\ arm'.goal = arm.goal /\ arm'.then = arm.then
      /\ arm'.open = arm.open /\ arm'.id = arm.id
  BY <1>2, GotoType
<1>4. /\ act.id \in Id /\ seen.id \in Id /\ ddr.id \in Id /\ resp.id \in Id /\ fpga.id \in Id
      /\ arm.id \in Id
  BY <1>2 DEF TInv, TypeOK, Arms
<1>5. act.id <= req /\ seen.id <= req /\ Known  BY DEF TInv, TypeOK
<1>6. req' \in Id /\ req < req'  BY <1>1 DEF Id
<1> QED  BY <1>1, <1>2, <1>3, <1>4, <1>5, <1>6 DEF Known, Id, Publish
\* A sample of the header keeps the types, and goes on where it was to go on.
LEMMA SampleTInv ==
  ASSUME TInv, LoadFrame \/ LoadId \/ LoadAgain, UNCHANGED <<ddr, resp, vals, fpga>>
  PROVE  TInv'
<1>1. arm \in Arms /\ arm.id <= req /\ Course /\ resp.id <= req
  BY DEF TInv, TypeOK, Known, Arms
<1>2. resp.frame \in Frame /\ resp.id \in Id  BY DEF TInv, TypeOK
<1>3. arm.then \in {"sync", "caught", "frame", "publish"} /\ arm.f0 \in Frame /\ arm.id \in Id
  BY <1>1 DEF Arms
<1>4. UNCHANGED <<list, pub, act, req, con>>  BY DEF LoadFrame, LoadId, LoadAgain
<1>5. /\ arm.pc \in {"f0", "id", "f1"}
      /\ arm' \in Arms /\ arm'.goal = arm.goal /\ arm'.then = arm.then
      /\ arm'.id <= req /\ (arm'.pc \in {"id", "f1"} \/ arm'.pc = arm.then)
  <2>1. CASE LoadFrame
    <3> DEFINE pc == IF seen.ok /\ resp.frame = seen.frame THEN arm.then ELSE "id"
    <3>1. arm' = [arm EXCEPT !.f0 = resp.frame, !.pc = pc] /\ arm.pc = "f0"
      BY <2>1 DEF LoadFrame
    <3>2. pc \in {"sync", "caught", "frame", "publish", "id"} /\ (pc = "id" \/ pc = arm.then)
      BY <1>3
    <3> HIDE DEF pc
    <3> QED  BY <1>1, <1>2, <3>1, <3>2 DEF Arms
  <2>2. CASE LoadId  BY <1>1, <1>2, <2>2 DEF LoadId, Arms
  <2>3. CASE LoadAgain
    <3>1. arm.pc = "f1"  BY <2>3 DEF LoadAgain
    <3>2. CASE Goto(arm.then)  BY <1>1, <1>3, <3>1, <3>2, GotoType
    <3>3. CASE arm' = [arm EXCEPT !.f0 = resp.frame, !.pc = "id"]
      BY <1>1, <1>2, <3>1, <3>3 DEF Arms
    <3> QED  BY <2>3, <3>2, <3>3 DEF LoadAgain, Goto
  <2> QED  BY <2>1, <2>2, <2>3
<1>6. seen' \in [ok : BOOLEAN, id : Id, frame : Frame] /\ seen'.id <= req
  <2>1. seen \in [ok : BOOLEAN, id : Id, frame : Frame] /\ seen.id <= req
    BY DEF TInv, TypeOK
  <2>2. seen' = seen \/ seen' = [ok |-> TRUE, id |-> arm.id, frame |-> arm.f0]
    BY DEF LoadFrame, LoadId, LoadAgain
  <2>3. CASE seen' = seen  BY <2>1, <2>3
  <2>4. CASE seen' = [ok |-> TRUE, id |-> arm.id, frame |-> arm.f0]
    BY <1>1, <1>3, <2>4
  <2> QED  BY <2>2, <2>3, <2>4
<1>7. Course'  BY <1>1, <1>3, <1>4, <1>5 DEF Course, Sampling
<1> QED  BY <1>4, <1>5, <1>6, <1>7 DEF TInv, TypeOK, Known, Arms

\* A poll's steps of its own keep the types.
LEMMA PollTInv ==
  ASSUME TInv, Poll, UNCHANGED <<ddr, resp, vals, fpga>>
  PROVE  TInv'
<1>1. /\ arm \in Arms /\ arm.id \in Id /\ arm.id <= req /\ Course /\ Known
      /\ arm.goal \in {"fill", "frame", "eval", "flush", "prune"} /\ arm.open \in BOOLEAN
  BY DEF TInv, TypeOK, Known, Arms
<1>2. con \in [ready : BOOLEAN, last : Frame, pending : BOOLEAN] /\ 0 \in Frame /\ 0 \in Id
  BY AddrAssumption DEF TInv, TypeOK, Frame, Id
<1>3. req \in Id /\ 0 <= req  BY DEF TInv, TypeOK, Id
<1>4. CASE LoadFrame \/ LoadId \/ LoadAgain  BY <1>4, SampleTInv
<1>5. CASE \E addrs \in (SUBSET Addr) \ {{}} : Bootstrap(addrs)
  <2>1. PICK addrs \in SUBSET Addr : Bootstrap(addrs)  BY <1>5
  <2> DEFINE l == [all |-> addrs, dyn |-> {}]
  <2>2. Publish(l) /\ UNCHANGED <<act, seen, con>> /\ arm.pc = "idle"  BY <2>1 DEF Bootstrap
  <2>3. l \in [all : SUBSET Addr, dyn : SUBSET Addr] /\ l.dyn \subseteq l.all  OBVIOUS
  <2> HIDE DEF l
  <2>4. Course'  BY <1>1, <2>2, <2>3, PublishTypes DEF Course, Sampling
  <2> QED  BY <2>2, <2>3, <2>4, PublishTypes DEF TInv, TypeOK, Known, Arms
<1>6. CASE PollStart
  <2>1. \/ con.ready /\ Sample("frame", "frame", FALSE)
        \/ Sample("fill", "sync", FALSE)
    BY <1>6 DEF PollStart
  <2>2. /\ arm' \in Arms /\ arm'.id = 0 /\ arm'.pc = "f0"
        /\ \/ con.ready /\ arm'.goal = "frame" /\ arm'.then = "frame"
           \/ arm'.goal = "fill" /\ arm'.then = "sync"
    BY <2>1, SampleType
  <2>3. UNCHANGED <<list, pub, act, req, seen, con>>  BY <1>6 DEF PollStart
  <2>4. Course'  BY <2>2, <2>3 DEF Course, Sampling
  <2> QED  BY <1>3, <2>2, <2>3, <2>4 DEF TInv, TypeOK, Known, Arms
<1>7. CASE Grow \/ Deferred
  <2>1. UNCHANGED <<list, pub, act, req, seen, con>>  BY <1>7 DEF Grow, Deferred
  <2>2. \/ Rest
        \/ arm.pc = "grow" /\ \E goal \in {"flush", "prune"} : Sample(goal, "publish", arm.open)
    BY <1>7 DEF Grow, Deferred
  <2>3. CASE Rest
    <3>1. Course'  BY <2>3, RestType DEF Course, Sampling
    <3> QED  BY <1>3, <2>1, <2>3, <3>1, RestType DEF TInv, TypeOK, Known, Arms
  <2>4. CASE arm.pc = "grow" /\ \E goal \in {"flush", "prune"} : Sample(goal, "publish", arm.open)
    <3>1. PICK goal \in {"flush", "prune"} : Sample(goal, "publish", arm.open)  BY <2>4
    <3>2. /\ arm' \in Arms /\ arm'.pc = "f0" /\ arm'.goal = goal /\ arm'.then = "publish"
          /\ arm'.id = 0
      BY <1>1, <3>1, SampleType
    <3>3. con.ready  BY <1>1, <2>4 DEF Course
    <3>4. Course'  BY <2>1, <3>2, <3>3 DEF Course, Sampling
    <3> QED  BY <1>3, <2>1, <3>2, <3>4 DEF TInv, TypeOK, Known, Arms
  <2> QED  BY <2>2, <2>3, <2>4
<1>8. CASE \E open \in BOOLEAN : NewFrame(open)
  <2>1. PICK open \in BOOLEAN : NewFrame(open)  BY <1>8
  <2> DEFINE frame == IF seen.ok THEN seen.frame ELSE 0
  <2>2. frame \in Frame  BY <1>2 DEF TInv, TypeOK
  <2>3. con.ready  BY <1>1, <2>1 DEF NewFrame, Course
  <2>4. CASE con' = [ready |-> FALSE, last |-> frame, pending |-> FALSE] /\ Cleared /\ Rest
    <3>1. /\ list' \in [all : SUBSET Addr, dyn : SUBSET Addr] /\ list'.dyn \subseteq list'.all
          /\ pub' \in SUBSET Addr /\ req' = req
          /\ act' \in [addrs : SUBSET Addr, id : Id] /\ act'.id <= req
          /\ seen' \in [ok : BOOLEAN, id : Id, frame : Frame] /\ seen'.id <= req
      BY <1>2, <1>3, <2>4 DEF Cleared, NoList, NoSnapshot, NoSample
    <3>2. con' \in [ready : BOOLEAN, last : Frame, pending : BOOLEAN]  BY <2>2, <2>4
    <3>3. Course'  BY <2>4, RestType DEF Course, Sampling
    <3> QED  BY <1>1, <1>3, <2>4, <3>1, <3>2, <3>3, RestType DEF TInv, TypeOK, Known, Arms
  <2>5. CASE /\ con' = [con EXCEPT !.last = frame] /\ act' = Synced
             /\ Sample("eval", "sync", open) /\ UNCHANGED <<list, pub, req, seen>>
    <3>1. con' \in [ready : BOOLEAN, last : Frame, pending : BOOLEAN] /\ con'.ready
      BY <1>2, <2>2, <2>3, <2>5
    <3>2. /\ arm' \in Arms /\ arm'.pc = "f0" /\ arm'.goal = "eval" /\ arm'.then = "sync"
          /\ arm'.id = 0
      BY <2>5, SampleType
    <3>3. Course'  BY <3>1, <3>2 DEF Course, Sampling
    <3> QED  BY <1>1, <1>3, <2>5, <3>1, <3>2, <3>3, SyncedType DEF TInv, TypeOK, Known, Arms
  <2>6. CASE act' = Synced /\ Rest /\ UNCHANGED <<list, pub, req, seen, con>>
    <3>1. Course'  BY <2>6, RestType DEF Course, Sampling
    <3> QED  BY <1>1, <1>3, <2>6, <3>1, RestType, SyncedType DEF TInv, TypeOK, Known, Arms
  <2> QED  BY <2>1, <2>4, <2>5, <2>6 DEF NewFrame
<1>9. CASE IsReadySync
  <2>1. /\ act' = Synced /\ UNCHANGED <<list, pub, req, seen, con>>
        /\ Sample(arm.goal, "caught", arm.open) /\ arm.pc = "sync"
    BY <1>9 DEF IsReadySync
  <2>2. /\ arm' \in Arms /\ arm'.pc = "f0" /\ arm'.goal = arm.goal /\ arm'.then = "caught"
        /\ arm'.id = 0
    BY <1>1, <2>1, SampleType
  <2>3. Course'  BY <1>1, <2>1, <2>2 DEF Course, Sampling
  <2> QED  BY <1>1, <1>3, <2>1, <2>2, <2>3, SyncedType DEF TInv, TypeOK, Known, Arms
<1>10. CASE IsReady
  <2>1. UNCHANGED <<list, pub, act, req, seen>>  BY <1>10 DEF IsReady
  <2>2. CASE Rest /\ con' = IF CaughtUp THEN [con EXCEPT !.ready = TRUE, !.last = 0] ELSE con
    <3>1. con' \in [ready : BOOLEAN, last : Frame, pending : BOOLEAN]  BY <1>2, <2>2
    <3>2. Course'  BY <2>2, RestType DEF Course, Sampling
    <3> QED  BY <1>1, <1>3, <2>1, <2>2, <3>1, <3>2, RestType DEF TInv, TypeOK, Known, Arms
  <2>3. CASE arm.goal = "eval" /\ Goto(IF CaughtUp THEN "eval" ELSE "grow") /\ UNCHANGED con
    <3> DEFINE pc == IF CaughtUp THEN "eval" ELSE "grow"
    <3>1. pc \in {"eval", "grow"} /\ Goto(pc)  BY <2>3
    <3> HIDE DEF pc
    <3>2. arm' \in Arms /\ arm'.pc = pc /\ arm'.goal = "eval" /\ arm'.id = arm.id
      BY <1>1, <2>3, <3>1, GotoType
    <3>3. Course'  BY <1>1, <2>3, <3>1, <3>2 DEF Course, Sampling
    <3> QED  BY <1>1, <2>1, <2>3, <3>2, <3>3 DEF TInv, TypeOK, Known, Arms
  <2> QED  BY <1>10, <2>2, <2>3 DEF IsReady
<1>11. CASE \E reads \in SUBSET Addr : Evaluate(reads)
  <2>1. PICK reads \in SUBSET Addr : Evaluate(reads)  BY <1>11
  <2> DEFINE new == (reads \ act.addrs) \ list.all
  <2>2. /\ list' = [all |-> list.all \cup new, dyn |-> list.dyn \cup new]
        /\ con' = [con EXCEPT !.pending = con.pending \/ new # {}]
        /\ Goto("grow") /\ UNCHANGED <<pub, act, req, seen>> /\ arm.pc = "eval"
    BY <2>1 DEF Evaluate
  <2>3. new \in SUBSET Addr  OBVIOUS
  <2> HIDE DEF new
  <2>4. list' \in [all : SUBSET Addr, dyn : SUBSET Addr] /\ list'.dyn \subseteq list'.all
    BY <2>2, <2>3 DEF TInv, TypeOK
  <2>5. con' \in [ready : BOOLEAN, last : Frame, pending : BOOLEAN] /\ con'.ready = con.ready
    <3> DEFINE p == con.pending \/ new # {}
    <3>1. p \in BOOLEAN /\ con' = [con EXCEPT !.pending = p]  BY <2>2
    <3> HIDE DEF p
    <3> QED  BY <1>2, <3>1
  <2>6. arm' \in Arms /\ arm'.pc = "grow" /\ arm'.goal = arm.goal /\ arm'.id = arm.id
    BY <1>1, <2>2, GotoType
  <2>7. Course'  BY <1>1, <2>2, <2>5, <2>6 DEF Course, Sampling
  <2> QED  BY <1>1, <1>3, <2>2, <2>4, <2>5, <2>6, <2>7 DEF TInv, TypeOK, Known, Arms
<1>12. CASE Revise
  <2> DEFINE l == IF arm.goal = "flush" THEN list ELSE [all |-> list.all \ list.dyn, dyn |-> {}]
  <2>1. /\ Publish(l) /\ con' = [con EXCEPT !.pending = FALSE] /\ UNCHANGED <<act, seen>>
        /\ arm.pc = "publish"
    BY <1>12 DEF Revise
  <2>2. l \in [all : SUBSET Addr, dyn : SUBSET Addr] /\ l.dyn \subseteq l.all
    BY DEF TInv, TypeOK
  <2> HIDE DEF l
  <2>3. con' \in [ready : BOOLEAN, last : Frame, pending : BOOLEAN] /\ con'.ready = con.ready
    BY <1>2, <2>1
  <2>4. Course'  BY <1>1, <2>1, <2>2, <2>3, PublishTypes DEF Course, Sampling
  <2> QED  BY <2>1, <2>2, <2>3, <2>4, PublishTypes DEF TInv, TypeOK, Known, Arms
<1> QED  BY <1>4, <1>5, <1>6, <1>7, <1>8, <1>9, <1>10, <1>11, <1>12 DEF Poll

\* The writes of a revision and the reset of the core keep the types.
LEMMA WriteTInv ==
  ASSUME TInv, WriteAddrs \/ WriteCount \/ Commit \/ CoreReset
  PROVE  TInv'
<1>1. arm \in Arms /\ req \in Id /\ arm.id <= req /\ Course  BY DEF TInv, TypeOK, Known, Arms
<1>2. 0 \in Frame /\ 0 \in Id /\ 0 <= req /\ Cardinality(Addr) \in Nat
  BY <1>1, AddrAssumption, ListIsFinite DEF Frame, Id
<1>3. CASE WriteAddrs
  <2>1. Write(pub, ddr.addrs) \in [Slot -> Addr \cup {0}]  BY WritePlaces DEF TInv, TypeOK
  <2>2. ddr' \in [addrs : [Slot -> Addr \cup {0}], count : 0 .. Cardinality(Addr), id : Id]
        /\ ddr'.id = ddr.id
    BY <1>3, <2>1 DEF WriteAddrs, TInv, TypeOK
  <2>3. arm' \in Arms /\ arm'.id = arm.id /\ arm'.pc = "count" /\ arm'.goal = arm.goal
    BY <1>1, <1>3, GotoType DEF WriteAddrs
  <2>4. UNCHANGED <<list, pub, act, req, seen, con, resp, vals, fpga>>  BY <1>3 DEF WriteAddrs
  <2>5. Course'  BY <1>1, <2>3, <2>4 DEF Course, Sampling
  <2> QED  BY <2>2, <2>3, <2>4, <2>5 DEF TInv, TypeOK, Known, Arms
<1>4. CASE WriteCount
  <2>1. Cardinality(pub) \in 0 .. Cardinality(Addr)  BY ListIsFinite DEF TInv, TypeOK
  <2>2. ddr' \in [addrs : [Slot -> Addr \cup {0}], count : 0 .. Cardinality(Addr), id : Id]
        /\ ddr'.id = ddr.id
    BY <1>4, <2>1 DEF WriteCount, TInv, TypeOK
  <2>3. arm' \in Arms /\ arm'.id = arm.id /\ arm'.pc = "commit" /\ arm'.goal = arm.goal
    BY <1>1, <1>4, GotoType DEF WriteCount
  <2>4. UNCHANGED <<list, pub, act, req, seen, con, resp, vals, fpga>>  BY <1>4 DEF WriteCount
  <2>5. Course'  BY <1>1, <2>3, <2>4 DEF Course, Sampling
  <2> QED  BY <2>2, <2>3, <2>4, <2>5 DEF TInv, TypeOK, Known, Arms
<1>5. CASE Commit
  <2>1. ddr' \in [addrs : [Slot -> Addr \cup {0}], count : 0 .. Cardinality(Addr), id : Id]
        /\ ddr'.id = req
    BY <1>1, <1>5 DEF Commit, TInv, TypeOK
  <2>2. arm' = Resting /\ arm' \in Arms /\ arm'.id = 0  BY <1>5, RestType DEF Commit
  <2>3. UNCHANGED <<list, pub, act, req, seen, con, resp, vals, fpga>>  BY <1>5 DEF Commit
  <2>4. Course'  BY <1>5, RestType DEF Commit, Course, Sampling
  <2> QED  BY <1>1, <1>2, <2>1, <2>2, <2>3, <2>4 DEF TInv, TypeOK, Known, Arms, Id
<1>6. CASE CoreReset
  <2> USE <1>6 DEF CoreReset
  <2>1. Blank \in [Slot -> Addr \cup {0}]  BY DEF Blank
  <2>2. /\ list' \in [all : SUBSET Addr, dyn : SUBSET Addr] /\ list'.dyn \subseteq list'.all
        /\ pub' \in SUBSET Addr /\ req' = req /\ arm' = arm
        /\ act' \in [addrs : SUBSET Addr, id : Id] /\ act'.id <= req
        /\ seen' \in [ok : BOOLEAN, id : Id, frame : Frame] /\ seen'.id <= req
    BY <1>2 DEF Cleared, NoList, NoSnapshot, NoSample
  <2>3. /\ con' \in [ready : BOOLEAN, last : Frame, pending : BOOLEAN]
        /\ ddr' \in [addrs : [Slot -> Addr \cup {0}], count : 0 .. Cardinality(Addr), id : Id]
        /\ resp' \in [id : Id, frame : Frame] /\ ddr'.id = 0 /\ resp'.id = 0
        /\ vals' \in [Slot -> Addr \cup {0}]
    BY <1>2, <2>1
  <2>4. /\ fpga' \in [scan : BOOLEAN, id : Id, count : 0 .. Cardinality(Addr),
                      at : 1 .. Cardinality(Addr) + 1, latched : Frame, frame : Frame]
        /\ fpga'.id = fpga.id
    BY <1>2 DEF TInv, TypeOK
  <2>5. Course'  BY <1>1, <2>2 DEF Course, Resting, Sampling
  <2> QED  BY <1>1, <1>2, <2>2, <2>3, <2>4, <2>5 DEF TInv, TypeOK, Known, Arms
<1> QED  BY <1>3, <1>4, <1>5, <1>6

\* The core keeps the types: it counts no further than the bound, and reads no
\* slot that there is not.
LEMMA CoreTInv ==
  ASSUME TInv, Core
  PROVE  TInv'
<1> DEFINE Scans == [scan : BOOLEAN, id : Id, count : 0 .. Cardinality(Addr),
                     at : 1 .. Cardinality(Addr) + 1, latched : Frame, frame : Frame]
<1>1. fpga \in Scans /\ req \in Id /\ fpga.id <= req /\ ddr.id <= req /\ resp.id <= req
      /\ ddr \in [addrs : [Slot -> Addr \cup {0}], count : 0 .. Cardinality(Addr), id : Id]
      /\ resp \in [id : Id, frame : Frame] /\ vals \in [Slot -> Addr \cup {0}]
  BY DEF TInv, TypeOK, Known
<1>2. 0 \in Frame /\ 0 \in Id /\ 0 <= req /\ Cardinality(Addr) \in Nat /\ MaxFrame \in Nat
  BY <1>1, AddrAssumption, ListIsFinite DEF Frame, Id
<1>3. UNCHANGED <<main, ddr>>  BY DEF Core
<1>4. /\ fpga' \in Scans /\ fpga'.id <= req
      /\ resp' \in [id : Id, frame : Frame] /\ resp'.id <= req
      /\ vals' \in [Slot -> Addr \cup {0}]
  <2>1. CASE VBlank
    <3>1. fpga.frame + 1 \in Frame  BY <1>1, <1>2, <2>1 DEF VBlank, Frame
    <3>2. 1 \in 1 .. Cardinality(Addr) + 1  BY <1>2
    <3> QED  BY <1>1, <2>1, <3>1, <3>2 DEF VBlank
  <2>2. CASE ReadPair
    <3>1. fpga.at \in Slot /\ fpga.at + 1 \in 1 .. Cardinality(Addr) + 1
      BY <1>1, <1>2, <2>2 DEF ReadPair, Slot
    <3>2. ddr.addrs[fpga.at] \in Addr \cup {0}  BY <1>1, <3>1
    <3> QED  BY <1>1, <2>2, <3>1, <3>2 DEF ReadPair
  <2>3. CASE Respond
    <3>1. 1 \in 1 .. Cardinality(Addr) + 1 /\ 0 \in 0 .. Cardinality(Addr)  BY <1>2
    <3> QED  BY <1>1, <1>2, <2>3, <3>1 DEF Respond
  <2>4. CASE Restart
    <3>1. 1 \in 1 .. Cardinality(Addr) + 1 /\ 0 \in 0 .. Cardinality(Addr)  BY <1>2
    <3> QED  BY <1>1, <1>2, <2>4, <3>1 DEF Restart
  <2> QED  BY <2>1, <2>2, <2>3, <2>4 DEF Core
<1>5. Course'  BY <1>3 DEF main, TInv, Course, Sampling
<1> QED  BY <1>1, <1>3, <1>4, <1>5 DEF main, TInv, TypeOK, Known

\* The types and the order of the ids are kept by every step.
LEMMA NextTInv == TInv /\ [Next]_vars => TInv'
<1> SUFFICES ASSUME TInv, [Next]_vars PROVE TInv'  OBVIOUS
<1>1. CASE Poll /\ UNCHANGED <<ddr, resp, vals, fpga>>  BY <1>1, PollTInv
<1>2. CASE WriteAddrs \/ WriteCount \/ Commit \/ CoreReset  BY <1>2, WriteTInv
<1>3. CASE Core  BY <1>3, CoreTInv
<1>4. CASE UNCHANGED vars  BY <1>4 DEF vars, main, TInv, TypeOK, Known, Course, Sampling
<1> QED  BY <1>1, <1>2, <1>3, <1>4 DEF Next
-----------------------------------------------------------------------------
(* Nothing that was added is forgotten *)

\* An added address is published or known to be pending, after any step.
LEMMA NextInserts == TInv /\ InsertsArePublished /\ [Next]_vars => InsertsArePublished'
<1> SUFFICES ASSUME TInv, InsertsArePublished, [Next]_vars PROVE InsertsArePublished'
  OBVIOUS
<1>1. con \in [ready : BOOLEAN, last : Frame, pending : BOOLEAN] /\ list.dyn \subseteq list.all
  BY DEF TInv, TypeOK
<1>2. CASE \E addrs \in (SUBSET Addr) \ {{}} : Bootstrap(addrs)
  BY <1>2 DEF Bootstrap, Publish, InsertsArePublished
<1>3. CASE Revise  BY <1>3 DEF Revise, Publish, InsertsArePublished
<1>4. CASE \E open \in BOOLEAN : NewFrame(open)
  BY <1>1, <1>4 DEF NewFrame, Cleared, NoList, InsertsArePublished
<1>5. CASE IsReady  BY <1>1, <1>5 DEF IsReady, InsertsArePublished
<1>6. CASE \E reads \in SUBSET Addr : Evaluate(reads)
  <2>1. PICK reads \in SUBSET Addr : Evaluate(reads)  BY <1>6
  <2> DEFINE new == (reads \ act.addrs) \ list.all
             p == con.pending \/ new # {}
  <2>2. list'.all = list.all \cup new /\ con' = [con EXCEPT !.pending = p] /\ pub' = pub
    BY <2>1 DEF Evaluate
  <2>3. con'.pending = p  BY <1>1, <2>2
  <2> QED  BY <2>2, <2>3 DEF InsertsArePublished
<1>7. CASE CoreReset  BY <1>7 DEF CoreReset, Cleared, NoList, InsertsArePublished
<1>8. CASE UNCHANGED <<list, pub, con>>  BY <1>8 DEF InsertsArePublished
<1> QED
  BY <1>2, <1>3, <1>4, <1>5, <1>6, <1>7, <1>8
  DEF Next, Poll, Core, main, vars, LoadFrame, LoadId, LoadAgain, PollStart, IsReadySync,
      Grow, Deferred, WriteAddrs, WriteCount, Commit

-----------------------------------------------------------------------------
(* The argument about ids: Main's steps *)

\* What the arithmetic of the ids and frames needs.
LEMMA Numbers ==
  ASSUME TInv
  PROVE  /\ req \in Nat /\ act.id \in Nat /\ seen.id \in Nat /\ ddr.id \in Nat /\ resp.id \in Nat
         /\ fpga.id \in Nat /\ arm.id \in Nat
         /\ act.id <= req /\ seen.id <= req /\ ddr.id <= req /\ resp.id <= req /\ fpga.id <= req
         /\ arm.id <= req
         /\ seen.frame \in Nat /\ resp.frame \in Nat /\ con.last \in Nat /\ arm.f0 \in Nat
         /\ fpga.latched \in Nat /\ fpga.frame \in Nat
         /\ con.ready \in BOOLEAN /\ arm.open \in BOOLEAN /\ seen.ok \in BOOLEAN
         /\ pub \in SUBSET Addr
  BY AddrAssumption DEF TInv, TypeOK, Known, Id, Frame

\* A step of Main that neither publishes nor clears leaves what the shared memory
\* says of the published list.
LEMMA SharedKept ==
  ASSUME TInv, AInv, ~Publishing, ~Publishing', UNCHANGED <<pub, req, ddr, resp, vals, fpga>>
  PROVE  Unsent' /\ Written' /\ Scanned'
<1>1. arm.pc \notin {"addrs", "count"} /\ arm'.pc \notin {"addrs", "count"}  BY DEF Publishing
<1>2. Written'  BY <1>1 DEF AInv, Written, InPlace, End, Rank
<1>3. Scanned'  BY DEF AInv, Scanned, InPlace, Rank
<1> QED  BY <1>2, <1>3 DEF Unsent

\* And when it takes no sample, what is known of the request.
LEMMA KnowledgeKept ==
  ASSUME TInv, AInv, arm'.pc \notin {"id", "f1"}, UNCHANGED <<pub, req, seen, ddr, resp, vals, fpga>>
  PROVE  /\ Confirmed'
         /\ con'.ready = con.ready /\ con'.last = con.last => Stale'
  BY DEF AInv, Confirmed, Stale, InPlace, End, Rank

\* The snapshot after a sample is the published list when its id is the request,
\* and that it is when the sample has the request.
LEMMA SyncedIs ==
  ASSUME TInv, Snapshot
  PROVE  /\ Synced.id = req => Synced.addrs = pub
         /\ act.id = req \/ CaughtUp => Synced.id = req
  BY DEF TInv, TypeOK, Snapshot, Synced, CaughtUp

\* A sample tells the truth about the request: an id that is the request was in
\* the header, and any other comes with a frame Main has had.
LEMMA SampleStep ==
  ASSUME TInv, AInv, LoadFrame \/ LoadId \/ LoadAgain, UNCHANGED <<ddr, resp, vals, fpga>>
  PROVE  AInv'
<1>1. UNCHANGED <<list, pub, act, req, con>>  BY DEF LoadFrame, LoadId, LoadAgain
<1>2. arm \in Arms /\ arm.then \in {"sync", "caught", "frame", "publish"}
  BY DEF TInv, TypeOK, Arms
<1>3. CASE LoadFrame
  <2> DEFINE pc == IF seen.ok /\ resp.frame = seen.frame THEN arm.then ELSE "id"
  <2>1. arm' = [arm EXCEPT !.f0 = resp.frame, !.pc = pc] /\ arm.pc = "f0" /\ seen' = seen
    BY <1>3 DEF LoadFrame
  <2>2. pc \in {"sync", "caught", "frame", "publish", "id"}  BY <1>2
  <2> HIDE DEF pc
  <2>3. arm'.pc = pc /\ arm'.f0 = resp.frame /\ arm'.goal = arm.goal /\ arm'.open = arm.open
    BY <1>2, <2>1 DEF Arms
  <2>4. Filled'  BY <1>1, <2>1, <2>2, <2>3 DEF AInv, Filled, Publishing
  <2>5. Unsent' /\ Written' /\ Scanned'
    BY <1>1, <2>1, <2>2, <2>3, SharedKept DEF Publishing
  <2>6. Confirmed'  BY <1>1, <2>1, <2>2, <2>3 DEF AInv, Confirmed, InPlace, End, Rank
  <2>7. Stale'  BY <1>1, <2>1, <2>2, <2>3 DEF AInv, Stale
  <2>8. Window'  BY <1>1, <2>1, <2>2, <2>3 DEF AInv, Window, Publishing
  <2>9. Snapshot'  BY <1>1, <2>1, <2>2, <2>3 DEF AInv, Snapshot
  <2> QED  BY <2>4, <2>5, <2>6, <2>7, <2>8, <2>9 DEF AInv
<1>4. CASE LoadId
  <2>1. arm' = [arm EXCEPT !.id = resp.id, !.pc = "f1"] /\ arm.pc = "id" /\ seen' = seen
    BY <1>4 DEF LoadId
  <2>2. /\ arm'.pc = "f1" /\ arm'.id = resp.id /\ arm'.f0 = arm.f0 /\ arm'.goal = arm.goal
        /\ arm'.open = arm.open
    BY <1>2, <2>1 DEF Arms
  <2>3. Filled'  BY <1>1, <2>1, <2>2 DEF AInv, Filled, Publishing
  <2>4. Unsent' /\ Written' /\ Scanned'  BY <1>1, <2>1, <2>2, SharedKept DEF Publishing
  <2>5. Confirmed'  BY <1>1, <2>1, <2>2 DEF AInv, Confirmed, InPlace, End, Rank
  <2>6. Stale'  BY <1>1, <2>1, <2>2 DEF AInv, Stale
  <2>7. Window'  BY <1>1, <2>1, <2>2 DEF AInv, Window, Publishing
  <2>8. Snapshot'  BY <1>1, <2>1, <2>2 DEF AInv, Snapshot
  <2> QED  BY <2>3, <2>4, <2>5, <2>6, <2>7, <2>8 DEF AInv
<1>5. CASE LoadAgain
  <2>1. arm.pc = "f1" /\ arm'.goal = arm.goal /\ arm'.open = arm.open
        /\ arm'.pc \in {"sync", "caught", "frame", "publish", "id"}
    BY <1>2, <1>5 DEF LoadAgain, Goto, Arms
  <2>2. \/ /\ seen' = [ok |-> TRUE, id |-> arm.id, frame |-> arm.f0] /\ resp.frame = arm.f0
           /\ arm'.pc # "id"
        \/ seen' = seen /\ (arm'.pc = "id" => arm'.f0 = resp.frame)
    BY <1>2, <1>5 DEF LoadAgain, Goto, Arms
  <2>3. Filled'  BY <1>1, <2>1 DEF AInv, Filled, Publishing
  <2>4. Unsent' /\ Written' /\ Scanned'  BY <1>1, <2>1, SharedKept DEF Publishing
  <2>5. Confirmed'
    BY <1>1, <2>1, <2>2 DEF AInv, Confirmed, InPlace, End, Rank
  <2>6. Stale'  BY <1>1, <2>1, <2>2 DEF AInv, Stale
  <2>7. Window'  BY <1>1, <2>1, <2>2 DEF AInv, Window, Publishing
  <2>8. Snapshot'  BY <1>1, <2>1 DEF AInv, Snapshot
  <2> QED  BY <2>3, <2>4, <2>5, <2>6, <2>7, <2>8 DEF AInv
<1> QED  BY <1>3, <1>4, <1>5
\* A publish takes an id that is nowhere, which is all its revision needs.
LEMMA PublishIsUnsent ==
  ASSUME TInv, NEW l \in [all : SUBSET Addr, dyn : SUBSET Addr], l.dyn \subseteq l.all,
         Publish(l), UNCHANGED <<act, seen, ddr, resp, vals, fpga>>
  PROVE  Unsent' /\ Written' /\ Scanned' /\ Confirmed'
<1>1. /\ arm'.pc = "addrs" /\ arm'.id = arm.id /\ req' = req + 1  BY PublishTypes
<1>2. /\ ddr'.id < req' /\ resp'.id < req' /\ fpga'.id < req' /\ arm'.id < req'
      /\ seen'.id < req' /\ act'.id < req'
  BY <1>1, Numbers
<1>3. Unsent'  BY <1>2 DEF Unsent
<1>4. Written'  BY <1>1 DEF Written, Publishing
<1>5. req' \in Nat /\ fpga'.id \in Nat /\ resp'.id \in Nat /\ seen'.id \in Nat
  BY <1>1, Numbers
<1>6. Scanned' /\ Confirmed'  BY <1>1, <1>2, <1>5 DEF Scanned, Confirmed
<1> QED  BY <1>3, <1>4, <1>6

\* Phase 1 publishes under no evaluation and may do so at any time.
LEMMA BootstrapStep ==
  ASSUME TInv, AInv, NEW addrs \in (SUBSET Addr) \ {{}}, Bootstrap(addrs),
         UNCHANGED <<ddr, resp, vals, fpga>>
  PROVE  AInv'
<1> DEFINE l == [all |-> addrs, dyn |-> {}]
<1>1. /\ Publish(l) /\ UNCHANGED <<act, seen, con>> /\ arm.pc = "idle" /\ ~con.ready
  BY DEF Bootstrap
<1>2. /\ l \in [all : SUBSET Addr, dyn : SUBSET Addr] /\ l.dyn \subseteq l.all
      /\ l.all # {}
  <2>1. addrs \in SUBSET Addr /\ addrs # {}  BY Zenon
  <2> QED  BY <2>1
<1> HIDE DEF l
<1>3. /\ list' = l /\ pub' = l.all /\ arm'.pc = "addrs" /\ arm'.goal = arm.goal
      /\ arm'.open = arm.open /\ req' = req + 1
  BY <1>1, <1>2, PublishTypes
<1>4. arm.goal = "fill" /\ ~arm.open  BY <1>1 DEF TInv, Course, Resting
<1>5. Unsent' /\ Written' /\ Scanned' /\ Confirmed'  BY <1>1, <1>2, PublishIsUnsent
<1>6. Filled'  BY <1>1, <1>2, <1>3 DEF Filled, Publishing
<1>7. Stale' /\ Window'  BY <1>1, <1>3, <1>4 DEF Stale, Window
<1>8. Snapshot'
  <2>1. act'.id # req'  BY <1>1, <1>3, Numbers
  <2> QED  BY <1>3, <1>4, <2>1 DEF Snapshot
<1> QED  BY <1>5, <1>6, <1>7, <1>8 DEF AInv

\* A poll starts with a list, and not in the window of an earlier one.
LEMMA PollStartStep ==
  ASSUME TInv, AInv, PollStart, UNCHANGED <<ddr, resp, vals, fpga>>
  PROVE  AInv'
<1>1. UNCHANGED <<list, pub, act, req, seen, con>> /\ arm.pc = "idle"
      /\ (list.all # {} \/ con.ready)
  BY DEF PollStart
<1>2. Sample("frame", "frame", FALSE) \/ Sample("fill", "sync", FALSE)
  BY DEF PollStart
<1>3. arm'.pc = "f0" /\ arm'.goal \in {"frame", "fill"} /\ ~arm'.open
  BY <1>2, SampleType
<1>4. Unsent' /\ Written' /\ Scanned'  BY <1>1, <1>3, SharedKept DEF Publishing
<1>5. Confirmed' /\ Stale'  BY <1>1, <1>3, KnowledgeKept
<1>6. Filled'  BY <1>1, <1>3 DEF AInv, Filled
<1>7. Window'  BY <1>3 DEF Window, Publishing
<1>8. Snapshot'  BY <1>1, <1>3 DEF AInv, Snapshot
<1> QED  BY <1>4, <1>5, <1>6, <1>7, <1>8 DEF AInv

\* A poll that sees a new frame sees the request confirmed: the frame of any other
\* header is not new.  In the window this frame is the last the core has counted.
LEMMA NewFrameStep ==
  ASSUME TInv, AInv, NEW open \in BOOLEAN, NewFrame(open), UNCHANGED <<ddr, resp, vals, fpga>>
  PROVE  AInv'
<1> DEFINE frame == IF seen.ok THEN seen.frame ELSE 0
<1>1. arm.pc = "frame" /\ (open => InTime)  BY DEF NewFrame
<1>2. con.ready /\ list.all # {}  BY <1>1 DEF TInv, Course, AInv, Filled
<1>3. CASE con' = [ready |-> FALSE, last |-> frame, pending |-> FALSE] /\ Cleared /\ Rest
  <2>1. /\ list'.all = {} /\ pub' = {} /\ act'.id = 0 /\ act'.addrs = {} /\ ~con'.ready
        /\ arm'.pc = "idle" /\ arm'.goal = "fill" /\ ~arm'.open
    BY <1>3, RestType DEF Cleared, NoList, NoSnapshot
  <2>2. Filled' /\ Unsent' /\ Stale' /\ Window' /\ Snapshot'
    BY <2>1 DEF Filled, Unsent, Stale, Window, Snapshot, Publishing
  <2>3. Written' /\ Scanned' /\ Confirmed'  BY <2>1 DEF Written, Scanned, Confirmed
  <2> QED  BY <2>2, <2>3 DEF AInv
<1>4. CASE /\ frame > con.last /\ con' = [con EXCEPT !.last = frame] /\ act' = Synced
           /\ Sample("eval", "sync", open) /\ UNCHANGED <<list, pub, req, seen>>
  <2>1. con \in [ready : BOOLEAN, last : Frame, pending : BOOLEAN]  BY DEF TInv, TypeOK
  <2>2. seen.ok /\ frame = seen.frame /\ seen.frame > con.last  BY <1>4, Numbers
  <2>3. con'.ready /\ con'.last = seen.frame  BY <1>2, <1>4, <2>1, <2>2
  <2>4. seen.id = req  BY <1>2, <2>2, Numbers DEF AInv, Stale
  <2>5. /\ arm'.pc = "f0" /\ arm'.goal = "eval" /\ arm'.open = open
    BY <1>4, SampleType
  <2>6. Unsent' /\ Written' /\ Scanned'  BY <1>1, <1>4, <2>5, SharedKept DEF Publishing
  <2>7. Confirmed'  BY <1>4, <2>5, KnowledgeKept
  <2>8. Filled'  BY <1>2, <1>4, <2>5 DEF AInv, Filled
  <2>9. Stale'
    BY <1>2, <1>4, <2>2, <2>3, <2>4, <2>5, Numbers DEF AInv, Stale
  <2>10. Window'
    BY <1>1, <1>4, <2>2, <2>3, <2>5, Numbers DEF Window, InTime, Publishing
  <2>11. Snapshot'
    BY <1>4, <2>2, <2>4, <2>5, SyncedIs DEF AInv, Snapshot, CaughtUp
  <2> QED  BY <2>6, <2>7, <2>8, <2>9, <2>10, <2>11 DEF AInv
<1>5. CASE act' = Synced /\ Rest /\ UNCHANGED <<list, pub, req, seen, con>>
  <2>1. arm'.pc = "idle" /\ arm'.goal = "fill" /\ ~arm'.open  BY <1>5, RestType
  <2>2. Unsent' /\ Written' /\ Scanned'  BY <1>1, <1>5, <2>1, SharedKept DEF Publishing
  <2>3. Confirmed' /\ Stale'  BY <1>5, <2>1, KnowledgeKept
  <2>4. Filled'  BY <1>2, <1>5, <2>1 DEF AInv, Filled
  <2>5. Window'  BY <2>1 DEF Window, Publishing
  <2>6. Snapshot'  BY <1>5, <2>1, SyncedIs DEF AInv, Snapshot
  <2> QED  BY <2>2, <2>3, <2>4, <2>5, <2>6 DEF AInv
<1> QED  BY <1>3, <1>4, <1>5 DEF NewFrame

\* ra_snes_addrlist_is_ready: the first sample promotes, the second answers.
LEMMA IsReadyStep ==
  ASSUME TInv, AInv, IsReadySync \/ IsReady, UNCHANGED <<ddr, resp, vals, fpga>>
  PROVE  AInv'
<1>1. arm \in Arms /\ arm.goal \in {"fill", "frame", "eval", "flush", "prune"}
      /\ con \in [ready : BOOLEAN, last : Frame, pending : BOOLEAN]
  BY DEF TInv, TypeOK, Arms
<1>2. UNCHANGED <<list, pub, req, seen>> /\ arm.pc \in {"sync", "caught"}
  BY DEF IsReadySync, IsReady
<1>3. list.all # {} /\ pub # {}  BY <1>2 DEF AInv, Filled
<1>4. CASE IsReadySync
  <2>1. act' = Synced /\ UNCHANGED con /\ Sample(arm.goal, "caught", arm.open)
    BY <1>4 DEF IsReadySync
  <2>2. arm'.pc = "f0" /\ arm'.goal = arm.goal /\ arm'.open = arm.open
    BY <1>1, <2>1, Numbers, SampleType
  <2>3. Unsent' /\ Written' /\ Scanned'  BY <1>2, <2>2, SharedKept DEF Publishing
  <2>4. Confirmed' /\ Stale'  BY <1>2, <2>1, <2>2, KnowledgeKept
  <2>5. Filled'  BY <1>2, <1>3, <2>1, <2>2 DEF AInv, Filled, Publishing
  <2>6. Window'  BY <1>2, <2>1, <2>2 DEF AInv, Window, Publishing
  <2>7. Snapshot'  BY <1>2, <2>1, <2>2, SyncedIs DEF AInv, Snapshot
  <2> QED  BY <2>3, <2>4, <2>5, <2>6, <2>7 DEF AInv
<1>5. CASE Rest /\ con' = (IF CaughtUp THEN [con EXCEPT !.ready = TRUE, !.last = 0] ELSE con)
           /\ UNCHANGED act
  <2>1. arm'.pc = "idle" /\ arm'.goal = "fill" /\ ~arm'.open  BY <1>5, RestType
  <2>2. Unsent' /\ Written' /\ Scanned'  BY <1>2, <2>1, SharedKept DEF Publishing
  <2>3. Confirmed'  BY <1>2, <2>1, KnowledgeKept
  <2>4. Stale'
    <3>1. CASE CaughtUp
      <4>1. seen.ok /\ seen.id = req  BY <3>1 DEF CaughtUp
      <4>2. resp.id = req /\ (fpga.scan => fpga.id = req)
        BY <1>3, <4>1 DEF AInv, Confirmed
      <4> QED  BY <1>2, <2>1, <4>1, <4>2 DEF Stale
    <3>2. CASE ~CaughtUp  BY <1>2, <1>5, <2>1, <3>2, KnowledgeKept
    <3> QED  BY <3>1, <3>2
  <2>5. Filled'  BY <1>2, <1>3, <2>1 DEF Filled
  <2>6. Window'  BY <2>1 DEF Window, Publishing
  <2>7. Snapshot'  BY <1>2, <1>5, <2>1 DEF AInv, Snapshot
  <2> QED  BY <2>2, <2>3, <2>4, <2>5, <2>6, <2>7 DEF AInv
<1>6. CASE arm.goal = "eval" /\ Goto(IF CaughtUp THEN "eval" ELSE "grow") /\ UNCHANGED <<act, con>>
  <2> DEFINE pc == IF CaughtUp THEN "eval" ELSE "grow"
  <2>1. pc \in {"eval", "grow"} /\ Goto(pc) /\ (pc = "eval" => CaughtUp)  BY <1>6
  <2> HIDE DEF pc
  <2>2. arm'.pc = pc /\ arm'.goal = "eval" /\ arm'.open = arm.open
    BY <1>1, <1>6, <2>1, GotoType
  <2>3. Unsent' /\ Written' /\ Scanned'  BY <1>2, <2>1, <2>2, SharedKept DEF Publishing
  <2>4. Confirmed' /\ Stale'  BY <1>2, <1>6, <2>1, <2>2, KnowledgeKept
  <2>5. Filled'  BY <1>2, <1>3, <2>2 DEF AInv, Filled
  <2>6. Window'  BY <1>2, <1>6, <2>1, <2>2 DEF AInv, Window, Publishing
  <2>7. Snapshot'  BY <1>2, <1>6, <2>1, <2>2 DEF AInv, Snapshot, CaughtUp
  <2> QED  BY <2>3, <2>4, <2>5, <2>6, <2>7 DEF AInv
<1>7. IsReady => \/ Rest /\ con' = (IF CaughtUp THEN [con EXCEPT !.ready = TRUE, !.last = 0] ELSE con)
                    /\ UNCHANGED act
                 \/ arm.goal = "eval" /\ Goto(IF CaughtUp THEN "eval" ELSE "grow") /\ UNCHANGED <<act, con>>
  BY DEF IsReady
<1> QED  BY <1>4, <1>5, <1>6, <1>7

\* What an evaluation adds is of the list, and is published later.
LEMMA EvaluateStep ==
  ASSUME TInv, AInv, NEW reads \in SUBSET Addr, Evaluate(reads), UNCHANGED <<ddr, resp, vals, fpga>>
  PROVE  AInv'
<1>1. arm \in Arms /\ con \in [ready : BOOLEAN, last : Frame, pending : BOOLEAN]
  BY DEF TInv, TypeOK, Arms
<1> DEFINE new == (reads \ act.addrs) \ list.all
           p == con.pending \/ new # {}
<1>2. /\ arm.pc = "eval" /\ Goto("grow") /\ list'.all = list.all \cup new
      /\ con' = [con EXCEPT !.pending = p] /\ UNCHANGED <<pub, act, req, seen>>
  BY DEF Evaluate
<1> HIDE DEF new, p
<1>3. con'.ready = con.ready /\ con'.last = con.last  BY <1>1, <1>2
<1>4. arm'.pc = "grow" /\ arm'.goal = arm.goal /\ arm'.open = arm.open  BY <1>1, <1>2, GotoType
<1>5. Unsent' /\ Written' /\ Scanned'  BY <1>2, <1>4, SharedKept DEF Publishing
<1>6. Confirmed' /\ Stale'  BY <1>2, <1>3, <1>4, KnowledgeKept
<1>7. Filled'
  <2>1. arm.goal = "eval" /\ list.all # {} /\ pub # {}  BY <1>2 DEF TInv, Course, AInv, Filled
  <2> QED  BY <1>2, <1>4, <2>1 DEF Filled
<1>8. Window'  BY <1>2, <1>3, <1>4 DEF AInv, Window, Publishing
<1>9. Snapshot'  BY <1>2, <1>4 DEF AInv, Snapshot
<1> QED  BY <1>5, <1>6, <1>7, <1>8, <1>9 DEF AInv

\* The cleanup tick, and a publish that is put off.
LEMMA GrowStep ==
  ASSUME TInv, AInv, Grow \/ Deferred, UNCHANGED <<ddr, resp, vals, fpga>>
  PROVE  AInv'
<1>1. UNCHANGED <<list, pub, act, req, seen, con>> /\ arm.pc \in {"grow", "publish"}
  BY DEF Grow, Deferred
<1>2. /\ arm'.pc \in {"idle", "f0"} /\ arm'.goal \in {"fill", "flush", "prune"}
      /\ arm'.open => arm.open
      /\ arm'.goal = "prune" => list.dyn # list.all
  <2>1. \/ Rest
        \/ Sample("flush", "publish", arm.open)
        \/ Sample("prune", "publish", arm.open) /\ list.dyn # list.all
    BY DEF Grow, Deferred
  <2>2. CASE Rest  BY <2>2, RestType
  <2>3. CASE Sample("flush", "publish", arm.open)  BY <2>3, Numbers, SampleType
  <2>4. CASE Sample("prune", "publish", arm.open) /\ list.dyn # list.all
    BY <2>4, Numbers, SampleType
  <2> QED  BY <2>1, <2>2, <2>3, <2>4
<1>3. Unsent' /\ Written' /\ Scanned'  BY <1>1, <1>2, SharedKept DEF Publishing
<1>4. Confirmed' /\ Stale'  BY <1>1, <1>2, KnowledgeKept
<1>5. Filled'  BY <1>1, <1>2 DEF AInv, Filled
<1>6. Window'  BY <1>1, <1>2 DEF AInv, Window, Publishing
<1>7. Snapshot'  BY <1>1, <1>2 DEF AInv, Snapshot
<1> QED  BY <1>3, <1>4, <1>5, <1>6, <1>7 DEF AInv

\* A revision of a list in use is published in the window: no scan is left of the
\* list before, and no frame that Main has not had.
LEMMA ReviseStep ==
  ASSUME ~Fallback, TInv, AInv, Revise, UNCHANGED <<ddr, resp, vals, fpga>>
  PROVE  AInv'
<1> DEFINE l == IF arm.goal = "flush" THEN list ELSE [all |-> list.all \ list.dyn, dyn |-> {}]
<1>1. /\ Publish(l) /\ con' = [con EXCEPT !.pending = FALSE] /\ UNCHANGED <<act, seen>>
      /\ arm.pc = "publish" /\ ~fpga.scan /\ arm.open
  BY DEF Revise, MayPublish
<1>2. arm.goal \in {"flush", "prune"} /\ con.ready  BY <1>1 DEF TInv, Course
<1>3. list.all # {} /\ (arm.goal = "prune" => list.dyn # list.all)
  BY <1>1 DEF AInv, Filled, Publishing
<1>4. /\ l \in [all : SUBSET Addr, dyn : SUBSET Addr] /\ l.dyn \subseteq l.all
      /\ l.all # {}
  BY <1>2, <1>3, SMTT(20) DEF TInv, TypeOK
<1> HIDE DEF l
<1>5. /\ list' = l /\ pub' = l.all /\ arm'.pc = "addrs" /\ arm'.goal = arm.goal
      /\ arm'.open = arm.open /\ req' = req + 1
  BY <1>1, <1>4, PublishTypes
<1>6. con'.ready = con.ready /\ con'.last = con.last
  BY <1>1 DEF TInv, TypeOK
<1>7. Unsent' /\ Written' /\ Scanned' /\ Confirmed'  BY <1>1, <1>4, PublishIsUnsent
<1>8. Filled'  BY <1>4, <1>5 DEF Filled, Publishing
<1>9. Stale'  BY <1>1, <1>5, <1>6 DEF AInv, Window, Stale
<1>10. Window'  BY <1>1, <1>5, <1>6 DEF AInv, Window
<1>11. Snapshot'
  <2>1. act'.id # req'  BY <1>1, <1>5, Numbers
  <2> QED  BY <1>2, <1>5, <2>1 DEF Snapshot
<1> QED  BY <1>7, <1>8, <1>9, <1>10, <1>11 DEF AInv
-----------------------------------------------------------------------------
(* The argument about ids: the list is written, the core resets *)

\* Until its id is written a revision may be read by nobody; then all of it is there.
LEMMA WriteStep ==
  ASSUME TInv, AInv, WriteAddrs \/ WriteCount \/ Commit
  PROVE  AInv'
<1>1. /\ Publishing /\ UNCHANGED <<list, pub, act, req, seen, con, resp, vals, fpga>>
  BY DEF Publishing, WriteAddrs, WriteCount, Commit
<1>2. /\ arm \in Arms /\ pub \in SUBSET Addr
      /\ ddr \in [addrs : [Slot -> Addr \cup {0}], count : 0 .. Cardinality(Addr), id : Id]
  BY DEF TInv, TypeOK, Arms
<1>3. /\ arm'.pc \in {"count", "commit", "idle"}
      /\ arm'.goal \in {arm.goal, "fill"} /\ (arm'.open => arm.open)
      /\ ~Publishing' \/ (arm'.open = arm.open /\ arm'.id = arm.id)
  <2>1. CASE Rest  BY <2>1, RestType DEF Publishing
  <2>2. CASE Goto("count") \/ Goto("commit")  BY <1>2, <2>2, GotoType
  <2> QED  BY <2>1, <2>2 DEF WriteAddrs, WriteCount, Commit
<1>4. list.all # {} => pub # {}  BY DEF AInv, Filled
<1>5. list.all # {}  BY <1>1 DEF AInv, Filled, Publishing
<1>6. Confirmed'  BY <1>1, <1>3 DEF AInv, Confirmed, InPlace, End, Rank
<1>7. Stale'  BY <1>1, <1>3 DEF AInv, Stale
<1>8. Window'  BY <1>1, <1>3 DEF AInv, Window
<1>9. Snapshot'
  <2>1. act.id < req  BY <1>1 DEF AInv, Unsent
  <2>2. act.id # req  BY <2>1, Numbers
  <2>3. arm.goal # "eval"  BY <2>2 DEF AInv, Snapshot
  <2> QED  BY <1>1, <1>3, <2>2, <2>3 DEF Snapshot
<1>10. Scanned'
  <2>1. fpga.id < req  BY <1>1 DEF AInv, Unsent
  <2>2. fpga'.id # req'  BY <1>1, <2>1, Numbers
  <2> QED  BY <2>2 DEF Scanned
<1>11. CASE WriteAddrs
  <2>1. ddr' = [ddr EXCEPT !.addrs = Write(pub, ddr.addrs)] /\ Goto("count")
    BY <1>11 DEF WriteAddrs
  <2>2. ddr'.addrs = Write(pub, ddr.addrs) /\ ddr'.id = ddr.id  BY <1>2, <2>1
  <2>3. arm'.pc = "count" /\ arm'.id = arm.id /\ arm'.goal = arm.goal  BY <1>2, <2>1, GotoType
  <2>4. InPlace(Write(pub, ddr.addrs), pub, End(pub))  BY <1>2, WritePlaces
  <2>5. Written'  BY <1>1, <2>2, <2>3, <2>4 DEF Written, Publishing, InPlace, End, Rank
  <2>6. Unsent'  BY <1>1, <2>2, <2>3 DEF AInv, Unsent
  <2>7. Filled'  BY <1>1, <1>4, <1>5, <2>3 DEF Filled, Publishing
  <2> QED  BY <1>6, <1>7, <1>8, <1>9, <1>10, <2>5, <2>6, <2>7 DEF AInv
<1>12. CASE WriteCount
  <2>1. ddr' = [ddr EXCEPT !.count = Cardinality(pub)] /\ Goto("commit") /\ arm.pc = "count"
    BY <1>12 DEF WriteCount
  <2>2. ddr'.addrs = ddr.addrs /\ ddr'.id = ddr.id /\ ddr'.count = Cardinality(pub)
    BY <1>2, <2>1
  <2>3. arm'.pc = "commit" /\ arm'.id = arm.id /\ arm'.goal = arm.goal  BY <1>2, <2>1, GotoType
  <2>4. Written'
    BY <1>1, <2>1, <2>2, <2>3 DEF AInv, Written, Publishing, InPlace, End, Rank
  <2>5. Unsent'  BY <1>1, <2>2, <2>3 DEF AInv, Unsent
  <2>6. Filled'  BY <1>1, <1>4, <1>5, <2>3 DEF Filled, Publishing
  <2> QED  BY <1>6, <1>7, <1>8, <1>9, <1>10, <2>4, <2>5, <2>6 DEF AInv
<1>13. CASE Commit
  <2>1. ddr' = [ddr EXCEPT !.id = req] /\ Rest /\ arm.pc = "commit"  BY <1>13 DEF Commit
  <2>2. ddr'.addrs = ddr.addrs /\ ddr'.count = ddr.count /\ ddr'.id = req  BY <1>2, <2>1
  <2>3. arm'.pc = "idle" /\ arm'.goal = "fill"  BY <2>1, RestType
  <2>4. Written'
    BY <1>1, <2>1, <2>2, <2>3 DEF AInv, Written, Publishing, InPlace, End, Rank
  <2>5. Unsent' /\ Filled'  BY <1>1, <1>4, <1>5, <2>3 DEF Unsent, Publishing, Filled
  <2> QED  BY <1>6, <1>7, <1>8, <1>9, <1>10, <2>4, <2>5 DEF AInv
<1> QED  BY <1>11, <1>12, <1>13

\* A reset leaves no list, so nothing of the shared memory matters until the next.
LEMMA CoreResetStep ==
  ASSUME TInv, AInv, CoreReset
  PROVE  AInv'
<1>1. /\ list'.all = {} /\ pub' = {} /\ act'.id = 0 /\ act'.addrs = {} /\ ~con'.ready
      /\ arm' = Resting
  BY DEF CoreReset, Cleared, NoList, NoSnapshot, TInv, Course
<1>2. arm'.pc = "idle" /\ arm'.goal = "fill" /\ ~arm'.open  BY <1>1 DEF Resting
<1>3. Filled' /\ Unsent' /\ Stale' /\ Window' /\ Snapshot'
  BY <1>1, <1>2 DEF Filled, Unsent, Stale, Window, Snapshot, Publishing
<1>4. Written' /\ Scanned' /\ Confirmed'  BY <1>1 DEF Written, Scanned, Confirmed
<1> QED  BY <1>3, <1>4 DEF AInv

-----------------------------------------------------------------------------
(* The argument about ids: the core *)

\* What a step of the core that leaves Main's part alone keeps by itself.
LEMMA MainKept ==
  ASSUME TInv, AInv, UNCHANGED <<main, ddr>>
  PROVE  /\ UNCHANGED <<list, pub, act, req, seen, con, arm, ddr>>
         /\ Filled' /\ Written' /\ Snapshot'
         /\ con.ready => pub # {}
         /\ arm.pc # "idle" => pub # {}
<1>1. UNCHANGED <<list, pub, act, req, seen, con, arm, ddr>>  BY DEF main
<1>2. Filled' /\ Snapshot'  BY <1>1 DEF AInv, Filled, Snapshot, Publishing, CaughtUp
<1>3. Written'  BY <1>1 DEF AInv, Written, Publishing, InPlace, End, Rank
<1>4. con.ready \/ arm.pc # "idle" => pub # {}  BY DEF AInv, Filled
<1> QED  BY <1>1, <1>2, <1>3, <1>4

\* A scan that latches the request latches a list that is all there; one that does
\* not comes in a revision's window only after a restart, with a frame Main has had.
LEMMA VBlankStep ==
  ASSUME TInv, AInv, VBlank, UNCHANGED <<main, ddr>>
  PROVE  AInv'
<1>1. /\ UNCHANGED <<list, pub, act, req, seen, con, arm, ddr, resp, vals>>
      /\ Filled' /\ Written' /\ Snapshot' /\ (con.ready => pub # {})
  BY MainKept DEF VBlank
<1>2. /\ ~fpga.scan /\ (arm.open => fpga.frame = 0)
      /\ fpga'.scan /\ fpga'.id = ddr.id /\ fpga'.count = ddr.count /\ fpga'.at = 1
      /\ fpga'.latched = fpga.frame + 1
  BY DEF VBlank
<1>3. ddr.id = req => ~Publishing  BY Numbers DEF AInv, Unsent
<1>4. pub # {} /\ ~Publishing => ddr.id = req /\ ddr.count = Cardinality(pub)
  BY DEF AInv, Written, Publishing
<1>5. Unsent'  BY <1>1, <1>2 DEF AInv, Unsent, Publishing
<1>6. Scanned'
  <2>1. ASSUME NEW a \in pub PROVE ~(Rank(a, pub) < 1)
    BY Numbers, RankIsSlot DEF Slot
  <2>2. InPlace(vals, pub, 1)  BY <2>1 DEF InPlace
  <2> QED  BY <1>1, <1>2, <1>3, <1>4, <2>2 DEF Scanned, InPlace, Rank
<1>7. Confirmed'
  <2>1. pub # {} /\ resp.id = req => ddr.id = req
    BY <1>4, Numbers DEF AInv, Unsent
  <2> QED  BY <1>1, <1>2, <2>1 DEF AInv, Confirmed, InPlace, End, Rank
<1>8. Stale'
  <2>1. ASSUME con.ready, ddr.id # req PROVE fpga.frame + 1 <= con.last
    <3>1. Publishing /\ arm.open  BY <1>1, <1>4, <2>1 DEF AInv, Window
    <3> QED  BY <1>2, <3>1, Numbers DEF AInv, Window
  <2> QED  BY <1>1, <1>2, <2>1 DEF AInv, Stale
<1>9. Window'  BY <1>1, <1>2, Numbers DEF AInv, Window, Publishing
<1> QED  BY <1>1, <1>5, <1>6, <1>7, <1>8, <1>9 DEF AInv

\* A scan of the request puts the next byte in place.
LEMMA ReadPairStep ==
  ASSUME TInv, AInv, ReadPair, UNCHANGED <<main, ddr>>
  PROVE  AInv'
<1>1. /\ UNCHANGED <<list, pub, act, req, seen, con, arm, ddr, resp>>
      /\ Filled' /\ Written' /\ Snapshot' /\ (con.ready => pub # {})
  BY MainKept DEF ReadPair
<1>2. /\ fpga \in [scan : BOOLEAN, id : Id, count : 0 .. Cardinality(Addr),
                   at : 1 .. Cardinality(Addr) + 1, latched : Frame, frame : Frame]
      /\ vals \in [Slot -> Addr \cup {0}] /\ pub \in SUBSET Addr /\ Cardinality(Addr) \in Nat
  BY AddrAssumption, ListIsFinite DEF TInv, TypeOK
<1>3. /\ fpga.scan /\ fpga.at <= fpga.count
      /\ vals' = [vals EXCEPT ![fpga.at] = ddr.addrs[fpga.at]]
      /\ fpga' = [fpga EXCEPT !.at = fpga.at + 1]
  BY DEF ReadPair
<1>4. /\ fpga'.scan = fpga.scan /\ fpga'.id = fpga.id /\ fpga'.count = fpga.count
      /\ fpga'.latched = fpga.latched /\ fpga'.at = fpga.at + 1 /\ fpga.at \in Slot
      /\ fpga.at \in Int
  <2>1. /\ fpga.at \in 1 .. Cardinality(Addr) + 1 /\ fpga.count \in 0 .. Cardinality(Addr)
    BY <1>2
  <2>2. fpga.at \in Slot /\ fpga.at \in Int  BY <1>2, <1>3, <2>1 DEF Slot
  <2> DEFINE n == fpga.at + 1
  <2>3. fpga' = [fpga EXCEPT !.at = n]  BY <1>3
  <2> HIDE DEF n
  <2>4. /\ fpga'.scan = fpga.scan /\ fpga'.id = fpga.id /\ fpga'.count = fpga.count
        /\ fpga'.latched = fpga.latched /\ fpga'.at = n
    BY <1>2, <2>3
  <2> QED  BY <2>2, <2>4 DEF n
<1>5. ASSUME NEW a \in pub, fpga.id = req,
             Rank(a, pub) < fpga.at + 1 \/ vals[Rank(a, pub)] = a
      PROVE  vals'[Rank(a, pub)] = a
  <2>1. Rank(a, pub) \in Slot /\ Rank(a, pub) \in 1..Cardinality(pub) /\ Rank(a, pub) \in Int
        /\ Cardinality(pub) \in Int
    BY <1>2, RankIsSlot, ListIsFinite DEF Slot
  <2>2. ~Publishing  BY <1>5, Numbers DEF AInv, Unsent
  <2>3. CASE Rank(a, pub) = fpga.at
    <3>1. ddr.addrs[Rank(a, pub)] = a
      BY <2>1, <2>2 DEF AInv, Written, InPlace, End, Publishing
    <3> QED  BY <1>2, <1>3, <1>4, <2>3, <3>1
  <2>4. CASE Rank(a, pub) # fpga.at
    <3>1. vals[Rank(a, pub)] = a
      <4>1. Rank(a, pub) < fpga.at \/ vals[Rank(a, pub)] = a  BY <1>4, <1>5, <2>1, <2>4
      <4> QED  BY <1>3, <1>5, <4>1 DEF AInv, Scanned, InPlace
    <3> QED  BY <1>2, <1>3, <2>1, <2>4, <3>1
  <2> QED  BY <2>3, <2>4
<1>6. Unsent'  BY <1>1, <1>4 DEF AInv, Unsent, Publishing
<1>7. Scanned'
  <2>1. pub # {} /\ fpga.id = req =>
          fpga.count = Cardinality(pub) /\ InPlace(vals', pub, fpga.at + 1)
    BY <1>3, <1>5 DEF AInv, Scanned, InPlace
  <2> QED  BY <1>1, <1>4, <2>1 DEF Scanned, InPlace, Rank
<1>8. Confirmed'
  <2>1. pub # {} /\ resp.id = req => fpga.id = req /\ InPlace(vals, pub, End(pub))
    BY <1>3 DEF AInv, Confirmed
  <2>2. pub # {} /\ resp.id = req => InPlace(vals', pub, End(pub))
    BY <1>5, <2>1 DEF InPlace
  <2> QED  BY <1>1, <1>4, <2>1, <2>2 DEF AInv, Confirmed, InPlace, End, Rank
<1>9. Stale' /\ Window'  BY <1>1, <1>4 DEF AInv, Stale, Window, Publishing
<1> QED  BY <1>1, <1>6, <1>7, <1>8, <1>9 DEF AInv

\* A header of the request is written when all its bytes are in place.
LEMMA RespondStep ==
  ASSUME TInv, AInv, Respond, UNCHANGED <<main, ddr>>
  PROVE  AInv'
<1>1. /\ UNCHANGED <<list, pub, act, req, seen, con, arm, ddr, vals>>
      /\ Filled' /\ Written' /\ Snapshot' /\ (con.ready => pub # {})
  BY MainKept DEF Respond
<1>2. /\ fpga.scan /\ fpga.at > fpga.count
      /\ resp'.id = fpga.id /\ resp'.frame = fpga.latched /\ ~fpga'.scan /\ fpga'.id = 0
  BY DEF Respond
<1>3. fpga.at \in Int /\ fpga.count \in Int
  <2>1. Cardinality(Addr) \in Nat  BY AddrAssumption, ListIsFinite
  <2> QED  BY <2>1 DEF TInv, TypeOK
<1>4. pub # {} /\ resp.id = req => fpga.id = req  BY <1>2 DEF AInv, Confirmed
<1>5. Unsent'  BY <1>1, <1>2, Numbers DEF AInv, Unsent, Publishing
<1>6. Scanned'  BY <1>2 DEF Scanned
<1>7. Confirmed'
  <2>1. ASSUME pub # {}, fpga.id = req PROVE InPlace(vals, pub, End(pub))
    <3>1. fpga.count = Cardinality(pub) /\ InPlace(vals, pub, fpga.at)
      BY <1>2, <2>1 DEF AInv, Scanned
    <3>2. ASSUME NEW a \in pub PROVE Rank(a, pub) < fpga.at
      BY <1>2, <1>3, <3>1, Numbers, RankIsSlot
    <3> QED  BY <3>1, <3>2 DEF InPlace
  <2> QED  BY <1>1, <1>2, <1>4, <2>1 DEF AInv, Confirmed, InPlace, End, Rank
<1>8. Stale'  BY <1>1, <1>2, <1>4 DEF AInv, Stale
<1>9. Window'  BY <1>1, <1>2 DEF AInv, Window, Publishing
<1> QED  BY <1>1, <1>5, <1>6, <1>7, <1>8, <1>9 DEF AInv

\* A restart drops the scan and leaves the header and the bytes.
LEMMA RestartStep ==
  ASSUME TInv, AInv, Restart, UNCHANGED <<main, ddr>>
  PROVE  AInv'
<1>1. /\ UNCHANGED <<list, pub, act, req, seen, con, arm, ddr, resp, vals>>
      /\ Filled' /\ Written' /\ Snapshot' /\ ~fpga'.scan /\ fpga'.id = 0
  BY MainKept DEF Restart
<1>2. Unsent'  BY <1>1, Numbers DEF AInv, Unsent, Publishing
<1>3. Scanned'  BY <1>1 DEF Scanned
<1>4. Confirmed'  BY <1>1 DEF AInv, Confirmed, InPlace, End, Rank
<1>5. Stale' /\ Window'  BY <1>1 DEF AInv, Stale, Window, Publishing
<1> QED  BY <1>1, <1>2, <1>3, <1>4, <1>5 DEF AInv

-----------------------------------------------------------------------------
(* The invariant and the theorems *)

\* There is no list to be right about at the start.
LEMMA InitAInv == Init => AInv
<1> SUFFICES ASSUME Init PROVE AInv  OBVIOUS
<1>1. /\ list.all = {} /\ pub = {} /\ act.id = 0 /\ act.addrs = {} /\ ~con.ready
      /\ arm.pc = "idle" /\ arm.goal = "fill" /\ ~arm.open
  BY DEF Init, NoList, NoSnapshot, Resting
<1>2. Filled /\ Unsent /\ Stale /\ Window /\ Snapshot
  BY <1>1 DEF Filled, Unsent, Stale, Window, Snapshot, Publishing
<1>3. Written /\ Scanned /\ Confirmed  BY <1>1 DEF Written, Scanned, Confirmed
<1> QED  BY <1>2, <1>3 DEF AInv

\* The argument about ids holds on through every step.
LEMMA NextAInv ==
  ASSUME ~Fallback
  PROVE  TInv /\ AInv /\ [Next]_vars => AInv'
<1> SUFFICES ASSUME TInv, AInv, [Next]_vars PROVE AInv'  OBVIOUS
<1>1. CASE Poll /\ UNCHANGED <<ddr, resp, vals, fpga>>
  BY <1>1, SampleStep, BootstrapStep, PollStartStep, NewFrameStep, IsReadyStep, EvaluateStep,
     GrowStep, ReviseStep
  DEF Poll
<1>2. CASE WriteAddrs \/ WriteCount \/ Commit  BY <1>2, WriteStep
<1>3. CASE CoreReset  BY <1>3, CoreResetStep
<1>4. CASE Core  BY <1>4, VBlankStep, ReadPairStep, RespondStep, RestartStep DEF Core
<1>5. CASE UNCHANGED vars
  BY <1>5 DEF vars, main, AInv, Filled, Unsent, Written, Scanned, Confirmed, Stale, Window,
              Snapshot, Publishing, InPlace, End, Rank, CaughtUp
<1> QED  BY <1>1, <1>2, <1>3, <1>4, <1>5 DEF Next

\* The variables keep their types, and no id of the snapshot or of a sample is
\* above the request.
THEOREM SpecTypeOK == Spec => []TypeOK
<1>1. TInv => TypeOK  BY DEF TInv
<1> QED  BY <1>1, InitTInv, NextTInv, PTL DEF Spec

\* An added address is published or still known to be pending
\* (s_dynamic_pending), whatever is deferred, pruned, reset or restarted.
THEOREM SpecInsertsArePublished == Spec => []InsertsArePublished
<1>1. Init => InsertsArePublished  BY DEF Init, NoList, InsertsArePublished
<1> QED  BY <1>1, InitTInv, NextTInv, NextInserts, PTL DEF Spec

\* While Main evaluates a frame, every cached byte is of the address it is served
\* for: for a poll whose publish comes in its window (the deferral fallback of
\* ra_snes_addrlist_flush_dynamic left out, with which it does not hold).
THEOREM SpecEvaluatedIsAligned ==
  ASSUME ~Fallback
  PROVE  Spec => []EvaluatedIsAligned
<1>1. TInv /\ AInv => EvaluatedIsAligned
  <2> SUFFICES ASSUME TInv, AInv, arm.pc = "eval", NEW a \in act.addrs
               PROVE  vals[Rank(a, act.addrs)] = a
    BY DEF EvaluatedIsAligned
  <2>1. arm.goal = "eval" /\ CaughtUp  BY DEF TInv, Course, AInv, Snapshot
  <2>2. act.addrs = pub  BY <2>1 DEF AInv, Snapshot
  <2>3. pub # {} /\ seen.ok /\ seen.id = req  BY <2>1, <2>2 DEF CaughtUp
  <2>4. InPlace(vals, pub, End(pub))  BY <2>3 DEF AInv, Confirmed
  <2>5. Rank(a, pub) < End(pub)
    BY <2>2, Numbers, RankIsSlot, ListIsFinite DEF End
  <2> QED  BY <2>2, <2>4, <2>5 DEF InPlace
<1> QED  BY <1>1, InitTInv, InitAInv, NextTInv, NextAInv, PTL DEF Spec
=============================================================================
