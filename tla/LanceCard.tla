------------------------------ MODULE LanceCard ------------------------------
(***************************************************************************)
(* The A2065 ethernet card of the Minimig core: Main emulates the Am7990   *)
(* LANCE (minimig_a2065*.cpp) from a2065_poll, over DDR3 it shares with    *)
(* the FPGA and the Amiga.                                                 *)
(*                                                                         *)
(* The 68k's writes of CSR0 are posted to a CMD ring and take effect when  *)
(* Main drains them; Main publishes CSR0 and, after it, the interrupt line *)
(* with its read index of the ring.  The FPGA samples the two in the       *)
(* opposite order, and hides the bits the 68k has acknowledged until the   *)
(* index has passed the acknowledge (minimig_a2065_ddr3.h).  Descriptors   *)
(* carry an OWN bit that both sides read and write.  Main, the FPGA and    *)
(* the 68k run concurrently: a step is one access to what they share.      *)
(*                                                                         *)
(* Indices of the CMD ring count from the entry the FPGA has last seen     *)
(* passed.  Frames fill one descriptor; internal loopback, chained buffers *)
(* and the errors they can meet are left out, and so is a CMD ring that    *)
(* overflows: it is "comfortably more than the 68k can post".              *)
(***************************************************************************)
EXTENDS Integers, Sequences, FiniteSets

CONSTANTS
  RxLen, TxLen, \* am_rdr_rlen, am_tdr_tlen
  Batch,        \* RX_BATCH_MAX
  Socket,       \* bound: frames waiting in the socket
  Depth         \* bound: CSR0 writes the FPGA has not seen passed

ASSUME LanceAssumption == {RxLen, TxLen, Batch, Socket, Depth} \subseteq Nat \ {0}

Events == {"RINT", "TINT", "IDON"}  \* the write-1-to-clear bits that can be set
Control == {"INIT", "STRT", "STOP", "TDMD", "INEA"}
Csr0 == Events \cup Control \cup {"RXON", "TXON"}
Rx == 0 .. RxLen - 1
Tx == 0 .. TxLen - 1

VARIABLES
  rx, tx, \* the rings: who owns a descriptor
  cmd,    \* the CMD ring, from the entry the FPGA has last seen passed
  pub,    \* CSR_SHADOW and INT_STATE, with the read index CSR_SHADOW is of
  fpga,   \* the FPGA's copies of them, and the read index it has sampled
  lance,  \* the statics of registers.cpp and rings.cpp
  main,   \* a2065_poll: where it is, entries and frames of this pass, stores due
  amiga,  \* the driver and its interrupt server
  net     \* frames in the socket

vars == <<rx, tx, cmd, pub, fpga, lance, main, amiga, net>>

Index == 0 .. Depth
None == -1

TypeOK ==
  /\ rx \in [Rx -> {"lance", "amiga"}]           \* RX_OWN set, clear
  /\ tx \in [Tx -> {"lance", "sent", "free"}]    \* TX_OWN set, clear by Main, taken back
  /\ cmd \in Seq(SUBSET (Events \cup Control)) /\ Len(cmd) <= Depth
  /\ pub \in [csr : SUBSET Csr0, of : Index, line : BOOLEAN, rd : Index]
  /\ fpga \in [csr : SUBSET Csr0, line : BOOLEAN, rd : Index \cup {None}, next : BOOLEAN]
  /\ lance \in [csr : SUBSET Csr0, init : BOOLEAN, roff : Rx, toff : Tx,
                rd : Index,                \* cmd_rd_idx
                ev : [Events -> Index],    \* ev_idx
                handed : SUBSET Rx]        \* rx_handed
  /\ main \in [pc : {"rest", "drain", "drained", "tx", "txint", "tdmd", "raise",
                     "rx", "rxint", "txpoll"},
               ret : {"rest", "tdmd"}, n : Index, taken : 0 .. Batch,
               due : Seq({"csr", "int"})]
  /\ amiga \in [pc : {"down", "init", "user", "read", "ack", "scan", "reclaim", "tdmd",
                      "own", "stop"},
                seen : SUBSET Events, rpos : Rx, tfill : Tx, tpos : Tx]
  /\ net \in 0 .. Socket

Reset ==  \* registers_reset, which keeps rx_handed
  [lance EXCEPT !.csr = {"STOP"}, !.init = FALSE, !.roff = 0, !.toff = 0, !.rd = 0,
                !.ev = [b \in Events |-> 0]]

Init ==
  /\ rx = [i \in Rx |-> "amiga"]
  /\ tx = [i \in Tx |-> "free"]
  /\ cmd = <<>>
  /\ pub = [csr |-> {"STOP"}, of |-> 0, line |-> FALSE, rd |-> 0]
  /\ fpga = [csr |-> {}, line |-> FALSE, rd |-> None, next |-> FALSE]
  /\ lance = [csr |-> {"STOP"}, init |-> FALSE, roff |-> 0, toff |-> 0, rd |-> 0,
              ev |-> [b \in Events |-> 0], handed |-> {}]
  /\ main = [pc |-> "rest", ret |-> "rest", n |-> 0, taken |-> 0, due |-> <<>>]
  /\ amiga = [pc |-> "down", seen |-> {}, rpos |-> 0, tfill |-> 0, tpos |-> 0]
  /\ net = 0

-----------------------------------------------------------------------------
\* registers.cpp

Raised(csr) == csr \cap Events # {}  \* CSR0_INTR, as rethink has it

StoresLineFirst == <<"int", "csr">>  \* faulty variant: the line before the shadow
Stores == <<"csr", "int">>           \* push_csr_shadow, then update_int_state

\* What rethink leaves to store, through on_interrupt_cb
Rethink(csr) == IF Raised(csr) /\ "INEA" \in csr THEN Stores ELSE <<>>

\* An event is marked with the write index of the CMD ring
Mark(ev, bits, idx) == [b \in Events |-> IF b \in bits THEN idx ELSE ev[b]]

\* Faulty variant: an acknowledge clears every bit it names
AckMaskAll(l, ack) == ack \cap Events
\* The bits an acknowledge clears: those raised before the entry was written
AckMask(l, ack) == {b \in ack \cap Events : l.ev[b] <= l.rd}

\* chip_wput of CSR0, up to the transmit demand; old is CSR0 before
Written(l, w) ==
  LET old == l.csr
      c == (((old \ {"INEA"}) \cup (w \cap Control)) \ AckMask(l, w))
      inits == "INIT" \in c /\ "INIT" \notin old
      starts == "STRT" \in c /\ "STRT" \notin old /\ old \cap {"STOP", "INIT"} # {}
      on(cs) == (cs \ {"STOP"}) \cup {"RXON", "TXON"}
      \* chip_init takes the rings from the start, IDON is after this entry
      fresh(cs) == [l EXCEPT !.csr = cs \cup {"IDON"}, !.init = TRUE, !.roff = 0,
                    !.toff = 0, !.handed = {}, !.ev = Mark(l.ev, {"IDON"}, l.rd + 1)]
      s == IF "STOP" \in c /\ "STOP" \notin old THEN [l EXCEPT !.csr = {"STOP"}]
           ELSE IF starts THEN IF inits THEN fresh(on(c)) ELSE [l EXCEPT !.csr = on(c)]
           ELSE IF inits /\ "STOP" \in old THEN fresh(c \ {"RXON", "TXON", "STOP"})
           ELSE [l EXCEPT !.csr = c]
      \* a demand starts a stopped chip
      demand == "TDMD" \in s.csr /\ s.init /\ "TXON" \notin s.csr
  IN [s EXCEPT !.csr = IF demand THEN on(@) ELSE @, !.rd = l.rd + 1]

-----------------------------------------------------------------------------
\* rings.cpp

HasSpace == "RXON" \in lance.csr /\ rx[lance.roff] = "lance"

Unserviced == {i \in lance.handed : rx[i] = "amiga"}

\* The descriptors do_transmit and rings_tx_ready look for
TxReady == IF "TXON" \in lance.csr THEN {i \in Tx : tx[i] = "lance"} ELSE {}

\* The first of them from tdr_offset on
NextTx == LET k == CHOOSE d \in Tx : /\ (lance.toff + d) % TxLen \in TxReady
                                     /\ \A e \in 0 .. d - 1 : (lance.toff + e) % TxLen \notin TxReady
          IN (lance.toff + k) % TxLen

-----------------------------------------------------------------------------
\* a2065_poll

At(p) == main.pc = p /\ main.due = <<>>

\* A store to CSR_SHADOW or INT_STATE
Store ==
  /\ main.due # <<>>
  /\ main' = [main EXCEPT !.due = Tail(@)]
  /\ pub' = IF Head(main.due) = "csr"
            THEN [pub EXCEPT !.csr = lance.csr, !.of = lance.rd]
            ELSE [pub EXCEPT !.line = Raised(lance.csr) /\ "INEA" \in lance.csr,
                             !.rd = lance.rd]
  /\ UNCHANGED <<rx, tx, cmd, fpga, lance, amiga, net>>

Poll ==
  /\ At("rest")
  /\ LET n == Len(cmd) - lance.rd IN
     main' = [main EXCEPT !.n = n, !.pc = IF n > 0 THEN "drain" ELSE "raise"]
  /\ UNCHANGED <<rx, tx, cmd, pub, fpga, lance, amiga, net>>

\* One entry; a transmit demand sends before the entry is through
Drain ==
  /\ At("drain")
  /\ LET l == Written(lance, cmd[lance.rd + 1])
         sends == "TDMD" \in l.csr /\ l.init
         c == IF sends THEN l.csr ELSE l.csr \ {"TDMD"}
     IN /\ lance' = [l EXCEPT !.csr = c]
        /\ main' = [main EXCEPT
             !.n = @ - 1,
             !.pc = IF sends THEN "tx" ELSE IF main.n = 1 THEN "drained" ELSE "drain",
             !.ret = IF sends THEN "tdmd" ELSE @,
             !.due = IF sends THEN <<>> ELSE Rethink(c)]
  /\ UNCHANGED <<rx, tx, cmd, pub, fpga, amiga, net>>

\* do_transmit gives the descriptor back ...
Send ==
  /\ At("tx")
  /\ IF TxReady = {}
     THEN /\ main' = [main EXCEPT !.pc = main.ret, !.ret = "rest", !.due = Stores]
          /\ UNCHANGED <<tx, lance>>
     ELSE /\ tx' = [tx EXCEPT ![NextTx] = "sent"]
          /\ lance' = [lance EXCEPT !.toff = (NextTx + 1) % TxLen]
          /\ main' = [main EXCEPT !.pc = "txint"]
  /\ UNCHANGED <<rx, cmd, pub, fpga, amiga, net>>

\* ... and raises TINT
RaiseTint ==
  /\ At("txint")
  /\ LET c == lance.csr \cup {"TINT"} IN
     /\ lance' = [lance EXCEPT !.csr = c, !.ev = Mark(@, {"TINT"}, Len(cmd))]
     /\ main' = [main EXCEPT !.pc = "tx", !.due = Rethink(c)]
  /\ UNCHANGED <<rx, tx, cmd, pub, fpga, amiga, net>>

\* The rest of chip_wput after the demand
Demanded ==
  /\ At("tdmd")
  /\ LET c == lance.csr \ {"TDMD"} IN
     /\ lance' = [lance EXCEPT !.csr = c]
     /\ main' = [main EXCEPT !.pc = IF main.n = 0 THEN "drained" ELSE "drain",
                             !.due = Rethink(c)]
  /\ UNCHANGED <<rx, tx, cmd, pub, fpga, amiga, net>>

Drained ==
  /\ At("drained")
  /\ main' = [main EXCEPT !.pc = "raise", !.due = Stores]
  /\ UNCHANGED <<rx, tx, cmd, pub, fpga, lance, amiga, net>>

\* RINT again for frames the Amiga has not taken
RaiseAgain ==
  /\ At("raise")
  /\ IF "RXON" \in lance.csr /\ "RINT" \notin lance.csr
     THEN /\ lance' = [lance EXCEPT
               !.handed = Unserviced,
               !.csr = IF Unserviced # {} THEN @ \cup {"RINT"} ELSE @,
               !.ev = IF Unserviced # {} THEN Mark(@, {"RINT"}, Len(cmd)) ELSE @]
          /\ main' = [main EXCEPT !.pc = "rx", !.due = IF Unserviced # {} THEN Stores ELSE <<>>]
     ELSE /\ main' = [main EXCEPT !.pc = "rx"]
          /\ UNCHANGED lance
  /\ UNCHANGED <<rx, tx, cmd, pub, fpga, amiga, net>>

\* a2065_drain_rx: what ends the batch
BatchOver == main.taken = Batch \/ ~ HasSpace \/ net = 0

BatchEnds ==
  /\ At("rx") /\ BatchOver
  /\ main' = [main EXCEPT !.pc = "txpoll", !.taken = 0,
                          !.due = IF main.taken > 0 THEN Stores ELSE <<>>]
  /\ UNCHANGED <<rx, tx, cmd, pub, fpga, lance, amiga, net>>

\* gotfunc drops a frame that is not for the Amiga ...
Filter ==
  /\ At("rx") /\ ~ BatchOver
  /\ net' = net - 1
  /\ main' = [main EXCEPT !.taken = @ + 1]
  /\ UNCHANGED <<rx, tx, cmd, pub, fpga, lance, amiga>>

\* Faulty variant: the offset runs past the ring
DeliverPastTheRing ==
  /\ At("rx") /\ ~ BatchOver
  /\ net' = net - 1
  /\ rx' = [rx EXCEPT ![lance.roff] = "amiga"]
  /\ lance' = [lance EXCEPT !.handed = @ \cup {lance.roff}, !.roff = @ + 1]
  /\ main' = [main EXCEPT !.pc = "rxint", !.taken = @ + 1]
  /\ UNCHANGED <<tx, cmd, pub, fpga, amiga>>

\* ... and hands a descriptor over for one that is
Deliver ==
  /\ At("rx") /\ ~ BatchOver
  /\ net' = net - 1
  /\ rx' = [rx EXCEPT ![lance.roff] = "amiga"]
  /\ lance' = [lance EXCEPT !.handed = @ \cup {lance.roff}, !.roff = (@ + 1) % RxLen]
  /\ main' = [main EXCEPT !.pc = "rxint", !.taken = @ + 1]
  /\ UNCHANGED <<tx, cmd, pub, fpga, amiga>>

\* ... and raises RINT, which is stored when the batch is through
RaiseRint ==
  /\ At("rxint")
  /\ lance' = [lance EXCEPT !.csr = @ \cup {"RINT"}, !.ev = Mark(@, {"RINT"}, Len(cmd))]
  /\ main' = [main EXCEPT !.pc = "rx"]
  /\ UNCHANGED <<rx, tx, cmd, pub, fpga, amiga, net>>

\* Faulty variant: the ring is looked at on a demand only
TxPollNever ==
  /\ At("txpoll")
  /\ main' = [main EXCEPT !.pc = "rest"]
  /\ UNCHANGED <<rx, tx, cmd, pub, fpga, lance, amiga, net>>

\* The transmit ring is polled when tx_poll is due
TxPoll ==
  /\ At("txpoll")
  /\ main' = IF lance.init /\ TxReady # {}
             THEN [main EXCEPT !.pc = "tx"]
             ELSE [main EXCEPT !.pc = "rest"]
  /\ UNCHANGED <<rx, tx, cmd, pub, fpga, lance, amiga, net>>

TxPollNotDue ==
  /\ At("txpoll")
  /\ main' = [main EXCEPT !.pc = "rest"]
  /\ UNCHANGED <<rx, tx, cmd, pub, fpga, lance, amiga, net>>

MainNext == Store \/ Poll \/ Drain \/ Send \/ RaiseTint \/ Demanded \/ Drained \/ RaiseAgain
              \/ BatchEnds \/ Filter \/ Deliver \/ RaiseRint \/ TxPoll \/ TxPollNotDue
-----------------------------------------------------------------------------
\* The FPGA and the network

\* INT_STATE is sampled first ...
SampleInt ==
  /\ fpga.rd = None
  /\ fpga' = [fpga EXCEPT !.rd = pub.rd, !.next = pub.line]
  /\ UNCHANGED <<rx, tx, cmd, pub, lance, main, amiga, net>>

\* ... and CSR_SHADOW second: the entries before the sampled index are passed
SampleCsr ==
  /\ fpga.rd # None
  /\ LET k == fpga.rd
         back(i) == IF i < k THEN 0 ELSE i - k
     IN /\ fpga' = [csr |-> pub.csr, line |-> fpga.next, rd |-> None, next |-> FALSE]
        /\ cmd' = SubSeq(cmd, k + 1, Len(cmd))
        /\ pub' = [pub EXCEPT !.of = back(@), !.rd = back(@)]
        /\ lance' = [lance EXCEPT !.rd = back(@), !.ev = [b \in Events |-> back(@[b])]]
  /\ UNCHANGED <<rx, tx, main, amiga, net>>

FrameArrives ==
  /\ net < Socket
  /\ net' = net + 1
  /\ UNCHANGED <<rx, tx, cmd, pub, fpga, lance, main, amiga>>

-----------------------------------------------------------------------------
\* The driver on the Amiga, whose CSR0 hides what it has acknowledged

Acknowledged == UNION {cmd[i] : i \in DOMAIN cmd} \cap Events
Visible == fpga.csr \ Acknowledged

\* A write of CSR0
Post(w) == Len(cmd) < Depth /\ cmd' = Append(cmd, w)

\* The rings are laid out anew and the chip initialised
DriverInit ==
  /\ amiga.pc = "down"
  /\ rx' = [i \in Rx |-> "lance"]
  /\ tx' = [i \in Tx |-> "free"]
  /\ Post({"INIT"})
  /\ amiga' = [pc |-> "init", seen |-> {}, rpos |-> 0, tfill |-> 0, tpos |-> 0]
  /\ UNCHANGED <<pub, fpga, lance, main, net>>

DriverStart ==
  /\ amiga.pc = "init" /\ "IDON" \in Visible
  /\ Post({"IDON", "STRT", "INEA"})
  /\ amiga' = [amiga EXCEPT !.pc = "user"]
  /\ UNCHANGED <<rx, tx, pub, fpga, lance, main, net>>

\* A driver that stops the chip waits until it has
DriverStop ==
  /\ amiga.pc = "user"
  /\ Post({"STOP"})
  /\ amiga' = [amiga EXCEPT !.pc = "stop"]
  /\ UNCHANGED <<rx, tx, pub, fpga, lance, main, net>>

DriverStopped ==
  /\ amiga.pc = "stop" /\ "STOP" \in Visible /\ cmd = <<>>
  /\ amiga' = [amiga EXCEPT !.pc = "down"]
  /\ UNCHANGED <<rx, tx, cmd, pub, fpga, lance, main, net>>

\* A frame to send: the demand may reach Main before the OWN bit does
SendFrame(next) ==
  /\ amiga.pc = "user" /\ tx[amiga.tfill] = "free"
  /\ amiga' = [amiga EXCEPT !.pc = next]
  /\ UNCHANGED <<rx, pub, fpga, lance, main, net>>

GiveOwn == /\ tx' = [tx EXCEPT ![amiga.tfill] = "lance"]
           /\ UNCHANGED cmd
Demand == Post({"TDMD", "INEA"}) /\ UNCHANGED tx

SendOwnFirst == SendFrame("tdmd") /\ GiveOwn
SendDemandFirst == SendFrame("own") /\ Demand

SendRest ==
  /\ \/ amiga.pc = "tdmd" /\ Demand
     \/ amiga.pc = "own" /\ GiveOwn
  /\ amiga' = [amiga EXCEPT !.pc = "user", !.tfill = (@ + 1) % TxLen]
  /\ UNCHANGED <<rx, pub, fpga, lance, main, net>>

\* The interrupt server: it reads CSR0 ...
Interrupt ==
  /\ amiga.pc = "user" /\ fpga.line
  /\ amiga' = [amiga EXCEPT !.pc = "read"]
  /\ UNCHANGED <<rx, tx, cmd, pub, fpga, lance, main, net>>

ReadCsr0 ==
  /\ amiga.pc = "read"
  /\ LET v == Visible \cap Events IN
     amiga' = [amiga EXCEPT !.seen = v, !.pc = IF v = {} THEN "user" ELSE "ack"]
  /\ UNCHANGED <<rx, tx, cmd, pub, fpga, lance, main, net>>

\* ... acknowledges what it has seen ...
Acknowledge ==
  /\ amiga.pc = "ack"
  /\ Post(amiga.seen \cup {"INEA"})
  /\ amiga' = [amiga EXCEPT !.pc = "scan"]
  /\ UNCHANGED <<rx, tx, pub, fpga, lance, main, net>>

\* ... takes the frames received and gives their descriptors back ...
TakesFrames == amiga.pc = "scan" /\ "RINT" \in amiga.seen /\ rx[amiga.rpos] = "amiga"

TakeFrame ==
  /\ TakesFrames
  /\ rx' = [rx EXCEPT ![amiga.rpos] = "lance"]
  /\ amiga' = [amiga EXCEPT !.rpos = (@ + 1) % RxLen]
  /\ UNCHANGED <<tx, cmd, pub, fpga, lance, main, net>>

ScanEnds ==
  /\ amiga.pc = "scan" /\ ~ TakesFrames
  /\ amiga' = [amiga EXCEPT !.pc = "reclaim"]
  /\ UNCHANGED <<rx, tx, cmd, pub, fpga, lance, main, net>>

\* ... takes back the descriptors sent, and reads CSR0 again
Reclaim ==
  /\ amiga.pc = "reclaim"
  /\ IF "TINT" \in amiga.seen /\ tx[amiga.tpos] = "sent"
     THEN /\ tx' = [tx EXCEPT ![amiga.tpos] = "free"]
          /\ amiga' = [amiga EXCEPT !.tpos = (@ + 1) % TxLen]
     ELSE /\ amiga' = [amiga EXCEPT !.pc = "read", !.seen = {}]
          /\ UNCHANGED tx
  /\ UNCHANGED <<rx, cmd, pub, fpga, lance, main, net>>

Server == Interrupt \/ ReadCsr0 \/ Acknowledge \/ TakeFrame \/ ScanEnds \/ Reclaim
Driver == DriverInit \/ DriverStart \/ DriverStop \/ DriverStopped
            \/ SendOwnFirst \/ SendDemandFirst \/ SendRest

-----------------------------------------------------------------------------
\* A reset of the machine: a2065_start on a card that is up; the FPGA's side of
\* the mailbox and the 68k start over with it
CoreReset ==
  /\ At("rest")
  /\ lance' = Reset
  /\ cmd' = <<>>
  /\ pub' = [csr |-> {"STOP"}, of |-> 0, line |-> FALSE, rd |-> 0]
  /\ fpga' = [csr |-> {}, line |-> FALSE, rd |-> None, next |-> FALSE]
  /\ amiga' = [pc |-> "down", seen |-> {}, rpos |-> 0, tfill |-> 0, tpos |-> 0]
  /\ UNCHANGED <<rx, tx, main, net>>

Next == MainNext \/ SampleInt \/ SampleCsr \/ FrameArrives \/ Driver \/ Server \/ CoreReset

\* Main polls, the transmit timer runs out, the FPGA samples, the 68k runs its
\* code and is not outrun by the network for ever; what it sends, and when it
\* stops or resets, is its own choice
Fairness ==
  /\ WF_vars(MainNext) /\ SF_vars(TxPoll)
  /\ WF_vars(SampleInt \/ SampleCsr)
  /\ WF_vars(ReadCsr0 \/ Acknowledge \/ TakeFrame \/ Reclaim)
  /\ SF_vars(Interrupt) /\ SF_vars(ScanEnds)
  /\ WF_vars(DriverStart \/ DriverStopped \/ SendRest)

Spec == Init /\ [][Next]_vars /\ Fairness

-----------------------------------------------------------------------------
\* "The host must write CSR_SHADOW before INT_STATE" (minimig_a2065_ddr3.h):
\* the CSR0 the FPGA is about to take is not older than the index it takes it
\* for, or an acknowledged bit would come back.
ShadowCoversIndex == fpga.rd <= pub.of /\ pub.rd <= pub.of

\* A frame or a sent descriptor in the Amiga's hands has its interrupt: while no
\* scan for it is on the way, RINT (TINT) is set and no acknowledge still in the
\* CMD ring will clear it, however late acknowledges are applied.
WillClear(b) == \E i \in (lance.rd + 1) .. Len(cmd) : b \in cmd[i] /\ lance.ev[b] <= i - 1
Announced(b, raising) == main.pc = raising \/ (b \in lance.csr /\ ~ WillClear(b))

NoneForgotten ==
  amiga.pc \in {"user", "tdmd", "own"} /\ "STOP" \notin lance.csr /\ lance.init
    => /\ (rx[amiga.rpos] = "amiga" => Announced("RINT", "rxint"))
       /\ (tx[amiga.tpos] = "sent" => Announced("TINT", "txint"))

\* The rings keep moving: a frame handed to a running driver is taken, one the
\* driver has queued is sent and its descriptor comes back, whichever of OWN bit
\* and demand is first and however late an acknowledge is.
Running == amiga.pc \notin {"stop", "down"}
FramesMove ==
  /\ \A i \in Rx : (rx[i] = "amiga" /\ amiga.pc = "user") ~> (rx[i] = "lance" \/ ~ Running)
  /\ \A i \in Tx : (tx[i] = "lance" /\ amiga.pc = "user") ~> (tx[i] = "free" \/ ~ Running)
=============================================================================
