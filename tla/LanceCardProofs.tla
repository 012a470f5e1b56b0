--------------------------- MODULE LanceCardProofs ---------------------------
(***************************************************************************)
(* The A2065 card, proved for rings of any length, any batch and any       *)
(* number of CSR0 writes under way.                                        *)
(*                                                                         *)
(* What the FPGA samples is in order because what Main stores is           *)
(* (Indices), and an index stays within the CMD ring because a pass drains *)
(* no more than it counted (Pass).                                         *)
(*                                                                         *)
(* That no interrupt is forgotten needs the whole protocol.  The driver is *)
(* followed from the write of INIT to the chip having stopped (Phase):     *)
(* while it runs, no STOP or INIT is on its way, no copy of CSR0 is of a   *)
(* stopped chip, and so every event that is raised stays in CSR0 until an  *)
(* acknowledge that was written after it is drained.  What is left (Owed)  *)
(* is NoneForgotten with the interrupt server's steps counted in: between  *)
(* its acknowledge and the end of its scan it looks at the rings anyway.   *)
(***************************************************************************)
EXTENDS LanceCard, SequenceTheorems, WellFoundedInduction, TLAPS

\* The phases of the driver in which the chip runs
Up == {"user", "read", "ack", "scan", "reclaim", "tdmd", "own"}

\* Where the read index may be published: never before the CSR0 it belongs to
Indices ==
  /\ main.due \in {<<>>, Stores, <<"int">>}
  /\ main.due = <<"int">> => pub.of = lance.rd
  /\ fpga.rd <= pub.of /\ pub.rd <= pub.of /\ pub.of <= lance.rd

\* What is left of a pass
Pass ==
  /\ lance.rd + main.n <= Len(cmd)
  /\ main.pc = "drain" => main.n > 0
  /\ main.pc \notin {"drain", "tdmd"} /\ main.ret = "rest" => main.n = 0
  /\ main.ret = "tdmd" => main.pc \in {"tx", "txint"}

\* A stopped chip has no other bit, and an event is about to be raised on one
\* that runs
Alone(csr) == "STOP" \in csr => csr = {"STOP"}
Switched ==
  /\ Alone(lance.csr) /\ Alone(pub.csr) /\ Alone(fpga.csr)
  /\ main.pc = "rxint" => "RXON" \in lance.csr
  /\ main.pc = "txint" => "TXON" \in lance.csr

\* The chip is stopped and all of it knows
Down == Len(cmd) = 0 /\ "STOP" \in lance.csr /\ "STOP" \in pub.csr /\ "IDON" \notin fpga.csr

\* INIT waits in the CMD ring ...
Asked == /\ Len(cmd) = 1 /\ cmd[1] = {"INIT"} /\ lance.rd = 0
         /\ "STOP" \in lance.csr /\ "STOP" \in pub.csr /\ "IDON" \notin fpga.csr
\* ... or is through
Ready == /\ lance.rd = Len(cmd) /\ lance.init
         /\ lance.csr \cap {"STOP", "RXON", "TXON"} = {}
         /\ "IDON" \in fpga.csr => "STOP" \notin pub.csr

\* The chip runs, and nothing under way stops it
Runs == /\ lance.init /\ "STOP" \notin lance.csr \cup pub.csr \cup fpga.csr
        /\ \A i \in lance.rd + 1 .. Len(cmd) : {"STOP", "INIT"} \cap cmd[i] = {}

\* STOP, the last write, is under way; Main, the shadow and the FPGA learn of it in turn
Stops == /\ IF "STOP" \in lance.csr THEN lance.rd = Len(cmd)
            ELSE \A i \in lance.rd + 1 .. Len(cmd) - 1 : {"STOP", "INIT"} \cap cmd[i] = {}
         /\ "STOP" \in pub.csr => "STOP" \in lance.csr
         /\ "STOP" \in fpga.csr => "STOP" \in pub.csr

\* What the driver is doing is what the chip is ready for
Phase ==
  /\ amiga.pc = "down" => Down
  /\ amiga.pc = "init" => /\ Asked \/ Ready
                          /\ \A i \in Rx : rx[i] # "amiga"
                          /\ \A i \in Tx : tx[i] # "sent"
  /\ amiga.pc \in Up => Runs
  /\ amiga.pc = "stop" => Stops

\* No scan of the receive (transmit) ring is on its way in the interrupt server
RintOwed ==
  \/ amiga.pc \in {"user", "tdmd", "own", "read", "ack", "reclaim"}
  \/ amiga.pc = "scan" /\ "RINT" \notin amiga.seen
TintOwed ==
  \/ amiga.pc \in {"user", "tdmd", "own", "read", "ack"}
  \/ amiga.pc \in {"scan", "reclaim"} /\ "TINT" \notin amiga.seen

\* NoneForgotten, in the server too
Owed ==
  /\ RintOwed /\ rx[amiga.rpos] = "amiga" => Announced("RINT", "rxint")
  /\ TintOwed /\ tx[amiga.tpos] = "sent" => Announced("TINT", "txint")

IInv == TypeOK /\ Indices /\ Pass /\ Switched /\ Phase /\ Owed

-----------------------------------------------------------------------------
(* The constants, and numbers *)

\* What LanceAssumption says of the constants.
LEMMA Lengths ==
  /\ RxLen \in Nat /\ RxLen > 0 /\ TxLen \in Nat /\ TxLen > 0
  /\ Batch \in Nat /\ Batch > 0 /\ Socket \in Nat /\ Socket > 0 /\ Depth \in Nat /\ Depth > 0
  BY LanceAssumption

\* The next offset in a ring is one of the ring.
LEMMA Wraps == ASSUME NEW n \in Nat, n > 0, NEW i \in Int PROVE (i % n) \in 0 .. n - 1
  OBVIOUS

Less == {p \in Nat \X Nat : p[1] < p[2]}

\* A set of natural numbers that is not empty has a least element.
LEMMA Least ==
  ASSUME NEW T \in SUBSET Nat, T # {}
  PROVE  \E x \in T : \A y \in T : x <= y
<1>1. IsWellFoundedOn(Less, Nat)
  BY NatLessThanWellFounded DEF OpToRel, Less
<1>2. PICK x \in T : \A y \in T : ~ (<<y, x>> \in Less)
  BY <1>1, WFMin
<1>3. ASSUME NEW y \in T PROVE x <= y
  <2>1. x \in Nat /\ y \in Nat OBVIOUS
  <2>2. <<y, x>> \in Nat \X Nat /\ <<y, x>>[1] = y /\ <<y, x>>[2] = x BY <2>1
  <2>3. ~ (y < x) BY <1>2, <2>2 DEF Less
  <2> QED BY <2>1, <2>3
<1> QED BY <1>3

\* A remainder below the divisor is the number itself, and one turn less above it.
LEMMA Turns ==
  ASSUME NEW n \in Nat, NEW i \in 0 .. n - 1
  PROVE  (i % n) = i /\ ((i + n) % n) = i
  OBVIOUS

\* do_transmit finds a descriptor of the ring, and one that is ready, if there is any.
LEMMA NextTxIsReady ==
  ASSUME tx \in [Tx -> {"lance", "sent", "free"}], lance.toff \in Tx, TxReady # {}
  PROVE  NextTx \in TxReady /\ NextTx \in Tx
<1> DEFINE at(d) == (lance.toff + d) % TxLen
<1> DEFINE T == {d \in Tx : at(d) \in TxReady}
<1>1. TxReady \subseteq Tx
  BY DEF TxReady
<1>2. PICK i \in TxReady : TRUE
  OBVIOUS
<1>3. i \in Tx /\ i \in 0 .. TxLen - 1 /\ lance.toff \in 0 .. TxLen - 1
  BY <1>1 DEF Tx
<1>4. \E d \in Tx : at(d) = i
  <2>1. CASE lance.toff <= i
    <3>1. i - lance.toff \in Tx /\ lance.toff + (i - lance.toff) = i
      BY <1>3, <2>1, Lengths DEF Tx
    <3>2. at(i - lance.toff) = i
      BY <1>3, <3>1, Turns, Lengths
    <3> QED BY <3>1, <3>2
  <2>2. CASE lance.toff > i
    <3>1. (i + TxLen) - lance.toff \in Tx /\ lance.toff + ((i + TxLen) - lance.toff) = i + TxLen
      BY <1>3, <2>2, Lengths DEF Tx
    <3>2. at((i + TxLen) - lance.toff) = i
      BY <1>3, <3>1, Turns, Lengths
    <3> QED BY <3>1, <3>2
  <2> QED BY <2>1, <2>2, <1>3
<1>5. T # {} /\ T \subseteq Nat
  BY <1>4, <1>2 DEF Tx
<1>6. PICK k \in T : \A e \in T : k <= e
  BY <1>5, Least
<1>7. k \in Tx /\ at(k) \in TxReady /\ \A e \in 0 .. k - 1 : at(e) \notin TxReady
  <2>1. k \in 0 .. TxLen - 1
    BY DEF Tx
  <2>2. ASSUME NEW e \in 0 .. k - 1, at(e) \in TxReady PROVE FALSE
    <3>1. e \in Tx /\ e < k
      <4> HIDE DEF at, T
      <4> QED BY <2>1, Lengths DEF Tx
    <3>2. e \in T
      BY <3>1, <2>2
    <3>3. k <= e
      BY <3>2, <1>6
    <3> QED BY <3>1, <3>3, <2>1
  <2> QED BY <2>2
<1> DEFINE c == CHOOSE d \in Tx : at(d) \in TxReady /\ \A e \in 0 .. d - 1 : at(e) \notin TxReady
<1>8. c \in Tx /\ at(c) \in TxReady
  <2> HIDE DEF at
  <2> QED BY <1>7
<1>9. NextTx = at(c)
  BY DEF NextTx
<1> QED BY <1>8, <1>9, <1>1

-----------------------------------------------------------------------------
(* What chip_wput makes of CSR0 *)

LanceType == [csr : SUBSET Csr0, init : BOOLEAN, roff : Rx, toff : Tx, rd : Index,
              ev : [Events -> Index], handed : SUBSET Rx]
PubType == [csr : SUBSET Csr0, of : Index, line : BOOLEAN, rd : Index]
FpgaType == [csr : SUBSET Csr0, line : BOOLEAN, rd : Index \cup {None}, next : BOOLEAN]
MainType == [pc : {"rest", "drain", "drained", "tx", "txint", "tdmd", "raise",
                   "rx", "rxint", "txpoll"},
             ret : {"rest", "tdmd"}, n : Index, taken : 0 .. Batch,
             due : Seq({"csr", "int"})]
AmigaType == [pc : {"down", "init", "user", "read", "ack", "scan", "reclaim", "tdmd",
                    "own", "stop"},
              seen : SUBSET Events, rpos : Rx, tfill : Tx, tpos : Tx]
Words == SUBSET (Events \cup Control)

\* The offset 0 and the index 0 exist.
LEMMA Zeros == 0 \in Rx /\ 0 \in Tx /\ 0 \in Index
  BY Lengths DEF Rx, Tx, Index

\* An event that is marked keeps the others' indices.
LEMMA MarkType ==
  ASSUME NEW ev \in [Events -> Index], NEW bits, NEW idx \in Index
  PROVE  Mark(ev, bits, idx) \in [Events -> Index]
  BY DEF Mark

\* A write of CSR0 keeps the types and takes one entry.
LEMMA WrittenType ==
  ASSUME NEW l \in LanceType, NEW w \in Words, l.rd + 1 \in Index
  PROVE  Written(l, w) \in LanceType /\ Written(l, w).rd = l.rd + 1
<1> DEFINE old == l.csr
           c == (((old \ {"INEA"}) \cup (w \cap Control)) \ AckMask(l, w))
           inits == "INIT" \in c /\ "INIT" \notin old
           starts == "STRT" \in c /\ "STRT" \notin old /\ old \cap {"STOP", "INIT"} # {}
           on(cs) == (cs \ {"STOP"}) \cup {"RXON", "TXON"}
           fresh(cs) == [l EXCEPT !.csr = cs \cup {"IDON"}, !.init = TRUE, !.roff = 0,
                         !.toff = 0, !.handed = {}, !.ev = Mark(l.ev, {"IDON"}, l.rd + 1)]
           s == IF "STOP" \in c /\ "STOP" \notin old THEN [l EXCEPT !.csr = {"STOP"}]
                ELSE IF starts THEN IF inits THEN fresh(on(c)) ELSE [l EXCEPT !.csr = on(c)]
                ELSE IF inits /\ "STOP" \in old THEN fresh(c \ {"RXON", "TXON", "STOP"})
                ELSE [l EXCEPT !.csr = c]
           demand == "TDMD" \in s.csr /\ s.init /\ "TXON" \notin s.csr
<1>1. c \in SUBSET Csr0
  BY DEF LanceType, Csr0
<1>2. ASSUME NEW cs \in SUBSET Csr0 PROVE on(cs) \in SUBSET Csr0
  BY DEF Csr0
<1>3. ASSUME NEW cs \in SUBSET Csr0 PROVE fresh(cs) \in LanceType
  <2>1. cs \cup {"IDON"} \in SUBSET Csr0
    BY DEF Csr0, Events
  <2>2. Mark(l.ev, {"IDON"}, l.rd + 1) \in [Events -> Index]
    BY MarkType DEF LanceType
  <2> QED BY <2>1, <2>2, Zeros DEF LanceType
<1>4. ASSUME NEW cs \in SUBSET Csr0 PROVE [l EXCEPT !.csr = cs] \in LanceType
  BY DEF LanceType
<1>5. {"STOP"} \in SUBSET Csr0 /\ c \ {"RXON", "TXON", "STOP"} \in SUBSET Csr0
  BY <1>1 DEF Csr0, Control
<1>6. s \in LanceType
  <2> HIDE DEF c, inits, starts, on, fresh
  <2> QED BY <1>1, <1>2, <1>3, <1>4, <1>5
<1>7. Written(l, w) = [s EXCEPT !.csr = IF demand THEN on(@) ELSE @, !.rd = l.rd + 1]
  BY DEF Written
<1> HIDE DEF s
<1>8. s.csr \in SUBSET Csr0
  BY <1>6 DEF LanceType
<1>9. on(s.csr) \in SUBSET Csr0
  BY <1>8, <1>2
<1> HIDE DEF on, demand
<1> QED BY <1>6, <1>7, <1>8, <1>9 DEF LanceType

\* A chip that runs goes on running; an event that is set stays so unless the
\* entry acknowledges it and was written after it.
LEMMA WrittenRuns ==
  ASSUME NEW l \in LanceType, NEW w \in Words, "STOP" \notin l.csr,
         {"STOP", "INIT"} \cap w = {}
  PROVE  /\ "STOP" \notin Written(l, w).csr /\ Written(l, w).init = l.init
         /\ Written(l, w).ev = l.ev
         /\ \A b \in Events : b \in l.csr /\ b \notin AckMask(l, w) => b \in Written(l, w).csr
<1> DEFINE old == l.csr
           c == (((old \ {"INEA"}) \cup (w \cap Control)) \ AckMask(l, w))
           inits == "INIT" \in c /\ "INIT" \notin old
           starts == "STRT" \in c /\ "STRT" \notin old /\ old \cap {"STOP", "INIT"} # {}
           on(cs) == (cs \ {"STOP"}) \cup {"RXON", "TXON"}
           fresh(cs) == [l EXCEPT !.csr = cs \cup {"IDON"}, !.init = TRUE, !.roff = 0,
                         !.toff = 0, !.handed = {}, !.ev = Mark(l.ev, {"IDON"}, l.rd + 1)]
           s == IF "STOP" \in c /\ "STOP" \notin old THEN [l EXCEPT !.csr = {"STOP"}]
                ELSE IF starts THEN IF inits THEN fresh(on(c)) ELSE [l EXCEPT !.csr = on(c)]
                ELSE IF inits /\ "STOP" \in old THEN fresh(c \ {"RXON", "TXON", "STOP"})
                ELSE [l EXCEPT !.csr = c]
           demand == "TDMD" \in s.csr /\ s.init /\ "TXON" \notin s.csr
<1>1. "STOP" \notin c /\ ~inits /\ "STOP" \notin old
  OBVIOUS
<1>2. \A b \in Events : b \in old /\ b \notin AckMask(l, w) => b \in c
  BY DEF Events
<1>3. s = [l EXCEPT !.csr = IF starts THEN on(c) ELSE c]
  <2> HIDE DEF c, inits, starts, fresh, on, old
  <2> QED BY <1>1
<1> DEFINE d == IF starts THEN on(c) ELSE c
<1>4. "STOP" \notin d /\ \A b \in Events : b \in c => b \in d
  <2> HIDE DEF c, starts, old
  <2> QED BY <1>1 DEF Events
<1>5. d \in SUBSET Csr0
  BY DEF LanceType, Csr0
<1>6. s \in LanceType /\ s.csr = d /\ s.init = l.init /\ s.ev = l.ev
  <2>1. s = [l EXCEPT !.csr = d]
    BY <1>3
  <2> HIDE DEF d, s
  <2> QED BY <2>1, <1>5 DEF LanceType
<1>7. Written(l, w) = [s EXCEPT !.csr = IF demand THEN on(@) ELSE @, !.rd = l.rd + 1]
  BY DEF Written
<1> HIDE DEF s, d, demand
<1>8. /\ Written(l, w).csr = IF demand THEN on(s.csr) ELSE s.csr
      /\ Written(l, w).init = s.init /\ Written(l, w).ev = s.ev
  <2> HIDE DEF on
  <2> QED BY <1>6, <1>7 DEF LanceType
<1>9. "STOP" \notin on(s.csr) /\ \A b \in Events : b \in s.csr => b \in on(s.csr)
  BY DEF Events
<1> HIDE DEF on, c
<1>10. "STOP" \notin Written(l, w).csr
  BY <1>4, <1>6, <1>8, <1>9
<1>11. \A b \in Events : b \in d => b \in Written(l, w).csr
  BY <1>6, <1>8, <1>9
<1>12. \A b \in Events : b \in old /\ b \notin AckMask(l, w) => b \in d
  BY <1>2, <1>4
<1> QED BY <1>6, <1>8, <1>10, <1>11, <1>12

\* A write stops a chip that runs altogether, or not.
LEMMA WrittenStops ==
  ASSUME NEW l \in LanceType, NEW w \in Words, "STOP" \notin l.csr, l.rd + 1 \in Index
  PROVE  Alone(Written(l, w).csr)
<1> DEFINE old == l.csr
           c == (((old \ {"INEA"}) \cup (w \cap Control)) \ AckMask(l, w))
           inits == "INIT" \in c /\ "INIT" \notin old
           starts == "STRT" \in c /\ "STRT" \notin old /\ old \cap {"STOP", "INIT"} # {}
           on(cs) == (cs \ {"STOP"}) \cup {"RXON", "TXON"}
           fresh(cs) == [l EXCEPT !.csr = cs \cup {"IDON"}, !.init = TRUE, !.roff = 0,
                         !.toff = 0, !.handed = {}, !.ev = Mark(l.ev, {"IDON"}, l.rd + 1)]
           s == IF "STOP" \in c /\ "STOP" \notin old THEN [l EXCEPT !.csr = {"STOP"}]
                ELSE IF starts THEN IF inits THEN fresh(on(c)) ELSE [l EXCEPT !.csr = on(c)]
                ELSE IF inits /\ "STOP" \in old THEN fresh(c \ {"RXON", "TXON", "STOP"})
                ELSE [l EXCEPT !.csr = c]
           demand == "TDMD" \in s.csr /\ s.init /\ "TXON" \notin s.csr
<1>1. c \in SUBSET Csr0
  BY DEF LanceType, Csr0
<1>2. ASSUME NEW cs \in SUBSET Csr0 PROVE on(cs) \in SUBSET Csr0 /\ "STOP" \notin on(cs)
  BY DEF Csr0
<1>3. ASSUME NEW cs \in SUBSET Csr0
      PROVE  /\ fresh(cs) \in LanceType /\ fresh(cs).csr = cs \cup {"IDON"}
             /\ [l EXCEPT !.csr = cs] \in LanceType /\ [l EXCEPT !.csr = cs].csr = cs
  <2>1. cs \cup {"IDON"} \in SUBSET Csr0
    BY DEF Csr0, Events
  <2>2. Mark(l.ev, {"IDON"}, l.rd + 1) \in [Events -> Index]
    BY MarkType DEF LanceType
  <2> QED BY <2>1, <2>2, Zeros DEF LanceType
<1>4. {"STOP"} \in SUBSET Csr0
  BY DEF Csr0, Control
<1>5. s \in LanceType /\ Alone(s.csr)
  <2>1. CASE "STOP" \in c
    <3>1. s = [l EXCEPT !.csr = {"STOP"}]
      <4> HIDE DEF c, inits, starts, on, fresh
      <4> QED BY <2>1
    <3> QED BY <3>1, <1>3, <1>4 DEF Alone
  <2>2. CASE "STOP" \notin c /\ starts /\ inits
    <3>1. s = fresh(on(c))
      <4> HIDE DEF c, inits, starts, on, fresh
      <4> QED BY <2>2
    <3> HIDE DEF s, fresh, on, c
    <3>2. s \in LanceType /\ s.csr = on(c) \cup {"IDON"}
      BY <3>1, <1>1, <1>2, <1>3
    <3>3. "STOP" \notin s.csr
      BY <3>2, <1>1, <1>2
    <3> QED BY <3>2, <3>3 DEF Alone
  <2>3. CASE "STOP" \notin c /\ starts /\ ~inits
    <3>1. s = [l EXCEPT !.csr = on(c)]
      <4> HIDE DEF c, inits, starts, on, fresh
      <4> QED BY <2>3
    <3> HIDE DEF s, fresh, on, c
    <3>2. s \in LanceType /\ s.csr = on(c) /\ "STOP" \notin on(c)
      BY <3>1, <1>1, <1>2, <1>3
    <3> QED BY <3>2 DEF Alone
  <2>4. CASE "STOP" \notin c /\ ~starts
    <3>1. s = [l EXCEPT !.csr = c]
      <4> HIDE DEF c, inits, starts, on, fresh
      <4> QED BY <2>4
    <3> HIDE DEF s, fresh, on, c
    <3>2. s \in LanceType /\ s.csr = c
      BY <3>1, <1>1, <1>3
    <3> QED BY <3>2, <2>4 DEF Alone
  <2> QED BY <2>1, <2>2, <2>3, <2>4
<1>6. Written(l, w) = [s EXCEPT !.csr = IF demand THEN on(@) ELSE @, !.rd = l.rd + 1]
  BY DEF Written
<1> HIDE DEF s, demand, on
<1>7. Written(l, w).csr = IF demand THEN on(s.csr) ELSE s.csr
  BY <1>5, <1>6 DEF LanceType
<1>8. "STOP" \notin on(s.csr)
  BY <1>2, <1>5 DEF LanceType
<1> QED BY <1>5, <1>7, <1>8 DEF Alone

\* INIT on a stopped chip initialises it, and no more.
LEMMA WrittenInit ==
  ASSUME NEW l \in LanceType, l.csr = {"STOP"}, l.rd + 1 \in Index
  PROVE  Written(l, {"INIT"}).csr = {"INIT", "IDON"} /\ Written(l, {"INIT"}).init
<1> DEFINE old == l.csr
           c == (((old \ {"INEA"}) \cup ({"INIT"} \cap Control)) \ AckMask(l, {"INIT"}))
           inits == "INIT" \in c /\ "INIT" \notin old
           starts == "STRT" \in c /\ "STRT" \notin old /\ old \cap {"STOP", "INIT"} # {}
           on(cs) == (cs \ {"STOP"}) \cup {"RXON", "TXON"}
           fresh(cs) == [l EXCEPT !.csr = cs \cup {"IDON"}, !.init = TRUE, !.roff = 0,
                         !.toff = 0, !.handed = {}, !.ev = Mark(l.ev, {"IDON"}, l.rd + 1)]
           s == IF "STOP" \in c /\ "STOP" \notin old THEN [l EXCEPT !.csr = {"STOP"}]
                ELSE IF starts THEN IF inits THEN fresh(on(c)) ELSE [l EXCEPT !.csr = on(c)]
                ELSE IF inits /\ "STOP" \in old THEN fresh(c \ {"RXON", "TXON", "STOP"})
                ELSE [l EXCEPT !.csr = c]
           demand == "TDMD" \in s.csr /\ s.init /\ "TXON" \notin s.csr
<1>1. AckMask(l, {"INIT"}) = {}
  BY DEF AckMask, Events
<1>2. c = {"STOP", "INIT"}
  BY <1>1 DEF Control
<1>3. s = fresh(c \ {"RXON", "TXON", "STOP"})
  BY <1>2
<1>4. c \ {"RXON", "TXON", "STOP"} = {"INIT"} /\ {"INIT"} \cup {"IDON"} = {"INIT", "IDON"}
  BY <1>2
<1>5. s.csr = {"INIT", "IDON"} /\ s.init /\ DOMAIN s = DOMAIN l
  <2> HIDE DEF s, c
  <2> QED BY <1>3, <1>4 DEF LanceType
<1>6. Written(l, {"INIT"}) = [s EXCEPT !.csr = IF demand THEN on(@) ELSE @, !.rd = l.rd + 1]
  BY DEF Written
<1>7. ~demand
  BY <1>5
<1> HIDE DEF s, demand, on
<1> QED BY <1>5, <1>6, <1>7 DEF LanceType

-----------------------------------------------------------------------------
(* The types *)

Typed ==
  /\ rx \in [Rx -> {"lance", "amiga"}] /\ tx \in [Tx -> {"lance", "sent", "free"}]
  /\ cmd \in Seq(Words) /\ Len(cmd) <= Depth
  /\ pub \in PubType /\ fpga \in FpgaType /\ lance \in LanceType /\ main \in MainType
  /\ amiga \in AmigaType /\ net \in 0 .. Socket

\* TypeOK, a variable at a time.
LEMMA Types ==
  /\ TypeOK <=> Typed
  /\ TypeOK' <=> Typed'
<1> USE DEF Words, PubType, FpgaType, LanceType, MainType, AmigaType
<1>1. TypeOK <=> Typed
  BY DEF TypeOK, Typed
<1>2. TypeOK' <=> Typed'
  BY DEF TypeOK, Typed
<1> QED BY <1>1, <1>2

\* The stores that can be due.
LEMMA Dues ==
  /\ << >> \in Seq({"csr", "int"}) /\ Stores \in Seq({"csr", "int"})
  /\ Stores # << >> /\ Head(Stores) = "csr" /\ Tail(Stores) = <<"int">>
  /\ <<"int">> \in Seq({"csr", "int"}) /\ <<"int">> # << >>
  /\ Head(<<"int">>) = "int" /\ Tail(<<"int">>) = << >>
  /\ Stores # <<"int">>
<1>1. << >> \in Seq({"csr", "int"})
  OBVIOUS
<1>2. <<"int">> \in Seq({"csr", "int"}) /\ <<"int">> # << >> /\ Head(<<"int">>) = "int"
  OBVIOUS
<1>3. Tail(<<"int">>) = << >>
  OBVIOUS
<1>4. Stores \in Seq({"csr", "int"}) /\ Stores # << >> /\ Head(Stores) = "csr"
  BY DEF Stores
<1>5. Tail(Stores) = <<"int">>
  BY DEF Stores
<1>6. Stores # <<"int">>
  BY <1>2, <1>4
<1> QED BY <1>1, <1>2, <1>3, <1>4, <1>5, <1>6

\* rethink leaves both stores due, or none.
LEMMA RethinkIs == \A c : Rethink(c) \in {<< >>, Stores}
  BY DEF Rethink

\* The entry that is drained is one of the ring.
LEMMA Entry ==
  ASSUME TypeOK, Pass, At("drain")
  PROVE  /\ lance.rd + 1 \in 1 .. Len(cmd) /\ lance.rd + 1 \in Index
         /\ cmd[lance.rd + 1] \in Words
         /\ lance.rd \in Nat /\ Len(cmd) \in Nat /\ main.n \in Nat
<1>1. lance.rd \in Nat /\ main.n \in Nat /\ Len(cmd) \in Nat /\ cmd \in Seq(Words) /\ Len(cmd) <= Depth
  BY Types, Lengths DEF Typed, LanceType, MainType, Index
<1>2. lance.rd + 1 \in 1 .. Len(cmd)
  BY <1>1 DEF Pass, At
<1>3. cmd[lance.rd + 1] \in Words
  BY <1>1, <1>2
<1> QED BY <1>1, <1>2, <1>3, Lengths DEF Index

\* The index the FPGA has sampled is one that Main has published.
LEMMA Sampled ==
  ASSUME TypeOK, Indices, fpga.rd # None
  PROVE  /\ fpga.rd \in Nat /\ lance.rd \in Nat /\ Len(cmd) \in Nat /\ pub.of \in Nat /\ pub.rd \in Nat
         /\ fpga.rd <= lance.rd
<1>1. fpga.rd \in Nat /\ lance.rd \in Nat /\ Len(cmd) \in Nat /\ pub.of \in Nat /\ pub.rd \in Nat
  BY Types, Lengths DEF Typed, FpgaType, LanceType, PubType, Index
<1> QED BY <1>1 DEF Indices

\* The steps of Main keep the types.
LEMMA MainTypes ==
  ASSUME TypeOK, Indices, Pass, MainNext
  PROVE  TypeOK'
<1> USE Types DEF Typed
<1>1. CASE Store
  <2>1. main' \in MainType
    <3>1. Tail(main.due) \in Seq({"csr", "int"})
      BY <1>1, Dues DEF Store, Indices
    <3> QED BY <1>1, <3>1 DEF Store, MainType
  <2>2. pub' \in PubType
    BY <1>1 DEF Store, PubType, LanceType, Raised
  <2> QED BY <1>1, <2>1, <2>2 DEF Store
<1>2. CASE Poll
  <2>1. main' \in MainType
    <3>1. Len(cmd) - lance.rd \in Index
      BY <1>2, Lengths DEF Poll, LanceType, MainType, Index, Pass
    <3> QED BY <1>2, <3>1 DEF Poll, MainType
  <2> QED BY <1>2, <2>1 DEF Poll
<1>3. CASE Drain
  <2> DEFINE l == Written(lance, cmd[lance.rd + 1])
             sends == "TDMD" \in l.csr /\ l.init
             c == IF sends THEN l.csr ELSE l.csr \ {"TDMD"}
  <2>1. l \in LanceType
    BY <1>3, Entry, WrittenType DEF Drain
  <2>2. lance' = [l EXCEPT !.csr = c]
    BY <1>3 DEF Drain
  <2>3. lance' \in LanceType
    <3> HIDE DEF l
    <3> QED BY <2>1, <2>2 DEF LanceType
  <2>4. main' \in MainType
    <3>1. main.n - 1 \in Index
      <4>1. main.n > 0 /\ main.n \in 0 .. Depth
        BY <1>3 DEF Drain, Pass, At, MainType, Index
      <4> QED BY <4>1, Lengths DEF Index
    <3>2. (IF sends THEN <<>> ELSE Rethink(c)) \in Seq({"csr", "int"})
      <4> HIDE DEF l, sends, c
      <4> QED BY Dues, RethinkIs
    <3>3. main' = [main EXCEPT
             !.n = @ - 1,
             !.pc = IF sends THEN "tx" ELSE IF main.n = 1 THEN "drained" ELSE "drain",
             !.ret = IF sends THEN "tdmd" ELSE @,
             !.due = IF sends THEN <<>> ELSE Rethink(c)]
      BY <1>3 DEF Drain
    <3> HIDE DEF l, sends, c
    <3> QED BY <3>1, <3>2, <3>3 DEF MainType
  <2> QED BY <1>3, <2>3, <2>4 DEF Drain
<1>4. CASE Send
  <2>1. CASE TxReady = {}
    <3>1. main' \in MainType
      BY <1>4, <2>1, Dues DEF Send, MainType
    <3> QED BY <1>4, <2>1, <3>1 DEF Send
  <2>2. CASE TxReady # {}
    <3>1. NextTx \in Tx
      BY <2>2, NextTxIsReady DEF LanceType
    <3>2. main' \in MainType
      BY <1>4, <2>2 DEF Send, MainType
    <3>3. tx' \in [Tx -> {"lance", "sent", "free"}]
      BY <1>4, <2>2, <3>1 DEF Send
    <3>4. (NextTx + 1) % TxLen \in Tx
      BY <3>1, Wraps, Lengths DEF Tx
    <3>5. lance' \in LanceType
      BY <1>4, <2>2, <3>4 DEF Send, LanceType
    <3> QED BY <1>4, <2>2, <3>2, <3>3, <3>5 DEF Send
  <2> QED BY <2>1, <2>2
<1>5. CASE RaiseTint
  <2>1. Mark(lance.ev, {"TINT"}, Len(cmd)) \in [Events -> Index]
    BY MarkType, Lengths DEF LanceType, Index
  <2>2. lance.csr \cup {"TINT"} \in SUBSET Csr0
    BY DEF LanceType, Csr0, Events
  <2>3. lance' \in LanceType
    BY <1>5, <2>1, <2>2 DEF RaiseTint, LanceType
  <2>4. main' \in MainType
    BY <1>5, Dues, RethinkIs DEF RaiseTint, MainType
  <2> QED BY <1>5, <2>3, <2>4 DEF RaiseTint
<1>6. CASE Demanded
  <2>1. lance' \in LanceType
    BY <1>6 DEF Demanded, LanceType
  <2>2. main' \in MainType
    BY <1>6, Dues, RethinkIs DEF Demanded, MainType
  <2> QED BY <1>6, <2>1, <2>2 DEF Demanded
<1>7. CASE Drained
  <2>1. main' \in MainType
    BY <1>7, Dues DEF Drained, MainType
  <2> QED BY <1>7, <2>1 DEF Drained
<1>8. CASE RaiseAgain
  <2>1. CASE "RXON" \in lance.csr /\ "RINT" \notin lance.csr
    <3>1. Unserviced \in SUBSET Rx
      BY DEF Unserviced, LanceType
    <3>2. Mark(lance.ev, {"RINT"}, Len(cmd)) \in [Events -> Index]
      BY MarkType, Lengths DEF LanceType, Index
    <3>3. lance.csr \cup {"RINT"} \in SUBSET Csr0
      BY DEF LanceType, Csr0, Events
    <3>4. lance' \in LanceType
      BY <1>8, <2>1, <3>1, <3>2, <3>3 DEF RaiseAgain, LanceType
    <3>5. main' \in MainType
      BY <1>8, <2>1, Dues DEF RaiseAgain, MainType
    <3> QED BY <1>8, <3>4, <3>5 DEF RaiseAgain
  <2>2. CASE ~("RXON" \in lance.csr /\ "RINT" \notin lance.csr)
    <3>1. main' \in MainType /\ UNCHANGED lance
      BY <1>8, <2>2 DEF RaiseAgain, MainType
    <3> QED BY <1>8, <3>1 DEF RaiseAgain
  <2> QED BY <2>1, <2>2
<1>9. CASE BatchEnds
  <2>1. main' \in MainType
    <3>1. 0 \in 0 .. Batch
      BY Lengths
    <3> QED BY <1>9, <3>1, Dues DEF BatchEnds, MainType
  <2> QED BY <1>9, <2>1 DEF BatchEnds
<1>10. CASE Filter
  <2>1. main' \in MainType
    <3>1. main.taken + 1 \in 0 .. Batch
      <4>1. main.taken # Batch /\ main.taken \in 0 .. Batch
        BY <1>10 DEF Filter, BatchOver, MainType
      <4> QED BY <4>1, Lengths
    <3> QED BY <1>10, <3>1 DEF Filter, MainType
  <2>2. net' \in 0 .. Socket
    BY <1>10, Lengths DEF Filter, BatchOver
  <2> QED BY <1>10, <2>1, <2>2 DEF Filter
<1>11. CASE Deliver
  <2>1. main' \in MainType
    <3>1. main.taken + 1 \in 0 .. Batch
      <4>1. main.taken # Batch /\ main.taken \in 0 .. Batch
        BY <1>11 DEF Deliver, BatchOver, MainType
      <4> QED BY <4>1, Lengths
    <3> QED BY <1>11, <3>1 DEF Deliver, MainType
  <2>2. net' \in 0 .. Socket
    BY <1>11, Lengths DEF Deliver, BatchOver
  <2>3. (lance.roff + 1) % RxLen \in Rx
    BY Wraps, Lengths DEF Rx, LanceType
  <2>4. lance' \in LanceType
    BY <1>11, <2>3 DEF Deliver, LanceType
  <2>5. rx' \in [Rx -> {"lance", "amiga"}]
    BY <1>11 DEF Deliver, LanceType
  <2> QED BY <1>11, <2>1, <2>2, <2>4, <2>5 DEF Deliver
<1>12. CASE RaiseRint
  <2>1. Mark(lance.ev, {"RINT"}, Len(cmd)) \in [Events -> Index]
    BY MarkType, Lengths DEF LanceType, Index
  <2>2. lance.csr \cup {"RINT"} \in SUBSET Csr0
    BY DEF LanceType, Csr0, Events
  <2>3. lance' \in LanceType
    BY <1>12, <2>1, <2>2 DEF RaiseRint, LanceType
  <2>4. main' \in MainType
    BY <1>12 DEF RaiseRint, MainType
  <2> QED BY <1>12, <2>3, <2>4 DEF RaiseRint
<1>13. CASE TxPoll \/ TxPollNotDue
  <2>1. main' \in {[main EXCEPT !.pc = "tx"], [main EXCEPT !.pc = "rest"]}
    BY <1>13 DEF TxPoll, TxPollNotDue
  <2>2. main' \in MainType
    BY <2>1 DEF MainType
  <2> QED BY <1>13, <2>2 DEF TxPoll, TxPollNotDue
<1> QED BY <1>1, <1>2, <1>3, <1>4, <1>5, <1>6, <1>7, <1>8, <1>9, <1>10, <1>11, <1>12, <1>13
        DEF MainNext

\* What is appended to the CMD ring is in it.
LEMMA Posted ==
  ASSUME cmd \in Seq(Words), Len(cmd) <= Depth, NEW w \in Words, Post(w)
  PROVE  /\ cmd' \in Seq(Words) /\ Len(cmd') = Len(cmd) + 1 /\ Len(cmd') <= Depth
         /\ \A i \in 1 .. Len(cmd) : cmd'[i] = cmd[i]
         /\ cmd'[Len(cmd) + 1] = w
<1>1. /\ cmd' \in Seq(Words) /\ Len(cmd') = Len(cmd) + 1
      /\ \A i \in 1 .. Len(cmd) : cmd'[i] = cmd[i]
      /\ cmd'[Len(cmd) + 1] = w
  BY AppendProperties DEF Post
<1>2. Len(cmd) < Depth /\ Len(cmd) \in Nat
  BY DEF Post
<1> QED BY <1>1, <1>2, Lengths

\* The words the driver writes.
LEMMA DriverWords ==
  /\ {"INIT"} \in Words /\ {"IDON", "STRT", "INEA"} \in Words /\ {"STOP"} \in Words
  /\ {"TDMD", "INEA"} \in Words
  /\ \A s \in SUBSET Events : s \cup {"INEA"} \in Words
  BY DEF Words, Events, Control

\* What passes the sampled index leaves the ring.
LEMMA Passed ==
  ASSUME TypeOK, Indices, SampleCsr, lance.rd <= Len(cmd)
  PROVE  /\ cmd' \in Seq(Words) /\ Len(cmd') = Len(cmd) - fpga.rd /\ Len(cmd') \in Nat
         /\ \A i \in 1 .. Len(cmd') : cmd'[i] = cmd[i + fpga.rd]
         /\ lance.rd >= fpga.rd /\ fpga.rd \in Nat /\ Len(cmd) \in Nat
<1>1. fpga.rd \in Nat /\ fpga.rd <= Len(cmd) /\ Len(cmd) \in Nat /\ lance.rd \in Nat /\ fpga.rd <= lance.rd
  BY Sampled DEF SampleCsr
<1>2. cmd' = SubSeq(cmd, fpga.rd + 1, Len(cmd)) /\ cmd \in Seq(Words)
  BY Types DEF Typed, SampleCsr
<1>3. /\ cmd' \in Seq(Words) /\ Len(cmd') = Len(cmd) - fpga.rd
      /\ \A i \in 1 .. Len(cmd) - fpga.rd : cmd'[i] = cmd[fpga.rd + 1 + i - 1]
  BY <1>1, <1>2, SubSeqProperties
<1>4. \A i \in 1 .. Len(cmd) - fpga.rd : fpga.rd + 1 + i - 1 = i + fpga.rd
  BY <1>1
<1> QED BY <1>1, <1>3, <1>4

\* The steps of the FPGA, the network, the driver and a reset keep them.
LEMMA OtherTypes ==
  ASSUME TypeOK, Indices, Pass, SampleInt \/ SampleCsr \/ FrameArrives \/ Driver \/ Server \/ CoreReset
  PROVE  TypeOK'
<1> USE Types DEF Typed
<1>0. {0} \subseteq Index /\ 0 \in Rx /\ 0 \in Tx
  BY Zeros
<1>1. CASE SampleInt
  <2>1. fpga' \in FpgaType
    BY <1>1 DEF SampleInt, FpgaType, PubType
  <2> QED BY <1>1, <2>1 DEF SampleInt
<1>2. CASE SampleCsr
  <2> DEFINE k == fpga.rd
             back(i) == IF i < k THEN 0 ELSE i - k
  <2>0. lance.rd \in Nat /\ main.n \in Nat /\ lance.rd <= Len(cmd)
    BY DEF Pass, MainType, LanceType, Index
  <2>1. cmd' \in Seq(Words) /\ Len(cmd') <= Depth
    BY <1>2, <2>0, Passed, Lengths
  <2>2. k \in Nat
    BY <1>2, <2>0, Passed
  <2>3. \A i \in Index : back(i) \in Index
    BY <2>2, Lengths DEF Index
  <2>4. /\ fpga' = [csr |-> pub.csr, line |-> fpga.next, rd |-> None, next |-> FALSE]
        /\ pub' = [pub EXCEPT !.of = back(@), !.rd = back(@)]
        /\ lance' = [lance EXCEPT !.rd = back(@), !.ev = [b \in Events |-> back(@[b])]]
    BY <1>2 DEF SampleCsr
  <2> HIDE DEF back
  <2>5. fpga' \in FpgaType
    BY <2>4 DEF FpgaType, PubType
  <2>6. pub' \in PubType
    BY <2>3, <2>4 DEF PubType
  <2>7. lance' \in LanceType
    <3>1. [b \in Events |-> back(lance.ev[b])] \in [Events -> Index] /\ back(lance.rd) \in Index
      BY <2>3 DEF LanceType
    <3> QED BY <2>4, <3>1 DEF LanceType
  <2> QED BY <1>2, <2>1, <2>5, <2>6, <2>7 DEF SampleCsr
<1>3. CASE FrameArrives
  <2>1. net' \in 0 .. Socket
    BY <1>3, Lengths DEF FrameArrives
  <2> QED BY <1>3, <2>1 DEF FrameArrives
<1>4. CASE DriverInit
  <2>1. amiga' \in AmigaType
    BY <1>4, <1>0 DEF DriverInit, AmigaType
  <2>2. rx' \in [Rx -> {"lance", "amiga"}] /\ tx' \in [Tx -> {"lance", "sent", "free"}]
    BY <1>4 DEF DriverInit
  <2>3. cmd' \in Seq(Words) /\ Len(cmd') <= Depth
    BY <1>4, DriverWords, Posted DEF DriverInit
  <2> QED BY <1>4, <2>1, <2>2, <2>3 DEF DriverInit
<1>5. CASE DriverStart
  <2>1. amiga' \in AmigaType
    BY <1>5 DEF DriverStart, AmigaType
  <2>2. cmd' \in Seq(Words) /\ Len(cmd') <= Depth
    BY <1>5, DriverWords, Posted DEF DriverStart
  <2> QED BY <1>5, <2>1, <2>2 DEF DriverStart
<1>6. CASE DriverStop
  <2>1. amiga' \in AmigaType
    BY <1>6 DEF DriverStop, AmigaType
  <2>2. cmd' \in Seq(Words) /\ Len(cmd') <= Depth
    BY <1>6, DriverWords, Posted DEF DriverStop
  <2> QED BY <1>6, <2>1, <2>2 DEF DriverStop
<1>7. CASE DriverStopped
  <2>1. amiga' \in AmigaType
    BY <1>7 DEF DriverStopped, AmigaType
  <2> QED BY <1>7, <2>1 DEF DriverStopped
<1>8. CASE SendOwnFirst
  <2>1. amiga' \in AmigaType
    BY <1>8 DEF SendOwnFirst, SendFrame, AmigaType
  <2>2. tx' \in [Tx -> {"lance", "sent", "free"}]
    BY <1>8 DEF SendOwnFirst, GiveOwn, AmigaType
  <2> QED BY <1>8, <2>1, <2>2 DEF SendOwnFirst, SendFrame, GiveOwn
<1>9. CASE SendDemandFirst
  <2>1. amiga' \in AmigaType
    BY <1>9 DEF SendDemandFirst, SendFrame, AmigaType
  <2>2. cmd' \in Seq(Words) /\ Len(cmd') <= Depth
    BY <1>9, DriverWords, Posted DEF SendDemandFirst, Demand
  <2> QED BY <1>9, <2>1, <2>2 DEF SendDemandFirst, SendFrame, Demand
<1>10. CASE SendRest
  <2>0. (amiga.tfill + 1) % TxLen \in Tx
    BY Wraps, Lengths DEF Tx, AmigaType
  <2>1. amiga' \in AmigaType
    BY <1>10, <2>0 DEF SendRest, AmigaType
  <2>2. CASE Demand
    <3>1. cmd' \in Seq(Words) /\ Len(cmd') <= Depth
      BY <2>2, DriverWords, Posted DEF Demand
    <3> QED BY <1>10, <2>1, <2>2, <3>1 DEF SendRest, Demand
  <2>3. CASE GiveOwn
    <3>1. tx' \in [Tx -> {"lance", "sent", "free"}]
      BY <2>3 DEF GiveOwn, AmigaType
    <3> QED BY <1>10, <2>1, <2>3, <3>1 DEF SendRest, GiveOwn
  <2> QED BY <1>10, <2>2, <2>3 DEF SendRest
<1>11. CASE Interrupt
  <2>1. amiga' \in AmigaType
    BY <1>11 DEF Interrupt, AmigaType
  <2> QED BY <1>11, <2>1 DEF Interrupt
<1>12. CASE ReadCsr0
  <2>1. amiga' \in AmigaType
    BY <1>12 DEF ReadCsr0, AmigaType
  <2> QED BY <1>12, <2>1 DEF ReadCsr0
<1>13. CASE Acknowledge
  <2>1. amiga' \in AmigaType
    BY <1>13 DEF Acknowledge, AmigaType
  <2>2. amiga.seen \cup {"INEA"} \in Words
    BY DriverWords DEF AmigaType
  <2>3. cmd' \in Seq(Words) /\ Len(cmd') <= Depth
    BY <1>13, <2>2, Posted DEF Acknowledge
  <2> QED BY <1>13, <2>1, <2>3 DEF Acknowledge
<1>14. CASE TakeFrame
  <2>0. (amiga.rpos + 1) % RxLen \in Rx
    BY Wraps, Lengths DEF Rx, AmigaType
  <2>1. amiga' \in AmigaType
    BY <1>14, <2>0 DEF TakeFrame, AmigaType
  <2>2. rx' \in [Rx -> {"lance", "amiga"}]
    BY <1>14 DEF TakeFrame, AmigaType
  <2> QED BY <1>14, <2>1, <2>2 DEF TakeFrame
<1>15. CASE ScanEnds
  <2>1. amiga' \in AmigaType
    BY <1>15 DEF ScanEnds, AmigaType
  <2> QED BY <1>15, <2>1 DEF ScanEnds
<1>16. CASE Reclaim
  <2>0. (amiga.tpos + 1) % TxLen \in Tx
    BY Wraps, Lengths DEF Tx, AmigaType
  <2>1. amiga' \in AmigaType
    <3> DEFINE m == (amiga.tpos + 1) % TxLen
    <3>1. amiga' = [amiga EXCEPT !.tpos = m] \/ amiga' = [amiga EXCEPT !.pc = "read", !.seen = {}]
      BY <1>16 DEF Reclaim
    <3> HIDE DEF m
    <3>2. m \in Tx
      BY <2>0 DEF m
    <3> QED BY <3>1, <3>2 DEF AmigaType
  <2>2. tx' \in [Tx -> {"lance", "sent", "free"}]
    BY <1>16 DEF Reclaim, AmigaType
  <2> QED BY <1>16, <2>1, <2>2 DEF Reclaim
<1>17. CASE CoreReset
  <2>1. amiga' \in AmigaType
    BY <1>17, <1>0 DEF CoreReset, AmigaType
  <2>2. cmd' \in Seq(Words) /\ Len(cmd') <= Depth
    <3>1. cmd' = << >>
      BY <1>17 DEF CoreReset
    <3>2. << >> \in Seq(Words) /\ Len(<< >>) = 0
      BY EmptySeq
    <3> QED BY <3>1, <3>2, Lengths
  <2>3. {"STOP"} \in SUBSET Csr0
    BY DEF Csr0, Control
  <2>4. pub' \in PubType /\ fpga' \in FpgaType
    BY <1>17, <1>0, <2>3 DEF CoreReset, PubType, FpgaType
  <2>5. lance' \in LanceType
    BY <1>17, <1>0, <2>3 DEF CoreReset, Reset, LanceType
  <2> QED BY <1>17, <2>1, <2>2, <2>4, <2>5 DEF CoreReset
<1> QED BY <1>1, <1>2, <1>3, <1>4, <1>5, <1>6, <1>7, <1>8, <1>9, <1>10, <1>11, <1>12, <1>13,
           <1>14, <1>15, <1>16, <1>17 DEF Driver, Server

-----------------------------------------------------------------------------
(* Published indices and the entries of a pass *)

\* The indices that are compared are numbers.
LEMMA Numbers ==
  ASSUME TypeOK
  PROVE  /\ lance.rd \in Nat /\ pub.of \in Nat /\ pub.rd \in Nat /\ main.n \in Nat
         /\ fpga.rd \in Nat \cup {None} /\ Len(cmd) \in Nat
         /\ \A b \in Events : lance.ev[b] \in Nat
  BY Types, Lengths DEF Typed, LanceType, PubType, MainType, FpgaType, Index

\* No index is published before the CSR0 it belongs to, whatever step is taken.
LEMMA IndicesKept ==
  ASSUME TypeOK, Indices, Pass, Next
  PROVE  Indices'
<1> USE Numbers, Types DEF Typed, None
<1>1. CASE Store
  <2>1. /\ main.due # << >> /\ main' = [main EXCEPT !.due = Tail(@)]
        /\ pub' = IF Head(main.due) = "csr"
                  THEN [pub EXCEPT !.csr = lance.csr, !.of = lance.rd]
                  ELSE [pub EXCEPT !.line = Raised(lance.csr) /\ "INEA" \in lance.csr,
                                   !.rd = lance.rd]
        /\ UNCHANGED <<cmd, fpga, lance>>
    BY <1>1 DEF Store
  <2>2. main'.due = Tail(main.due)
    BY <2>1 DEF MainType
  <2>3. CASE main.due = Stores
    <3>1. pub'.of = lance.rd /\ pub'.rd = pub.rd
      BY <2>1, <2>3, Dues DEF PubType
    <3> QED BY <2>1, <2>2, <2>3, <3>1, Dues DEF Indices
  <2>4. CASE main.due = <<"int">>
    <3>1. pub'.of = pub.of /\ pub'.rd = lance.rd
      BY <2>1, <2>4, Dues DEF PubType
    <3> QED BY <2>1, <2>2, <2>4, <3>1, Dues DEF Indices
  <2> QED BY <2>1, <2>3, <2>4 DEF Indices
<1>2. CASE Drain
  <2>1. lance'.rd = lance.rd + 1
    <3>1. Written(lance, cmd[lance.rd + 1]) \in LanceType
          /\ Written(lance, cmd[lance.rd + 1]).rd = lance.rd + 1
      BY <1>2, Entry, WrittenType DEF Drain
    <3> QED BY <1>2, <3>1 DEF Drain, LanceType
  <2>2. main'.due \in {<< >>, Stores}
    BY <1>2, RethinkIs, ZenonT(30) DEF Drain, MainType
  <2>3. UNCHANGED <<pub, fpga>>
    BY <1>2 DEF Drain
  <2>4. main'.due # <<"int">>
    BY <2>2, Dues
  <2>5. fpga'.rd <= pub'.of /\ pub'.rd <= pub'.of /\ pub'.of <= lance'.rd
    BY <2>1, <2>3 DEF Indices
  <2> QED BY <2>2, <2>4, <2>5 DEF Indices
<1>3. CASE Poll \/ Drained \/ BatchEnds \/ Filter \/ Deliver \/ TxPoll \/ TxPollNotDue
  <2>1. main'.due \in {<< >>, Stores} /\ UNCHANGED <<pub, fpga>> /\ lance'.rd = lance.rd
    <3>1. CASE Poll BY <3>1 DEF Poll, At, MainType
    <3>2. CASE Drained BY <3>2 DEF Drained, At, MainType
    <3>3. CASE BatchEnds BY <3>3 DEF BatchEnds, At, MainType
    <3>4. CASE Filter BY <3>4 DEF Filter, At, MainType
    <3>5. CASE Deliver BY <3>5 DEF Deliver, At, MainType, LanceType
    <3>6. CASE TxPoll BY <3>6 DEF TxPoll, At, MainType
    <3>7. CASE TxPollNotDue BY <3>7 DEF TxPollNotDue, At, MainType
    <3> QED BY <1>3, <3>1, <3>2, <3>3, <3>4, <3>5, <3>6, <3>7
  <2> QED BY <2>1, Dues DEF Indices
<1>4. CASE Send \/ RaiseTint \/ Demanded \/ RaiseRint \/ RaiseAgain
  <2>1. main'.due \in {<< >>, Stores}
    <3>1. CASE Send BY <3>1 DEF Send, At, MainType
    <3>2. CASE RaiseTint BY <3>2, RethinkIs DEF RaiseTint, At, MainType
    <3>3. CASE Demanded BY <3>3, RethinkIs DEF Demanded, At, MainType
    <3>4. CASE RaiseRint BY <3>4 DEF RaiseRint, At, MainType
    <3>5. CASE RaiseAgain BY <3>5, ZenonT(30) DEF RaiseAgain, At, MainType
    <3> QED BY <1>4, <3>1, <3>2, <3>3, <3>4, <3>5
  <2>2. UNCHANGED <<pub, fpga>> /\ lance'.rd = lance.rd
    BY <1>4, ZenonT(30) DEF Send, RaiseTint, Demanded, RaiseRint, RaiseAgain, LanceType
  <2> QED BY <2>1, <2>2, Dues DEF Indices
<1>5. CASE SampleInt
  <2>1. fpga'.rd = pub.rd /\ UNCHANGED <<main, pub, lance>>
    BY <1>5 DEF SampleInt, FpgaType
  <2> QED BY <2>1 DEF Indices
<1>6. CASE SampleCsr
  <2> DEFINE back(i) == IF i < fpga.rd THEN 0 ELSE i - fpga.rd
  <2>1. /\ fpga'.rd = None /\ pub'.of = back(pub.of) /\ pub'.rd = back(pub.rd)
        /\ lance'.rd = back(lance.rd) /\ main' = main
    BY <1>6 DEF SampleCsr, FpgaType, PubType, LanceType
  <2>2. fpga.rd \in Nat
    BY <1>6 DEF SampleCsr
  <2>3. back(pub.rd) <= back(pub.of) /\ back(pub.of) <= back(lance.rd) /\ None <= back(pub.of)
    BY <2>2 DEF Indices, None
  <2> HIDE DEF back
  <2> QED BY <2>1, <2>3 DEF Indices
<1>7. CASE FrameArrives \/ Driver \/ Server
  <2>1. UNCHANGED <<pub, fpga, lance, main>>
    BY <1>7 DEF FrameArrives, Driver, Server, DriverInit, DriverStart, DriverStop, DriverStopped,
         SendOwnFirst, SendDemandFirst, SendFrame, SendRest, Interrupt, ReadCsr0, Acknowledge,
         TakeFrame, ScanEnds, Reclaim
  <2> QED BY <2>1 DEF Indices
<1>8. CASE CoreReset
  <2>1. /\ main' = main /\ main.due = << >>
        /\ pub'.of = 0 /\ pub'.rd = 0 /\ fpga'.rd = None /\ lance'.rd = 0
    BY <1>8 DEF CoreReset, Reset, At, LanceType
  <2> QED BY <2>1, Dues DEF Indices, None
<1> QED BY <1>1, <1>2, <1>3, <1>4, <1>5, <1>6, <1>7, <1>8 DEF Next, MainNext

\* A pass drains entries that are in the ring, whatever step is taken.
LEMMA PassKept ==
  ASSUME TypeOK, Indices, Pass, Next
  PROVE  Pass'
<1> USE Numbers, Types DEF Typed, None
<1>1. CASE Store
  <2>1. /\ main'.pc = main.pc /\ main'.ret = main.ret /\ main'.n = main.n
        /\ UNCHANGED <<cmd, lance>>
    BY <1>1 DEF Store, MainType
  <2> QED BY <2>1 DEF Pass
<1>2. CASE Poll
  <2>1. /\ main.pc = "rest" /\ main'.n = Len(cmd) - lance.rd /\ main'.ret = main.ret
        /\ main'.pc = IF Len(cmd) - lance.rd > 0 THEN "drain" ELSE "raise"
        /\ UNCHANGED <<cmd, lance>>
    BY <1>2 DEF Poll, At, MainType
  <2> QED BY <2>1 DEF Pass
<1>3. CASE Drain
  <2>1. /\ main.pc = "drain" /\ main'.n = main.n - 1 /\ cmd' = cmd
        /\ \/ main'.pc = "tx" /\ main'.ret = "tdmd"
           \/ main'.pc = (IF main.n = 1 THEN "drained" ELSE "drain") /\ main'.ret = main.ret
    <3> DEFINE l == Written(lance, cmd[lance.rd + 1])
               sends == "TDMD" \in l.csr /\ l.init
               due == IF sends THEN <<>> ELSE Rethink(IF sends THEN l.csr ELSE l.csr \ {"TDMD"})
    <3>1. /\ main' = [main EXCEPT
                !.n = @ - 1,
                !.pc = IF sends THEN "tx" ELSE IF main.n = 1 THEN "drained" ELSE "drain",
                !.ret = IF sends THEN "tdmd" ELSE @,
                !.due = due]
          /\ main.pc = "drain" /\ cmd' = cmd
      BY <1>3 DEF Drain, At
    <3> HIDE DEF l, sends, due
    <3> QED BY <3>1 DEF MainType
  <2>2. lance'.rd = lance.rd + 1
    <3>1. Written(lance, cmd[lance.rd + 1]) \in LanceType
          /\ Written(lance, cmd[lance.rd + 1]).rd = lance.rd + 1
      BY <1>3, Entry, WrittenType DEF Drain
    <3> QED BY <1>3, <3>1 DEF Drain, LanceType
  <2> QED BY <2>1, <2>2 DEF Pass
<1>4. CASE Send
  <2>1. /\ main.pc = "tx" /\ main'.n = main.n /\ cmd' = cmd /\ lance'.rd = lance.rd
        /\ \/ main'.pc = main.ret /\ main'.ret = "rest"
           \/ main'.pc = "txint" /\ main'.ret = main.ret
    <3>1. CASE TxReady = {} BY <1>4, <3>1, ZenonT(30) DEF Send, At, MainType
    <3>2. CASE TxReady # {} BY <1>4, <3>2 DEF Send, At, MainType, LanceType
    <3> QED BY <3>1, <3>2
  <2>2. main.ret \in {"rest", "tdmd"}
    BY DEF MainType
  <2> QED BY <2>1, <2>2 DEF Pass
<1>5. CASE RaiseTint
  <2>1. /\ main.pc = "txint" /\ main'.n = main.n /\ main'.ret = main.ret /\ main'.pc = "tx"
        /\ cmd' = cmd /\ lance'.rd = lance.rd
    BY <1>5 DEF RaiseTint, At, MainType, LanceType
  <2> QED BY <2>1 DEF Pass
<1>6. CASE Demanded
  <2>1. /\ main.pc = "tdmd" /\ main'.n = main.n /\ main'.ret = main.ret
        /\ main'.pc = IF main.n = 0 THEN "drained" ELSE "drain"
        /\ cmd' = cmd /\ lance'.rd = lance.rd
    BY <1>6 DEF Demanded, At, MainType, LanceType
  <2> QED BY <2>1 DEF Pass
<1>7. CASE Drained \/ RaiseAgain \/ BatchEnds \/ Filter \/ Deliver \/ RaiseRint \/ TxPoll \/ TxPollNotDue
  <2>1. /\ main.pc \in {"drained", "raise", "rx", "rxint", "txpoll"}
        /\ main'.pc \in {"raise", "rx", "rxint", "txpoll", "tx", "rest"}
        /\ main'.n = main.n /\ main'.ret = main.ret /\ cmd' = cmd /\ lance'.rd = lance.rd
    <3>1. CASE Drained BY <3>1 DEF Drained, At, MainType, LanceType
    <3>2. CASE RaiseAgain
      <4>1. CASE "RXON" \in lance.csr /\ "RINT" \notin lance.csr
        <5>1. lance'.rd = lance.rd /\ cmd' = cmd
          BY <3>2, <4>1 DEF RaiseAgain, LanceType
        <5>2. main.pc = "raise" /\ main'.pc = "rx" /\ main'.n = main.n /\ main'.ret = main.ret
          BY <3>2, <4>1, ZenonT(30) DEF RaiseAgain, At, MainType
        <5> QED BY <5>1, <5>2
      <4>2. CASE ~("RXON" \in lance.csr /\ "RINT" \notin lance.csr)
        BY <3>2, <4>2 DEF RaiseAgain, At, MainType
      <4> QED BY <4>1, <4>2
    <3>3. CASE BatchEnds BY <3>3 DEF BatchEnds, At, MainType, LanceType
    <3>4. CASE Filter BY <3>4 DEF Filter, At, MainType, LanceType
    <3>5. CASE Deliver BY <3>5 DEF Deliver, At, MainType, LanceType
    <3>6. CASE RaiseRint BY <3>6 DEF RaiseRint, At, MainType, LanceType
    <3>7. CASE TxPoll BY <3>7 DEF TxPoll, At, MainType, LanceType
    <3>8. CASE TxPollNotDue BY <3>8 DEF TxPollNotDue, At, MainType, LanceType
    <3> QED BY <1>7, <3>1, <3>2, <3>3, <3>4, <3>5, <3>6, <3>7, <3>8
  <2>2. main.ret \in {"rest", "tdmd"}
    BY DEF MainType
  <2> QED BY <2>1, <2>2 DEF Pass
<1>8. CASE SampleCsr
  <2>1. /\ fpga.rd \in Nat /\ fpga.rd <= lance.rd /\ Len(cmd') = Len(cmd) - fpga.rd
    BY <1>8, Passed DEF Pass
  <2>2. lance'.rd = lance.rd - fpga.rd /\ main' = main
    <3>1. lance'.rd = IF lance.rd < fpga.rd THEN 0 ELSE lance.rd - fpga.rd
      BY <1>8 DEF SampleCsr, LanceType
    <3> QED BY <1>8, <2>1, <3>1 DEF SampleCsr
  <2> QED BY <2>1, <2>2 DEF Pass
<1>9. CASE SampleInt \/ FrameArrives \/ Driver \/ Server
  <2>1. UNCHANGED <<lance, main>>
    BY <1>9 DEF SampleInt, FrameArrives, Driver, Server, DriverInit, DriverStart, DriverStop,
         DriverStopped, SendOwnFirst, SendDemandFirst, SendFrame, SendRest, Interrupt, ReadCsr0,
         Acknowledge, TakeFrame, ScanEnds, Reclaim
  <2>2. Len(cmd') >= Len(cmd) /\ Len(cmd') \in Nat
    <3>1. CASE UNCHANGED cmd
      BY <3>1
    <3>2. CASE \E w : Post(w)
      <4>1. PICK w : cmd' = Append(cmd, w)
        BY <3>2 DEF Post
      <4>2. Len(cmd') = Len(cmd) + 1
        BY <4>1
      <4> QED BY <4>2
    <3>3. UNCHANGED cmd \/ \E w : Post(w)
      BY <1>9 DEF SampleInt, FrameArrives, Driver, Server, DriverInit, DriverStart, DriverStop,
           DriverStopped, SendOwnFirst, SendDemandFirst, SendFrame, SendRest, GiveOwn, Demand,
           Interrupt, ReadCsr0, Acknowledge, TakeFrame, ScanEnds, Reclaim
    <3> QED BY <3>1, <3>2, <3>3
  <2> QED BY <2>1, <2>2 DEF Pass
<1>10. CASE CoreReset
  <2>1. main' = main /\ main.pc = "rest" /\ lance'.rd = 0 /\ cmd' = << >>
    BY <1>10 DEF CoreReset, Reset, At, LanceType
  <2>2. main.n = 0
    BY <2>1 DEF Pass, MainType
  <2>3. Len(cmd') = 0
    BY <2>1
  <2> QED BY <2>1, <2>2, <2>3 DEF Pass
<1> QED BY <1>1, <1>2, <1>3, <1>4, <1>5, <1>6, <1>7, <1>8, <1>9, <1>10 DEF Next, MainNext

-----------------------------------------------------------------------------
(* The chip, its copies of CSR0 and the phases of the driver *)

\* Only the write of INIT reaches a chip that is stopped.
LEMMA StoppedDrains ==
  ASSUME TypeOK, Pass, Switched, Phase, At("drain"), "STOP" \in lance.csr
  PROVE  /\ amiga.pc = "init" /\ Asked
         /\ cmd[lance.rd + 1] = {"INIT"} /\ lance.csr = {"STOP"}
<1>1. lance.rd < Len(cmd)
  BY Entry
<1>2. amiga.pc \in {"down", "init", "stop"} \cup Up
  BY Types DEF Typed, AmigaType, Up
<1>3. amiga.pc # "down"
  BY <1>1, Numbers DEF Phase, Down
<1>4. amiga.pc # "stop"
  BY <1>1, Numbers DEF Phase, Stops
<1>5. amiga.pc \notin Up
  BY DEF Phase, Runs
<1>6. amiga.pc = "init" /\ Asked
  BY <1>2, <1>3, <1>4, <1>5 DEF Phase, Ready
<1> QED BY <1>6 DEF Asked, Switched, Alone

\* What an entry that is drained does to the chip.
LEMMA DrainIs ==
  ASSUME TypeOK, Pass, Drain
  PROVE  LET l == Written(lance, cmd[lance.rd + 1])
         IN /\ At("drain")
            /\ l \in LanceType /\ lance'.rd = lance.rd + 1
            /\ lance'.csr \in {l.csr, l.csr \ {"TDMD"}}
            /\ lance'.init = l.init /\ lance'.ev = l.ev
            /\ lance.rd + 1 \in 1 .. Len(cmd) /\ lance.rd + 1 \in Index
            /\ cmd[lance.rd + 1] \in Words
            /\ main'.pc \notin {"txint", "rxint"}
            /\ UNCHANGED <<rx, tx, cmd, pub, fpga, amiga, net>>
<1> DEFINE l == Written(lance, cmd[lance.rd + 1])
           sends == "TDMD" \in l.csr /\ l.init
           c == IF sends THEN l.csr ELSE l.csr \ {"TDMD"}
<1>1. At("drain")
  BY DEF Drain
<1>2. l \in LanceType /\ l.rd = lance.rd + 1
  BY <1>1, Entry, WrittenType, Types DEF Typed
<1>3. /\ lance' = [l EXCEPT !.csr = c]
      /\ main' = [main EXCEPT
             !.n = @ - 1,
             !.pc = IF sends THEN "tx" ELSE IF main.n = 1 THEN "drained" ELSE "drain",
             !.ret = IF sends THEN "tdmd" ELSE @,
             !.due = IF sends THEN <<>> ELSE Rethink(c)]
      /\ UNCHANGED <<rx, tx, cmd, pub, fpga, amiga, net>>
  BY DEF Drain
<1>4. c \in {l.csr, l.csr \ {"TDMD"}}
  OBVIOUS
<1> HIDE DEF l, c, sends
<1>5. lance'.rd = lance.rd + 1 /\ lance'.csr = c /\ lance'.init = l.init /\ lance'.ev = l.ev
  BY <1>2, <1>3 DEF LanceType
<1>6. main'.pc \notin {"txint", "rxint"}
  BY <1>3, Types DEF Typed, MainType
<1>7. lance.rd + 1 \in 1 .. Len(cmd) /\ lance.rd + 1 \in Index /\ cmd[lance.rd + 1] \in Words
  BY <1>1, Entry
<1> QED BY <1>1, <1>2, <1>3, <1>4, <1>5, <1>6, <1>7 DEF l

\* A stopped chip stays quiet, and an event is raised on a chip that runs only.
LEMMA SwitchedKept ==
  ASSUME TypeOK, Pass, Switched, Phase, Next
  PROVE  Switched'
<1> USE Types DEF Typed
<1>1. CASE Store
  <2>1. pub'.csr \in {pub.csr, lance.csr} /\ main'.pc = main.pc /\ UNCHANGED <<lance, fpga>>
    BY <1>1 DEF Store, PubType, MainType
  <2> QED BY <2>1 DEF Switched, Alone
<1>2. CASE Drain
  <2> DEFINE l == Written(lance, cmd[lance.rd + 1])
  <2>1. /\ lance'.csr \in {l.csr, l.csr \ {"TDMD"}} /\ main'.pc \notin {"txint", "rxint"}
        /\ UNCHANGED <<pub, fpga>>
    BY <1>2, DrainIs
  <2>2. Alone(l.csr)
    <3>1. CASE "STOP" \in lance.csr
      <4>1. cmd[lance.rd + 1] = {"INIT"} /\ lance.csr = {"STOP"} /\ lance.rd + 1 \in Index
        BY <1>2, <3>1, DrainIs, StoppedDrains
      <4> QED BY <4>1, WrittenInit DEF Alone
    <3>2. CASE "STOP" \notin lance.csr
      BY <1>2, <3>2, DrainIs, WrittenStops
    <3> QED BY <3>1, <3>2
  <2> HIDE DEF l
  <2>3. Alone(lance'.csr)
    BY <2>1, <2>2 DEF Alone
  <2> QED BY <2>1, <2>3 DEF Switched, Alone
<1>3. CASE Send
  <2>1. CASE TxReady = {}
    BY <1>3, <2>1, ZenonT(30) DEF Send, MainType, Switched, Alone
  <2>2. CASE TxReady # {}
    <3>1. "TXON" \in lance.csr
      BY <2>2 DEF TxReady
    <3>2. lance'.csr = lance.csr /\ main'.pc = "txint" /\ UNCHANGED <<pub, fpga>>
      BY <1>3, <2>2 DEF Send, MainType, LanceType
    <3> QED BY <3>1, <3>2 DEF Switched, Alone
  <2> QED BY <2>1, <2>2
<1>4. CASE RaiseTint
  <2>1. "STOP" \notin lance.csr
    BY <1>4 DEF RaiseTint, At, Switched, Alone
  <2>2. lance'.csr = lance.csr \cup {"TINT"} /\ main'.pc = "tx" /\ UNCHANGED <<pub, fpga>>
    BY <1>4 DEF RaiseTint, MainType, LanceType
  <2> QED BY <2>1, <2>2 DEF Switched, Alone
<1>5. CASE Demanded
  <2>1. /\ lance'.csr = lance.csr \ {"TDMD"} /\ main'.pc \in {"drained", "drain"}
        /\ UNCHANGED <<pub, fpga>>
    BY <1>5 DEF Demanded, MainType, LanceType
  <2> QED BY <2>1 DEF Switched, Alone
<1>6. CASE RaiseAgain
  <2>1. CASE "RXON" \in lance.csr /\ "RINT" \notin lance.csr
    <3>1. "STOP" \notin lance.csr
      BY <2>1 DEF Switched, Alone
    <3>2. lance'.csr \in {lance.csr, lance.csr \cup {"RINT"}} /\ UNCHANGED <<pub, fpga>>
      BY <1>6, <2>1 DEF RaiseAgain, LanceType
    <3>3. main'.pc = "rx"
      BY <1>6, <2>1 DEF RaiseAgain, MainType
    <3> QED BY <3>1, <3>2, <3>3 DEF Switched, Alone
  <2>2. CASE ~("RXON" \in lance.csr /\ "RINT" \notin lance.csr)
    <3>1. main'.pc = "rx" /\ UNCHANGED <<lance, pub, fpga>>
      BY <1>6, <2>2 DEF RaiseAgain, MainType
    <3> QED BY <3>1 DEF Switched, Alone
  <2> QED BY <2>1, <2>2
<1>7. CASE Deliver
  <2>1. "RXON" \in lance.csr
    BY <1>7 DEF Deliver, BatchOver, HasSpace
  <2>2. lance'.csr = lance.csr /\ main'.pc = "rxint" /\ UNCHANGED <<pub, fpga>>
    BY <1>7 DEF Deliver, MainType, LanceType
  <2> QED BY <2>1, <2>2 DEF Switched, Alone
<1>8. CASE RaiseRint
  <2>1. "STOP" \notin lance.csr
    BY <1>8 DEF RaiseRint, At, Switched, Alone
  <2>2. lance'.csr = lance.csr \cup {"RINT"} /\ main'.pc = "rx" /\ UNCHANGED <<pub, fpga>>
    BY <1>8 DEF RaiseRint, MainType, LanceType
  <2> QED BY <2>1, <2>2 DEF Switched, Alone
<1>9. CASE Poll \/ Drained \/ BatchEnds \/ Filter \/ TxPoll \/ TxPollNotDue
  <2>1. UNCHANGED <<lance, pub, fpga>>
    BY <1>9 DEF Poll, Drained, BatchEnds, Filter, TxPoll, TxPollNotDue
  <2>2. main'.pc = main.pc \/ main'.pc \notin {"txint", "rxint"}
    <3>1. CASE Poll BY <3>1 DEF Poll, MainType
    <3>2. CASE Drained BY <3>2 DEF Drained, MainType
    <3>3. CASE BatchEnds BY <3>3 DEF BatchEnds, MainType
    <3>4. CASE Filter BY <3>4 DEF Filter, MainType
    <3>5. CASE TxPoll BY <3>5 DEF TxPoll, MainType
    <3>6. CASE TxPollNotDue BY <3>6 DEF TxPollNotDue, MainType
    <3> QED BY <1>9, <3>1, <3>2, <3>3, <3>4, <3>5, <3>6
  <2> QED BY <2>1, <2>2 DEF Switched, Alone
<1>10. CASE SampleInt \/ FrameArrives \/ Driver \/ Server
  <2>1. UNCHANGED <<lance, pub, main>> /\ fpga'.csr = fpga.csr
    BY <1>10, ZenonT(30) DEF SampleInt, FrameArrives, Driver, Server, DriverInit, DriverStart, DriverStop,
         DriverStopped, SendOwnFirst, SendDemandFirst, SendFrame, SendRest, Interrupt, ReadCsr0,
         Acknowledge, TakeFrame, ScanEnds, Reclaim, FpgaType
  <2> QED BY <2>1 DEF Switched, Alone
<1>11. CASE SampleCsr
  <2>1. lance'.csr = lance.csr /\ pub'.csr = pub.csr /\ fpga'.csr = pub.csr /\ main' = main
    BY <1>11 DEF SampleCsr, LanceType, PubType
  <2> QED BY <2>1 DEF Switched, Alone
<1>12. CASE CoreReset
  <2>1. /\ lance'.csr = {"STOP"} /\ pub'.csr = {"STOP"} /\ fpga'.csr = {}
        /\ main'.pc = "rest"
    BY <1>12 DEF CoreReset, Reset, At, LanceType
  <2> QED BY <2>1 DEF Switched, Alone
<1> QED BY <1>1, <1>2, <1>3, <1>4, <1>5, <1>6, <1>7, <1>8, <1>9, <1>10, <1>11, <1>12 DEF Next, MainNext

\* A step of Main or the FPGA that stores or samples no CSR0, drains nothing and
\* hands a descriptor over on a chip that runs only, keeps the phase.
LEMMA PhaseFrame ==
  ASSUME Phase,
         lance'.csr \cap {"STOP", "RXON", "TXON"} = lance.csr \cap {"STOP", "RXON", "TXON"},
         lance'.init = lance.init, lance'.rd = lance.rd,
         pub'.csr = pub.csr, fpga'.csr = fpga.csr, UNCHANGED <<cmd, amiga>>,
         UNCHANGED rx \/ "RXON" \in lance.csr, UNCHANGED tx \/ "TXON" \in lance.csr,
         Switched
  PROVE  Phase'
<1>1. /\ "STOP" \in lance'.csr <=> "STOP" \in lance.csr
      /\ "RXON" \in lance'.csr <=> "RXON" \in lance.csr
      /\ "TXON" \in lance'.csr <=> "TXON" \in lance.csr
  OBVIOUS
<1>2. amiga.pc = "down" => Down'
  BY <1>1 DEF Phase, Down
<1>3. amiga.pc = "init" => /\ Asked' \/ Ready'
                           /\ \A i \in Rx : rx'[i] # "amiga"
                           /\ \A i \in Tx : tx'[i] # "sent"
  <2> SUFFICES ASSUME amiga.pc = "init"
               PROVE  (Asked' \/ Ready') /\ "RXON" \notin lance.csr /\ "TXON" \notin lance.csr
    BY DEF Phase
  <2>1. CASE Asked
    <3>1. Asked'
      BY <2>1, <1>1 DEF Asked
    <3>2. lance.csr = {"STOP"}
      BY <2>1 DEF Asked, Switched, Alone
    <3> QED BY <3>1, <3>2
  <2>2. CASE Ready
    <3>1. Ready'
      BY <2>2, <1>1 DEF Ready
    <3> QED BY <2>2, <3>1 DEF Ready
  <2> QED BY <2>1, <2>2 DEF Phase
<1>4. amiga.pc \in Up => Runs'
  BY <1>1 DEF Phase, Runs
<1>5. amiga.pc = "stop" => Stops'
  BY <1>1 DEF Phase, Stops
<1> QED BY <1>2, <1>3, <1>4, <1>5 DEF Phase

\* A write that neither stops nor initialises keeps a running chip's phase.
LEMMA RunsPosted ==
  ASSUME TypeOK, Runs, NEW w \in Words, {"STOP", "INIT"} \cap w = {}, Post(w),
         UNCHANGED <<lance, pub, fpga>>
  PROVE  Runs'
<1>1. /\ Len(cmd') = Len(cmd) + 1 /\ cmd'[Len(cmd) + 1] = w
      /\ \A i \in 1 .. Len(cmd) : cmd'[i] = cmd[i]
  BY Posted, Types DEF Typed
<1>2. ASSUME NEW i \in lance.rd + 1 .. Len(cmd')
      PROVE  {"STOP", "INIT"} \cap cmd'[i] = {}
  <2>1. CASE i = Len(cmd) + 1
    BY <2>1, <1>1
  <2>2. CASE i # Len(cmd) + 1
    <3>1. i \in lance.rd + 1 .. Len(cmd) /\ i \in 1 .. Len(cmd)
      BY <1>1, <2>2, Numbers
    <3> QED BY <1>1, <3>1 DEF Runs
  <2> QED BY <2>1, <2>2
<1> QED BY <1>2 DEF Runs

\* The phases follow the chip through every step of Main.
LEMMA PhaseMain ==
  ASSUME TypeOK, Indices, Pass, Switched, Phase, MainNext
  PROVE  Phase'
<1> USE Types DEF Typed
<1>1. CASE Store
  <2>1. /\ pub'.csr \in {pub.csr, lance.csr}
        /\ UNCHANGED <<rx, tx, cmd, fpga, lance, amiga>>
    BY <1>1 DEF Store, PubType
  <2>2. amiga.pc = "down" => Down'
    BY <2>1 DEF Phase, Down
  <2>3. amiga.pc = "init" => Asked' \/ Ready'
    BY <2>1 DEF Phase, Asked, Ready
  <2>4. amiga.pc \in Up => Runs'
    BY <2>1 DEF Phase, Runs
  <2>5. amiga.pc = "stop" => Stops'
    BY <2>1 DEF Phase, Stops
  <2> QED BY <2>1, <2>2, <2>3, <2>4, <2>5 DEF Phase
<1>2. CASE Drain
  <2> DEFINE w == cmd[lance.rd + 1]
             l == Written(lance, w)
  <2>1. /\ At("drain") /\ l \in LanceType /\ lance'.rd = lance.rd + 1
        /\ lance'.csr \in {l.csr, l.csr \ {"TDMD"}} /\ lance'.init = l.init
        /\ lance.rd + 1 \in 1 .. Len(cmd) /\ lance.rd + 1 \in Index /\ w \in Words
        /\ UNCHANGED <<rx, tx, cmd, pub, fpga, amiga>>
    BY <1>2, DrainIs
  <2>2. lance.rd \in Nat /\ Len(cmd) \in Nat
    BY Numbers
  <2> HIDE DEF l
  <2>3. CASE "STOP" \in lance.csr
    <3>1. amiga.pc = "init" /\ Asked /\ w = {"INIT"} /\ lance.csr = {"STOP"}
      BY <2>1, <2>3, StoppedDrains
    <3>2. l.csr = {"INIT", "IDON"} /\ l.init
      <4>1. Written(lance, {"INIT"}).csr = {"INIT", "IDON"} /\ Written(lance, {"INIT"}).init
        BY <2>1, <3>1, WrittenInit
      <4> QED BY <3>1, <4>1 DEF l
    <3>3. lance'.csr \cap {"STOP", "RXON", "TXON"} = {} /\ lance'.init /\ lance'.rd = Len(cmd')
      BY <2>1, <2>2, <3>1, <3>2 DEF Asked
    <3>4. Ready'
      BY <2>1, <3>1, <3>3 DEF Ready, Asked
    <3> QED BY <2>1, <3>1, <3>4 DEF Phase, Up
  <2>4. CASE "STOP" \notin lance.csr
    <3>1. amiga.pc \notin {"down", "init"}
      BY <2>1, <2>2, <2>4 DEF Phase, Down, Asked, Ready
    <3>2. amiga.pc \in Up => Runs'
      <4> SUFFICES ASSUME Runs PROVE Runs'
        BY <2>1 DEF Phase
      <4>1. {"STOP", "INIT"} \cap w = {}
        BY <2>1, <2>2 DEF Runs
      <4>2. "STOP" \notin l.csr /\ l.init
        BY <2>1, <2>4, <4>1, WrittenRuns DEF Runs, l
      <4>3. lance'.init /\ "STOP" \notin lance'.csr
        BY <2>1, <4>2
      <4>4. \A i \in lance'.rd + 1 .. Len(cmd') : {"STOP", "INIT"} \cap cmd'[i] = {}
        BY <2>1, <2>2, SMTT(20) DEF Runs
      <4> QED BY <2>1, <4>3, <4>4 DEF Runs
    <3>3. amiga.pc = "stop" => Stops'
      <4> SUFFICES ASSUME Stops PROVE Stops'
        BY <2>1 DEF Phase
      <4>1. "STOP" \notin pub.csr /\ "STOP" \notin fpga.csr
        BY <2>4 DEF Stops
      <4>2. CASE lance.rd + 1 = Len(cmd)
        <5>1. lance'.rd = Len(cmd')
          BY <2>1, <4>2
        <5>2. \A i \in lance'.rd + 1 .. Len(cmd') - 1 : {"STOP", "INIT"} \cap cmd'[i] = {}
          BY <5>1, <2>1, <2>2
        <5> QED BY <2>1, <4>1, <5>1, <5>2 DEF Stops
      <4>3. CASE lance.rd + 1 # Len(cmd)
        <5>1. {"STOP", "INIT"} \cap w = {}
          BY <2>1, <2>2, <2>4, <4>3, SMTT(20) DEF Stops
        <5>2. "STOP" \notin l.csr
          BY <2>1, <2>4, <5>1, WrittenRuns DEF l
        <5>3. "STOP" \notin lance'.csr
          BY <2>1, <5>2
        <5>4. \A i \in lance'.rd + 1 .. Len(cmd') - 1 : {"STOP", "INIT"} \cap cmd'[i] = {}
          BY <2>1, <2>2, <2>4 DEF Stops
        <5> QED BY <2>1, <4>1, <5>3, <5>4 DEF Stops
      <4> QED BY <4>2, <4>3
    <3> QED BY <2>1, <3>1, <3>2, <3>3 DEF Phase
  <2> QED BY <2>3, <2>4
<1>3. CASE Send
  <2>1. /\ lance'.csr = lance.csr /\ lance'.init = lance.init /\ lance'.rd = lance.rd
        /\ UNCHANGED <<rx, cmd, pub, fpga, amiga>>
        /\ UNCHANGED tx \/ "TXON" \in lance.csr
    <3>1. CASE TxReady = {}
      BY <1>3, <3>1 DEF Send
    <3>2. CASE TxReady # {}
      BY <1>3, <3>2 DEF Send, TxReady, LanceType
    <3> QED BY <3>1, <3>2
  <2> QED BY <2>1, PhaseFrame
<1>4. CASE RaiseTint
  <2>1. /\ lance'.csr = lance.csr \cup {"TINT"} /\ lance'.init = lance.init /\ lance'.rd = lance.rd
        /\ UNCHANGED <<rx, tx, cmd, pub, fpga, amiga>>
    BY <1>4 DEF RaiseTint, LanceType
  <2> QED BY <2>1, PhaseFrame
<1>5. CASE Demanded
  <2>1. /\ lance'.csr = lance.csr \ {"TDMD"} /\ lance'.init = lance.init /\ lance'.rd = lance.rd
        /\ UNCHANGED <<rx, tx, cmd, pub, fpga, amiga>>
    BY <1>5 DEF Demanded, LanceType
  <2> QED BY <2>1, PhaseFrame
<1>6. CASE RaiseAgain
  <2>1. /\ lance'.csr \in {lance.csr, lance.csr \cup {"RINT"}}
        /\ lance'.init = lance.init /\ lance'.rd = lance.rd
    <3>1. CASE "RXON" \in lance.csr /\ "RINT" \notin lance.csr
      <4> DEFINE c == IF Unserviced # {} THEN lance.csr \cup {"RINT"} ELSE lance.csr
                 e == IF Unserviced # {} THEN Mark(lance.ev, {"RINT"}, Len(cmd)) ELSE lance.ev
      <4>1. lance' = [lance EXCEPT !.handed = Unserviced, !.csr = c, !.ev = e]
        BY <1>6, <3>1 DEF RaiseAgain
      <4>2. c \in {lance.csr, lance.csr \cup {"RINT"}}
        OBVIOUS
      <4> HIDE DEF c, e
      <4>3. lance'.csr = c /\ lance'.init = lance.init /\ lance'.rd = lance.rd
        BY <4>1 DEF LanceType
      <4> QED BY <4>2, <4>3
    <3>2. CASE ~("RXON" \in lance.csr /\ "RINT" \notin lance.csr)
      BY <1>6, <3>2 DEF RaiseAgain
    <3> QED BY <3>1, <3>2
  <2>2. UNCHANGED <<rx, tx, cmd, pub, fpga, amiga>>
    BY <1>6 DEF RaiseAgain
  <2> QED BY <2>1, <2>2, PhaseFrame
<1>7. CASE Deliver
  <2>1. "RXON" \in lance.csr
    BY <1>7 DEF Deliver, BatchOver, HasSpace
  <2>2. /\ lance'.csr = lance.csr /\ lance'.init = lance.init /\ lance'.rd = lance.rd
        /\ UNCHANGED <<tx, cmd, pub, fpga, amiga>>
    BY <1>7 DEF Deliver, LanceType
  <2> QED BY <2>1, <2>2, PhaseFrame
<1>8. CASE RaiseRint
  <2>1. /\ lance'.csr = lance.csr \cup {"RINT"} /\ lance'.init = lance.init /\ lance'.rd = lance.rd
        /\ UNCHANGED <<rx, tx, cmd, pub, fpga, amiga>>
    BY <1>8 DEF RaiseRint, LanceType
  <2> QED BY <2>1, PhaseFrame
<1>9. CASE Poll \/ Drained \/ BatchEnds \/ Filter \/ TxPoll \/ TxPollNotDue
  <2>1. UNCHANGED <<rx, tx, cmd, pub, fpga, lance, amiga>>
    BY <1>9 DEF Poll, Drained, BatchEnds, Filter, TxPoll, TxPollNotDue
  <2> QED BY <2>1, PhaseFrame
<1> QED BY <1>1, <1>2, <1>3, <1>4, <1>5, <1>6, <1>7, <1>8, <1>9 DEF MainNext

\* ... of the FPGA and the network ...
LEMMA PhaseFpga ==
  ASSUME TypeOK, Indices, Pass, Switched, Phase, SampleInt \/ SampleCsr \/ FrameArrives
  PROVE  Phase'
<1> USE Types DEF Typed
<1>1. CASE SampleInt \/ FrameArrives
  <2>1. UNCHANGED <<rx, tx, cmd, pub, lance, amiga>> /\ fpga'.csr = fpga.csr
    BY <1>1, ZenonT(30) DEF SampleInt, FrameArrives, FpgaType
  <2> QED BY <2>1, PhaseFrame
<1>2. CASE SampleCsr
  <2> DEFINE k == fpga.rd
  <2>1. /\ Len(cmd') = Len(cmd) - k /\ Len(cmd') \in Nat
        /\ \A i \in 1 .. Len(cmd') : cmd'[i] = cmd[i + k]
        /\ lance.rd >= k /\ k \in Nat /\ Len(cmd) \in Nat /\ lance.rd \in Nat
    BY <1>2, Passed, Numbers DEF Pass
  <2>2. /\ lance'.csr = lance.csr /\ lance'.init = lance.init
        /\ pub'.csr = pub.csr /\ fpga'.csr = pub.csr /\ UNCHANGED <<rx, tx, amiga>>
    BY <1>2 DEF SampleCsr, LanceType, PubType
  <2>3. lance'.rd = lance.rd - k
    <3>1. lance'.rd = IF lance.rd < k THEN 0 ELSE lance.rd - k
      BY <1>2 DEF SampleCsr, LanceType
    <3> QED BY <2>1, <3>1
  <2> HIDE DEF k
  <2>4. amiga.pc = "down" => Down'
    BY <2>1, <2>2 DEF Phase, Down, Switched, Alone
  <2>5. amiga.pc = "init" => Asked' \/ Ready'
    <3>1. CASE Asked
      <4>1. k = 0 /\ pub.csr = {"STOP"}
        BY <2>1, <3>1 DEF Asked, Switched, Alone
      <4>2. Len(cmd') = 1 /\ cmd'[1] = cmd[1] /\ lance'.rd = 0
        BY <2>1, <2>3, <3>1, <4>1 DEF Asked
      <4> QED BY <2>2, <3>1, <4>1, <4>2 DEF Asked
    <3>2. CASE Ready
      <4>1. lance'.rd = Len(cmd')
        BY <2>1, <2>3, <3>2 DEF Ready
      <4>2. "IDON" \in pub.csr => "STOP" \notin pub.csr
        BY DEF Switched, Alone
      <4> QED BY <2>2, <3>2, <4>1, <4>2 DEF Ready
    <3> QED BY <3>1, <3>2 DEF Phase
  <2>6. amiga.pc \in Up => Runs'
    <3> SUFFICES ASSUME Runs PROVE Runs'
      BY DEF Phase
    <3>1. ASSUME NEW i \in lance'.rd + 1 .. Len(cmd')
          PROVE  {"STOP", "INIT"} \cap cmd'[i] = {}
      <4>1. i \in 1 .. Len(cmd') /\ i + k \in lance.rd + 1 .. Len(cmd)
        BY <2>1, <2>3
      <4> QED BY <2>1, <4>1 DEF Runs
    <3> QED BY <2>2, <3>1 DEF Runs
  <2>7. amiga.pc = "stop" => Stops'
    <3> SUFFICES ASSUME Stops PROVE Stops'
      BY DEF Phase
    <3>1. ASSUME NEW i \in lance'.rd + 1 .. Len(cmd') - 1, "STOP" \notin lance.csr
          PROVE  {"STOP", "INIT"} \cap cmd'[i] = {}
      <4>1. i \in 1 .. Len(cmd') /\ i + k \in lance.rd + 1 .. Len(cmd) - 1
        BY <2>1, <2>3
      <4> QED BY <2>1, <3>1, <4>1 DEF Stops
    <3>2. "STOP" \in lance.csr => lance'.rd = Len(cmd')
      BY <2>1, <2>3 DEF Stops
    <3> QED BY <2>2, <3>1, <3>2 DEF Stops
  <2> QED BY <2>2, <2>4, <2>5, <2>6, <2>7 DEF Phase
<1> QED BY <1>1, <1>2

\* ... and of the driver: it starts a chip that is ready, and lays the rings out
\* anew on one that is stopped.
LEMMA PhaseDriver ==
  ASSUME TypeOK, Indices, Pass, Switched, Phase, Driver \/ Server \/ CoreReset
  PROVE  Phase'
<1> USE Types DEF Typed
<1>1. CASE DriverInit
  <2>1. amiga.pc = "down" /\ amiga'.pc = "init" /\ UNCHANGED <<pub, fpga, lance>>
    BY <1>1 DEF DriverInit
  <2>2. (\A i \in Rx : rx'[i] # "amiga") /\ (\A i \in Tx : tx'[i] # "sent")
    BY <1>1 DEF DriverInit
  <2>3. Len(cmd') = Len(cmd) + 1 /\ cmd'[Len(cmd) + 1] = {"INIT"}
    BY <1>1, DriverWords, Posted DEF DriverInit
  <2>4. Len(cmd) = 0 /\ lance.rd = 0 /\ Down
    BY <2>1, Numbers DEF Phase, Down, Pass
  <2>5. Asked'
    BY <2>1, <2>3, <2>4 DEF Asked, Down
  <2> QED BY <2>1, <2>2, <2>5 DEF Phase, Up
<1>2. CASE DriverStart
  <2>1. /\ amiga.pc = "init" /\ amiga'.pc = "user" /\ UNCHANGED <<rx, tx, pub, fpga, lance>>
        /\ "IDON" \in fpga.csr /\ Post({"IDON", "STRT", "INEA"})
    BY <1>2 DEF DriverStart, Visible, AmigaType
  <2>2. Ready
    BY <2>1 DEF Phase, Asked
  <2>3. Len(cmd') = Len(cmd) + 1 /\ cmd'[Len(cmd) + 1] = {"IDON", "STRT", "INEA"}
    BY <2>1, DriverWords, Posted
  <2>4. ASSUME NEW i \in lance'.rd + 1 .. Len(cmd')
        PROVE  {"STOP", "INIT"} \cap cmd'[i] = {}
    <3>1. i = Len(cmd) + 1
      BY <2>1, <2>2, <2>3, Numbers DEF Ready
    <3> QED BY <2>3, <3>1
  <2>5. "STOP" \notin fpga.csr
    BY <2>1 DEF Switched, Alone
  <2>6. Runs'
    BY <2>1, <2>2, <2>4, <2>5 DEF Ready, Runs
  <2> QED BY <2>1, <2>6 DEF Phase
<1>3. CASE DriverStop
  <2>1. /\ amiga.pc = "user" /\ amiga'.pc = "stop" /\ UNCHANGED <<pub, fpga, lance>>
        /\ Post({"STOP"})
    BY <1>3 DEF DriverStop, AmigaType
  <2>2. Runs
    BY <2>1 DEF Phase, Up
  <2>3. Len(cmd') = Len(cmd) + 1 /\ \A i \in 1 .. Len(cmd) : cmd'[i] = cmd[i]
    BY <2>1, DriverWords, Posted
  <2>4. ASSUME NEW i \in lance'.rd + 1 .. Len(cmd') - 1
        PROVE  {"STOP", "INIT"} \cap cmd'[i] = {}
    <3>1. i \in lance.rd + 1 .. Len(cmd) /\ i \in 1 .. Len(cmd)
      BY <2>1, <2>3, Numbers
    <3> QED BY <2>2, <2>3, <3>1 DEF Runs
  <2>5. Stops'
    BY <2>1, <2>2, <2>4 DEF Runs, Stops
  <2> QED BY <2>1, <2>5 DEF Phase, Up
<1>4. CASE DriverStopped
  <2>1. /\ amiga.pc = "stop" /\ amiga'.pc = "down" /\ UNCHANGED <<cmd, pub, fpga, lance>>
        /\ "STOP" \in fpga.csr /\ cmd = << >>
    BY <1>4 DEF DriverStopped, Visible, AmigaType
  <2>2. "STOP" \in pub.csr /\ "STOP" \in lance.csr
    BY <2>1 DEF Phase, Stops
  <2>3. "IDON" \notin fpga.csr
    BY <2>1 DEF Switched, Alone
  <2>4. Len(cmd) = 0
    BY <2>1
  <2>5. Down'
    BY <2>1, <2>2, <2>3, <2>4 DEF Down
  <2> QED BY <2>1, <2>5 DEF Phase, Up
<1>5. ASSUME amiga.pc \in Up, amiga'.pc \in Up, UNCHANGED <<lance, pub, fpga>>,
             UNCHANGED cmd \/ \E w \in Words : {"STOP", "INIT"} \cap w = {} /\ Post(w)
      PROVE  Phase'
  <2>1. Runs
    BY <1>5 DEF Phase
  <2>2. Runs'
    BY <1>5, <2>1, RunsPosted DEF Runs
  <2> QED BY <1>5, <2>2 DEF Phase, Up
<1>6. CASE SendOwnFirst \/ SendDemandFirst \/ SendRest
  <2>1. /\ amiga.pc \in Up /\ amiga'.pc \in Up /\ UNCHANGED <<lance, pub, fpga>>
        /\ UNCHANGED cmd \/ Post({"TDMD", "INEA"})
    <3>1. CASE SendOwnFirst
      BY <3>1 DEF SendOwnFirst, SendFrame, GiveOwn, AmigaType, Up
    <3>2. CASE SendDemandFirst
      BY <3>2 DEF SendDemandFirst, SendFrame, Demand, AmigaType, Up
    <3>3. CASE SendRest
      BY <3>3 DEF SendRest, GiveOwn, Demand, AmigaType, Up
    <3> QED BY <1>6, <3>1, <3>2, <3>3
  <2>2. {"TDMD", "INEA"} \in Words /\ {"STOP", "INIT"} \cap {"TDMD", "INEA"} = {}
    BY DriverWords
  <2> QED BY <1>5, <2>1, <2>2
<1>7. CASE Acknowledge
  <2>1. /\ amiga.pc \in Up /\ amiga'.pc \in Up /\ UNCHANGED <<lance, pub, fpga>>
        /\ Post(amiga.seen \cup {"INEA"})
    BY <1>7 DEF Acknowledge, AmigaType, Up
  <2>2. amiga.seen \cup {"INEA"} \in Words /\ {"STOP", "INIT"} \cap (amiga.seen \cup {"INEA"}) = {}
    BY DriverWords DEF AmigaType, Events
  <2> QED BY <1>5, <2>1, <2>2
<1>8. CASE Interrupt \/ ReadCsr0 \/ TakeFrame \/ ScanEnds \/ Reclaim
  <2>1. /\ amiga.pc \in Up /\ amiga'.pc \in Up /\ UNCHANGED <<lance, pub, fpga, cmd>>
    <3>1. CASE Interrupt BY <3>1 DEF Interrupt, AmigaType, Up
    <3>2. CASE ReadCsr0 BY <3>2 DEF ReadCsr0, AmigaType, Up
    <3>3. CASE TakeFrame BY <3>3 DEF TakeFrame, TakesFrames, AmigaType, Up
    <3>4. CASE ScanEnds BY <3>4 DEF ScanEnds, AmigaType, Up
    <3>5. CASE Reclaim
      <4>1. CASE "TINT" \in amiga.seen /\ tx[amiga.tpos] = "sent"
        BY <3>5, <4>1 DEF Reclaim, AmigaType, Up
      <4>2. CASE ~("TINT" \in amiga.seen /\ tx[amiga.tpos] = "sent")
        BY <3>5, <4>2 DEF Reclaim, AmigaType, Up
      <4> QED BY <4>1, <4>2
    <3> QED BY <1>8, <3>1, <3>2, <3>3, <3>4, <3>5
  <2> QED BY <1>5, <2>1
<1>9. CASE CoreReset
  <2>1. /\ amiga'.pc = "down" /\ cmd' = << >> /\ lance'.csr = {"STOP"}
        /\ pub'.csr = {"STOP"} /\ fpga'.csr = {}
    BY <1>9 DEF CoreReset, Reset, LanceType
  <2>2. Len(cmd') = 0
    BY <2>1
  <2>3. Down'
    BY <2>1, <2>2 DEF Down
  <2> QED BY <2>1, <2>3 DEF Phase, Up
<1> QED BY <1>1, <1>2, <1>3, <1>4, <1>6, <1>7, <1>8, <1>9 DEF Driver, Server

-----------------------------------------------------------------------------
(* The interrupts the driver is owed *)

\* The bit of a ring and the step of Main that raises it.
Pairs == {<<"RINT", "rxint">>, <<"TINT", "txint">>}

\* An announced event stays so when a write of CSR0 is posted that does not
\* acknowledge it.
LEMMA StaysUnacknowledged ==
  ASSUME TypeOK, NEW p \in Pairs, Announced(p[1], p[2]),
         NEW w \in Words, Post(w), p[1] \notin w, UNCHANGED <<lance, main>>
  PROVE  Announced(p[1], p[2])'
<1>1. /\ Len(cmd') = Len(cmd) + 1 /\ cmd'[Len(cmd) + 1] = w
      /\ \A i \in 1 .. Len(cmd) : cmd'[i] = cmd[i]
  BY Posted, Types DEF Typed
<1>2. ASSUME NEW i \in lance.rd + 1 .. Len(cmd'), p[1] \in cmd'[i], lance.ev[p[1]] <= i - 1
      PROVE  WillClear(p[1])
  <2>1. i # Len(cmd) + 1
    BY <1>1, <1>2
  <2>2. i \in lance.rd + 1 .. Len(cmd) /\ i \in 1 .. Len(cmd)
    BY <1>1, <2>1, Numbers
  <2> QED BY <1>1, <1>2, <2>2 DEF WillClear
<1>3. WillClear(p[1])' => WillClear(p[1])
  BY <1>2 DEF WillClear
<1> QED BY <1>3 DEF Announced

\* An acknowledge that is drained clears no event that is announced.
LEMMA StaysThroughDrain ==
  ASSUME TypeOK, Pass, Runs, Drain, NEW p \in Pairs, Announced(p[1], p[2])
  PROVE  Announced(p[1], p[2])'
<1> DEFINE w == cmd[lance.rd + 1]
           l == Written(lance, w)
           b == p[1]
<1>1. /\ At("drain") /\ l \in LanceType /\ lance'.rd = lance.rd + 1
      /\ lance'.csr \in {l.csr, l.csr \ {"TDMD"}} /\ lance'.ev = l.ev
      /\ lance.rd + 1 \in 1 .. Len(cmd) /\ w \in Words /\ cmd' = cmd
  BY DrainIs
<1>2. lance.rd \in Nat /\ Len(cmd) \in Nat /\ lance.ev[b] \in Nat /\ b \in Events
      /\ b # "TDMD" /\ p[2] # "drain"
  BY Numbers DEF Pairs, Events
<1>3. b \in lance.csr /\ ~WillClear(b)
  BY <1>1, <1>2 DEF Announced, At
<1>4. b \notin AckMask(lance, w)
  <2> SUFFICES ASSUME b \in w, lance.ev[b] <= lance.rd PROVE FALSE
    BY DEF AckMask
  <2>1. lance.rd + 1 \in lance.rd + 1 .. Len(cmd) /\ lance.rd = (lance.rd + 1) - 1
    BY <1>1, <1>2
  <2> QED BY <1>3, <2>1 DEF WillClear
<1>5. {"STOP", "INIT"} \cap w = {}
  BY <1>1, <1>2 DEF Runs
<1>6. b \in l.csr /\ l.ev = lance.ev
  <2> HIDE DEF w, b
  <2>1. lance \in LanceType /\ "STOP" \notin lance.csr
    BY Types DEF Typed, Runs
  <2> QED BY <1>1, <1>2, <1>3, <1>4, <1>5, <2>1, WrittenRuns DEF l
<1> HIDE DEF l, b
<1>7. b \in lance'.csr /\ lance'.ev = lance.ev
  BY <1>1, <1>2, <1>6
<1>8. ~WillClear(b)'
  <2> SUFFICES ASSUME NEW i \in lance'.rd + 1 .. Len(cmd'), b \in cmd'[i], lance'.ev[b] <= i - 1
               PROVE  FALSE
    BY DEF WillClear
  <2>1. i \in lance.rd + 1 .. Len(cmd) /\ b \in cmd[i] /\ lance.ev[b] <= i - 1
    BY <1>1, <1>2, <1>7
  <2> QED BY <1>3, <2>1 DEF WillClear
<1> QED BY <1>7, <1>8 DEF Announced, b

\* Indices are counted anew when the FPGA has seen entries passed.
LEMMA StaysThroughSample ==
  ASSUME TypeOK, Indices, Pass, SampleCsr, NEW p \in Pairs, Announced(p[1], p[2])
  PROVE  Announced(p[1], p[2])'
<1> DEFINE k == fpga.rd
           b == p[1]
<1>1. /\ Len(cmd') = Len(cmd) - k /\ Len(cmd') \in Nat
      /\ \A i \in 1 .. Len(cmd') : cmd'[i] = cmd[i + k]
      /\ lance.rd >= k /\ k \in Nat /\ Len(cmd) \in Nat /\ lance.rd \in Nat
  BY Passed, Numbers DEF Pass
<1>2. b \in Events /\ lance.ev[b] \in Nat
  BY Numbers DEF Pairs, Events
<1>3. /\ lance'.csr = lance.csr /\ main' = main
      /\ lance'.rd = IF lance.rd < k THEN 0 ELSE lance.rd - k
      /\ lance'.ev[b] = IF lance.ev[b] < k THEN 0 ELSE lance.ev[b] - k
  BY <1>2, Types DEF SampleCsr, Typed, LanceType
<1> HIDE DEF k, b
<1>4. ASSUME NEW i \in lance'.rd + 1 .. Len(cmd'), b \in cmd'[i], lance'.ev[b] <= i - 1
      PROVE  WillClear(b)
  <2>1. i \in 1 .. Len(cmd') /\ i + k \in lance.rd + 1 .. Len(cmd) /\ lance.ev[b] <= (i + k) - 1
    BY <1>1, <1>2, <1>3, <1>4, SMTT(20)
  <2>2. b \in cmd[i + k]
    BY <1>1, <1>4, <2>1
  <2> QED BY <2>1, <2>2 DEF WillClear
<1>5. WillClear(b)' => WillClear(b)
  BY <1>4 DEF WillClear
<1> QED BY <1>3, <1>5 DEF Announced, b

\* An event that is raised now is not cleared by an acknowledge written before.
LEMMA RaisedIsAnnounced ==
  ASSUME TypeOK, NEW b \in Events, NEW raising,
         lance'.ev[b] = Len(cmd), b \in lance'.csr, UNCHANGED cmd
  PROVE  Announced(b, raising)'
<1>1. ASSUME NEW i \in lance'.rd + 1 .. Len(cmd'), lance'.ev[b] <= i - 1
      PROVE  FALSE
  BY <1>1, Numbers
<1> QED BY <1>1 DEF Announced, WillClear

\* A step that leaves the driver alone owes it nothing that is not announced, if
\* whatever is announced stays so and what is handed over is announced.
LEMMA OwedFrame ==
  ASSUME Owed, UNCHANGED amiga,
         RintOwed /\ Announced("RINT", "rxint") => Announced("RINT", "rxint")',
         TintOwed /\ Announced("TINT", "txint") => Announced("TINT", "txint")',
         UNCHANGED rx \/ Announced("RINT", "rxint")',
         UNCHANGED tx \/ Announced("TINT", "txint")'
  PROVE  Owed'
  BY DEF Owed, RintOwed, TintOwed

\* Main raises what it hands over, and forgets nothing.
LEMMA OwedMain ==
  ASSUME TypeOK, Indices, Pass, Switched, Phase, Owed, MainNext
  PROVE  Owed'
<1> USE Types DEF Typed
<1> DEFINE R == Announced("RINT", "rxint")
           T == Announced("TINT", "txint")
<1>0. <<"RINT", "rxint">> \in Pairs /\ <<"TINT", "txint">> \in Pairs
      /\ "RINT" \in Events /\ "TINT" \in Events
  BY DEF Pairs, Events
<1>1. CASE Drain
  <2>1. UNCHANGED <<rx, tx, amiga>>
    BY <1>1, DrainIs
  <2>2. RintOwed \/ TintOwed => Runs
    BY DEF RintOwed, TintOwed, Phase, Up
  <2>3. Runs /\ R => R'
    BY <1>0, <1>1, StaysThroughDrain
  <2>4. Runs /\ T => T'
    BY <1>0, <1>1, StaysThroughDrain
  <2> QED BY <2>1, <2>2, <2>3, <2>4, OwedFrame
<1>2. CASE Store \/ Poll \/ Drained \/ BatchEnds \/ Filter \/ TxPoll \/ TxPollNotDue
  <2>1. UNCHANGED <<rx, tx, cmd, lance, amiga>>
    BY <1>2 DEF Store, Poll, Drained, BatchEnds, Filter, TxPoll, TxPollNotDue
  <2>2. main.pc \in {"rxint", "txint"} => main'.pc = main.pc
    BY <1>2 DEF Store, Poll, Drained, BatchEnds, Filter, TxPoll, TxPollNotDue, At, MainType
  <2>3. R => R'
    BY <2>1, <2>2 DEF Announced, WillClear
  <2>4. T => T'
    BY <2>1, <2>2 DEF Announced, WillClear
  <2> QED BY <2>1, <2>3, <2>4, OwedFrame
<1>3. CASE Send
  <2>1. /\ main.pc = "tx" /\ lance'.csr = lance.csr /\ lance'.rd = lance.rd /\ lance'.ev = lance.ev
        /\ UNCHANGED <<rx, cmd, amiga>>
        /\ UNCHANGED tx \/ main'.pc = "txint"
    <3>1. CASE TxReady = {}
      BY <1>3, <3>1 DEF Send, At
    <3>2. CASE TxReady # {}
      BY <1>3, <3>2 DEF Send, At, LanceType, MainType
    <3> QED BY <3>1, <3>2
  <2>2. R => R'
    BY <2>1 DEF Announced, WillClear
  <2>3. T => T'
    BY <2>1 DEF Announced, WillClear
  <2>4. UNCHANGED tx \/ T'
    BY <2>1 DEF Announced
  <2> QED BY <2>1, <2>2, <2>3, <2>4, OwedFrame
<1>4. CASE RaiseTint
  <2>1. /\ main.pc = "txint" /\ lance'.csr = lance.csr \cup {"TINT"} /\ lance'.rd = lance.rd
        /\ lance'.ev["TINT"] = Len(cmd) /\ lance'.ev["RINT"] = lance.ev["RINT"]
        /\ UNCHANGED <<rx, tx, cmd, amiga>>
    BY <1>0, <1>4 DEF RaiseTint, At, LanceType, Mark
  <2>2. R => R'
    BY <2>1 DEF Announced, WillClear
  <2>3. T'
    BY <1>0, <2>1, RaisedIsAnnounced
  <2> QED BY <2>1, <2>2, <2>3, OwedFrame
<1>5. CASE Demanded
  <2>1. /\ main.pc = "tdmd" /\ lance'.csr = lance.csr \ {"TDMD"} /\ lance'.rd = lance.rd
        /\ lance'.ev = lance.ev /\ UNCHANGED <<rx, tx, cmd, amiga>>
    BY <1>5 DEF Demanded, At, LanceType
  <2>2. R => R'
    BY <2>1 DEF Announced, WillClear
  <2>3. T => T'
    BY <2>1 DEF Announced, WillClear
  <2> QED BY <2>1, <2>2, <2>3, OwedFrame
<1>6. CASE RaiseAgain
  <2>1. /\ main.pc = "raise" /\ UNCHANGED <<rx, tx, cmd, amiga>> /\ lance'.rd = lance.rd
        /\ \/ UNCHANGED lance
           \/ lance'.csr = lance.csr /\ lance'.ev = lance.ev
           \/ /\ lance'.csr = lance.csr \cup {"RINT"} /\ lance'.ev["RINT"] = Len(cmd)
              /\ lance'.ev["TINT"] = lance.ev["TINT"]
    <3>1. CASE "RXON" \in lance.csr /\ "RINT" \notin lance.csr
      <4>1. CASE Unserviced # {}
        <5>1. /\ lance' = [lance EXCEPT !.handed = Unserviced, !.csr = lance.csr \cup {"RINT"},
                                        !.ev = Mark(lance.ev, {"RINT"}, Len(cmd))]
              /\ main.pc = "raise" /\ UNCHANGED <<rx, tx, cmd, amiga>>
          BY <1>6, <3>1, <4>1 DEF RaiseAgain, At
        <5>2. /\ lance'.csr = lance.csr \cup {"RINT"} /\ lance'.rd = lance.rd
              /\ lance'.ev = Mark(lance.ev, {"RINT"}, Len(cmd))
          BY <5>1 DEF LanceType
        <5>3. lance'.ev["RINT"] = Len(cmd) /\ lance'.ev["TINT"] = lance.ev["TINT"]
          BY <5>2 DEF Mark, Events
        <5> QED BY <5>1, <5>2, <5>3
      <4>2. CASE Unserviced = {}
        <5>1. /\ lance' = [lance EXCEPT !.handed = Unserviced, !.csr = lance.csr, !.ev = lance.ev]
              /\ main.pc = "raise" /\ UNCHANGED <<rx, tx, cmd, amiga>>
          BY <1>6, <3>1, <4>2 DEF RaiseAgain, At
        <5>2. lance'.csr = lance.csr /\ lance'.rd = lance.rd /\ lance'.ev = lance.ev
          BY <5>1 DEF LanceType
        <5> QED BY <5>1, <5>2
      <4> QED BY <4>1, <4>2
    <3>2. CASE ~("RXON" \in lance.csr /\ "RINT" \notin lance.csr)
      BY <1>6, <3>2 DEF RaiseAgain, At
    <3> QED BY <3>1, <3>2
  <2>2. T => T'
    BY <2>1 DEF Announced, WillClear
  <2>3. R => R'
    <3>1. CASE UNCHANGED lance \/ (lance'.csr = lance.csr /\ lance'.ev = lance.ev)
      BY <2>1, <3>1 DEF Announced, WillClear
    <3>2. CASE lance'.csr = lance.csr \cup {"RINT"} /\ lance'.ev["RINT"] = Len(cmd)
      BY <1>0, <2>1, <3>2, RaisedIsAnnounced
    <3> QED BY <2>1, <3>1, <3>2
  <2> QED BY <2>1, <2>2, <2>3, OwedFrame
<1>7. CASE Deliver
  <2>1. /\ main.pc = "rx" /\ main'.pc = "rxint" /\ lance'.csr = lance.csr /\ lance'.rd = lance.rd
        /\ lance'.ev = lance.ev /\ UNCHANGED <<tx, cmd, amiga>>
    BY <1>7 DEF Deliver, At, LanceType, MainType
  <2>2. R'
    BY <2>1 DEF Announced
  <2>3. T => T'
    BY <2>1 DEF Announced, WillClear
  <2> QED BY <2>1, <2>2, <2>3, OwedFrame
<1>8. CASE RaiseRint
  <2>1. /\ main.pc = "rxint" /\ lance'.csr = lance.csr \cup {"RINT"} /\ lance'.rd = lance.rd
        /\ lance'.ev["RINT"] = Len(cmd) /\ lance'.ev["TINT"] = lance.ev["TINT"]
        /\ UNCHANGED <<rx, tx, cmd, amiga>>
    BY <1>0, <1>8 DEF RaiseRint, At, LanceType, Mark
  <2>2. R'
    BY <1>0, <2>1, RaisedIsAnnounced
  <2>3. T => T'
    BY <2>1 DEF Announced, WillClear
  <2> QED BY <2>1, <2>2, <2>3, OwedFrame
<1> QED BY <1>1, <1>2, <1>3, <1>4, <1>5, <1>6, <1>7, <1>8 DEF MainNext

\* The FPGA and the network take nothing back.
LEMMA OwedFpga ==
  ASSUME TypeOK, Indices, Pass, Owed, SampleInt \/ SampleCsr \/ FrameArrives
  PROVE  Owed'
<1> DEFINE R == Announced("RINT", "rxint")
           T == Announced("TINT", "txint")
<1>0. <<"RINT", "rxint">> \in Pairs /\ <<"TINT", "txint">> \in Pairs
  BY DEF Pairs
<1>1. CASE SampleInt \/ FrameArrives
  <2>1. UNCHANGED <<rx, tx, cmd, lance, main, amiga>>
    BY <1>1 DEF SampleInt, FrameArrives
  <2>2. (R => R') /\ (T => T')
    BY <2>1 DEF Announced, WillClear
  <2> QED BY <2>1, <2>2, OwedFrame
<1>2. CASE SampleCsr
  <2>1. UNCHANGED <<rx, tx, amiga>>
    BY <1>2 DEF SampleCsr
  <2>2. R => R'
    BY <1>0, <1>2, StaysThroughSample
  <2>3. T => T'
    BY <1>0, <1>2, StaysThroughSample
  <2> QED BY <2>1, <2>2, <2>3, OwedFrame
<1> QED BY <1>1, <1>2

\* The driver acknowledges only what it scans for afterwards.
LEMMA OwedDriver ==
  ASSUME TypeOK, Indices, Pass, Switched, Phase, Owed, Driver \/ Server \/ CoreReset
  PROVE  Owed'
<1> USE Types DEF Typed
<1> DEFINE R == Announced("RINT", "rxint")
           T == Announced("TINT", "txint")
<1>0. <<"RINT", "rxint">> \in Pairs /\ <<"TINT", "txint">> \in Pairs
  BY DEF Pairs
<1>1. CASE DriverInit \/ DriverStop \/ DriverStopped \/ CoreReset
  <2>1. amiga'.pc \in {"init", "stop", "down"}
    BY <1>1 DEF DriverInit, DriverStop, DriverStopped, CoreReset, AmigaType
  <2> QED BY <2>1 DEF Owed, RintOwed, TintOwed
<1>2. CASE DriverStart
  <2>1. /\ amiga.pc = "init" /\ UNCHANGED <<rx, tx>>
        /\ amiga'.rpos = amiga.rpos /\ amiga'.tpos = amiga.tpos
    BY <1>2 DEF DriverStart, AmigaType
  <2>2. rx[amiga.rpos] # "amiga" /\ tx[amiga.tpos] # "sent"
    BY <2>1 DEF Phase, AmigaType
  <2> QED BY <2>1, <2>2 DEF Owed
<1>3. ASSUME UNCHANGED <<cmd, lance, main>>
      PROVE  (R => R') /\ (T => T')
  BY <1>3 DEF Announced, WillClear
<1>4. ASSUME Post({"TDMD", "INEA"}), UNCHANGED <<lance, main>>
      PROVE  (R => R') /\ (T => T')
  <2>1. {"TDMD", "INEA"} \in Words
    BY DriverWords
  <2>2. R => R'
    BY <1>0, <1>4, <2>1, StaysUnacknowledged
  <2>3. T => T'
    BY <1>0, <1>4, <2>1, StaysUnacknowledged
  <2> QED BY <2>2, <2>3
<1>5. CASE SendOwnFirst \/ SendDemandFirst \/ SendRest
  <2>1. /\ amiga.pc \in {"user", "tdmd", "own"} /\ UNCHANGED <<rx, lance, main>>
        /\ amiga'.rpos = amiga.rpos /\ amiga'.tpos = amiga.tpos
        /\ UNCHANGED cmd \/ Post({"TDMD", "INEA"})
        /\ UNCHANGED tx \/ tx' = [tx EXCEPT ![amiga.tfill] = "lance"]
    <3>1. CASE SendOwnFirst
      BY <3>1 DEF SendOwnFirst, SendFrame, GiveOwn, AmigaType
    <3>2. CASE SendDemandFirst
      BY <3>2 DEF SendDemandFirst, SendFrame, Demand, AmigaType
    <3>3. CASE SendRest
      BY <3>3 DEF SendRest, GiveOwn, Demand, AmigaType
    <3> QED BY <1>5, <3>1, <3>2, <3>3
  <2>2. (R => R') /\ (T => T')
    BY <1>3, <1>4, <2>1
  <2>3. tx'[amiga.tpos] = "sent" => tx[amiga.tpos] = "sent"
    BY <2>1 DEF AmigaType
  <2>4. (rx[amiga.rpos] = "amiga" => R) /\ (tx[amiga.tpos] = "sent" => T)
    BY <2>1 DEF Owed, RintOwed, TintOwed
  <2> HIDE DEF R, T
  <2>5. (rx'[amiga'.rpos] = "amiga" => R') /\ (tx'[amiga'.tpos] = "sent" => T')
    BY <2>1, <2>2, <2>3, <2>4
  <2> QED BY <2>5 DEF Owed, R, T
<1>6. CASE Interrupt \/ ReadCsr0
  <2>1. /\ amiga.pc \in {"user", "read"} /\ UNCHANGED <<rx, tx, cmd, lance, main>>
        /\ amiga'.rpos = amiga.rpos /\ amiga'.tpos = amiga.tpos
    BY <1>6 DEF Interrupt, ReadCsr0, AmigaType
  <2>2. (R => R') /\ (T => T')
    BY <1>3, <2>1
  <2>3. (rx[amiga.rpos] = "amiga" => R) /\ (tx[amiga.tpos] = "sent" => T)
    BY <2>1 DEF Owed, RintOwed, TintOwed
  <2> HIDE DEF R, T
  <2>4. (rx'[amiga'.rpos] = "amiga" => R') /\ (tx'[amiga'.tpos] = "sent" => T')
    BY <2>1, <2>2, <2>3
  <2> QED BY <2>4 DEF Owed, R, T
<1>7. CASE Acknowledge
  <2> DEFINE w == amiga.seen \cup {"INEA"}
  <2>1. /\ amiga.pc = "ack" /\ amiga'.pc = "scan" /\ amiga'.seen = amiga.seen
        /\ amiga'.rpos = amiga.rpos /\ amiga'.tpos = amiga.tpos
        /\ UNCHANGED <<rx, tx, lance, main>> /\ Post(w)
    BY <1>7 DEF Acknowledge, AmigaType
  <2>2. w \in Words
    BY DriverWords DEF AmigaType
  <2>3. (rx[amiga.rpos] = "amiga" => R) /\ (tx[amiga.tpos] = "sent" => T)
    BY <2>1 DEF Owed, RintOwed, TintOwed
  <2>4. "RINT" \notin amiga.seen /\ R => R'
    BY <1>0, <2>1, <2>2, StaysUnacknowledged
  <2>5. "TINT" \notin amiga.seen /\ T => T'
    BY <1>0, <2>1, <2>2, StaysUnacknowledged
  <2> HIDE DEF R, T
  <2>6. (RintOwed' /\ rx'[amiga'.rpos] = "amiga" => R') /\ (TintOwed' /\ tx'[amiga'.tpos] = "sent" => T')
    BY <2>1, <2>3, <2>4, <2>5 DEF RintOwed, TintOwed
  <2> QED BY <2>6 DEF Owed, R, T
<1>8. CASE TakeFrame
  <2>1. /\ amiga.pc = "scan" /\ amiga'.pc = "scan" /\ "RINT" \in amiga.seen
        /\ amiga'.seen = amiga.seen /\ amiga'.tpos = amiga.tpos
        /\ UNCHANGED <<tx, cmd, lance, main>>
    BY <1>8 DEF TakeFrame, TakesFrames, AmigaType
  <2>2. T => T'
    BY <1>3, <2>1
  <2>3. TintOwed /\ tx[amiga.tpos] = "sent" => T
    BY DEF Owed
  <2> HIDE DEF R, T
  <2>4. ~RintOwed' /\ (TintOwed' /\ tx'[amiga'.tpos] = "sent" => T')
    BY <2>1, <2>2, <2>3 DEF RintOwed, TintOwed
  <2> QED BY <2>4 DEF Owed, T
<1>9. CASE ScanEnds
  <2>1. /\ amiga.pc = "scan" /\ amiga'.pc = "reclaim" /\ ~TakesFrames
        /\ amiga'.seen = amiga.seen /\ amiga'.tpos = amiga.tpos /\ amiga'.rpos = amiga.rpos
        /\ UNCHANGED <<rx, tx, cmd, lance, main>>
    BY <1>9 DEF ScanEnds, AmigaType
  <2>2. (R => R') /\ (T => T')
    BY <1>3, <2>1
  <2>3. (RintOwed /\ rx[amiga.rpos] = "amiga" => R) /\ (TintOwed /\ tx[amiga.tpos] = "sent" => T)
    BY DEF Owed
  <2> HIDE DEF R, T
  <2>4. rx'[amiga'.rpos] = "amiga" => R'
    BY <2>1, <2>2, <2>3 DEF TakesFrames, RintOwed
  <2>5. TintOwed' /\ tx'[amiga'.tpos] = "sent" => T'
    BY <2>1, <2>2, <2>3 DEF TintOwed
  <2> QED BY <2>4, <2>5 DEF Owed, R, T
<1>10. CASE Reclaim
  <2>1. /\ amiga.pc = "reclaim" /\ amiga'.rpos = amiga.rpos
        /\ UNCHANGED <<rx, cmd, lance, main>>
    <3>1. \/ amiga' = [amiga EXCEPT !.tpos = (amiga.tpos + 1) % TxLen]
          \/ amiga' = [amiga EXCEPT !.pc = "read", !.seen = {}]
      BY <1>10 DEF Reclaim
    <3>2. amiga'.rpos = amiga.rpos
      BY <3>1 DEF AmigaType
    <3> QED BY <1>10, <3>2 DEF Reclaim
  <2>2. (R => R') /\ (T => T')
    BY <1>3, <2>1
  <2>3. (rx[amiga.rpos] = "amiga" => R) /\ (TintOwed /\ tx[amiga.tpos] = "sent" => T)
    BY <2>1 DEF Owed, RintOwed
  <2>4. CASE "TINT" \in amiga.seen /\ tx[amiga.tpos] = "sent"
    <3>1. amiga'.pc = "reclaim" /\ amiga'.seen = amiga.seen
      BY <1>10, <2>4 DEF Reclaim, AmigaType
    <3> HIDE DEF R, T
    <3>2. ~TintOwed' /\ (rx'[amiga'.rpos] = "amiga" => R')
      BY <2>1, <2>2, <2>3, <2>4, <3>1 DEF TintOwed
    <3> QED BY <3>2 DEF Owed, R
  <2>5. CASE ~("TINT" \in amiga.seen /\ tx[amiga.tpos] = "sent")
    <3>1. amiga'.tpos = amiga.tpos /\ UNCHANGED tx
      BY <1>10, <2>5 DEF Reclaim, AmigaType
    <3> HIDE DEF R, T
    <3>2. (tx'[amiga'.tpos] = "sent" => T') /\ (rx'[amiga'.rpos] = "amiga" => R')
      BY <2>1, <2>2, <2>3, <2>5, <3>1 DEF TintOwed
    <3> QED BY <3>2 DEF Owed, R, T
  <2> QED BY <2>4, <2>5
<1> QED BY <1>1, <1>2, <1>5, <1>6, <1>7, <1>8, <1>9, <1>10 DEF Driver, Server

-----------------------------------------------------------------------------
(* The theorems *)

\* The inductive invariant holds in the states the card starts in.
LEMMA InitIInv == Init => IInv
<1> SUFFICES ASSUME Init PROVE IInv
  OBVIOUS
<1> USE DEF Init
<1>1. TypeOK
  <2>1. << >> \in Seq(Words) /\ Len(<< >>) = 0
    BY EmptySeq
  <2>2. {"STOP"} \in SUBSET Csr0 /\ {} \in SUBSET Csr0
    BY DEF Csr0, Control
  <2>3. /\ rx \in [Rx -> {"lance", "amiga"}] /\ tx \in [Tx -> {"lance", "sent", "free"}]
        /\ cmd \in Seq(Words) /\ Len(cmd) <= Depth /\ net \in 0 .. Socket
    BY <2>1, Lengths
  <2>4. pub \in PubType /\ fpga \in FpgaType
    BY <2>2, Zeros DEF PubType, FpgaType
  <2>5. lance \in LanceType
    BY <2>2, Zeros DEF LanceType
  <2>6. main \in MainType
    BY Dues, Zeros, Lengths DEF MainType
  <2>7. amiga \in AmigaType
    BY Zeros DEF AmigaType
  <2> QED BY <2>3, <2>4, <2>5, <2>6, <2>7, Types DEF Typed
<1>2. Indices
  BY DEF Indices, None
<1>3. Pass
  BY DEF Pass
<1>4. Switched
  BY DEF Switched, Alone
<1>5. Phase
  BY DEF Phase, Down, Up
<1>6. Owed
  BY DEF Owed, RintOwed, TintOwed
<1> QED BY <1>1, <1>2, <1>3, <1>4, <1>5, <1>6 DEF IInv

\* Every step keeps it.
LEMMA NextIInv == IInv /\ [Next]_vars => IInv'
<1> SUFFICES ASSUME IInv, [Next]_vars PROVE IInv'
  OBVIOUS
<1> USE DEF IInv
<1>1. CASE Next
  <2>1. TypeOK'
    BY <1>1, MainTypes, OtherTypes DEF Next
  <2>2. Indices' /\ Pass' /\ Switched'
    BY <1>1, IndicesKept, PassKept, SwitchedKept
  <2>3. Phase'
    BY <1>1, PhaseMain, PhaseFpga, PhaseDriver DEF Next
  <2>4. Owed'
    BY <1>1, OwedMain, OwedFpga, OwedDriver DEF Next
  <2> QED BY <2>1, <2>2, <2>3, <2>4
<1>2. CASE UNCHANGED vars
  <2> USE <1>2 DEF vars
  <2>1. TypeOK'
    BY Types DEF Typed
  <2>2. Indices' /\ Pass' /\ Switched'
    BY DEF Indices, Pass, Switched, Alone
  <2>3. Phase'
    BY DEF Phase, Down, Asked, Ready, Runs, Stops
  <2>4. Owed'
    BY DEF Owed, RintOwed, TintOwed, Announced, WillClear
  <2> QED BY <2>1, <2>2, <2>3, <2>4
<1> QED BY <1>1, <1>2

\* What the proofs of the theorems below have in common.
LEMMA SpecIInv == Spec => []IInv
  BY InitIInv, NextIInv, PTL DEF Spec

\* The rings, CSR0 and its copies, the pass and the driver stay within their types:
\* no offset leaves its ring and no index the CMD ring.
THEOREM SpecTypeOK == Spec => []TypeOK
<1>1. IInv => TypeOK
  BY DEF IInv
<1> QED BY <1>1, SpecIInv, PTL

\* push_csr_shadow comes before update_int_state in every order of stores, samples
\* and posts: the FPGA never takes a CSR0 that is older than the index it has for it.
THEOREM SpecShadowCoversIndex == Spec => []ShadowCoversIndex
<1>1. IInv => ShadowCoversIndex
  BY DEF IInv, Indices, ShadowCoversIndex
<1> QED BY <1>1, SpecIInv, PTL

\* ack_mask and mark_events lose no interrupt: for rings of any length, any number
\* of CSR0 writes on their way, and however late they are applied.
THEOREM SpecNoneForgotten == Spec => []NoneForgotten
<1>1. IInv => NoneForgotten
  BY DEF IInv, Owed, RintOwed, TintOwed, NoneForgotten
<1> QED BY <1>1, SpecIInv, PTL
=============================================================================
