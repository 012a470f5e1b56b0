------------------------- MODULE ScanoutLeaseProofs -------------------------
(***************************************************************************)
(* The scan-out hand-off, proved for every bound on the packets under way: *)
(* the variables keep their types (no request without its socket, no lease *)
(* without its request), and a lease lasts as long as its holder runs and  *)
(* keeps the socket.                                                       *)
(*                                                                         *)
(* LeaseHolds is not inductive.  What a frontend was told is still in the  *)
(* socket before the frontend acts on it, so the answers under way have to *)
(* agree with Main's lease too, and no empty packet may be on its way from *)
(* a frontend that sent none (Told); and what keeps the startup timer      *)
(* away from a lease is that black belongs to a proxy offer, where the     *)
(* grant stops the timer (Sound).                                          *)
(*                                                                         *)
(* The operators of ScanoutLease work on a record s of what Main can       *)
(* change, so that a poll is a composition of functions.  There is one     *)
(* lemma for each function, and the lemmas compose as the functions do.    *)
(***************************************************************************)
EXTENDS ScanoutLease, SequenceTheorems, TLAPS

\* A record of what Main can change, as TypeOK has it
Typed(s) ==
  /\ s \in [m : Statics, boot : Bootstrap, loader : Loader, rx : Seq(Packet), tx : Seq(Answer)]
  /\ s.m.requested \/ s.m.granted \/ s.m.native => s.m.open
  /\ s.m.granted \/ s.m.native => s.m.requested
  /\ ~s.m.open => s.rx = << >>

\* The frontend that an answer can still reach, and that sent no empty packet
Live == child.st \in {"up", "stuck"} /\ child.conn /\ ~child.empty

\* A live frontend that was told of a lease, or is about to be, has it
Told(s) ==
  Live =>
    /\ child.view = "slots" => s.m.granted
    /\ child.view = "native" => s.m.native
    /\ \A i \in 1..Len(s.tx) : s.tx[i] = "PROXY" => s.m.granted
    /\ \A i \in 1..Len(s.tx) : s.tx[i] = "NATIVE" => s.m.native
    /\ \A i \in 1..Len(s.rx) : s.rx[i] # "empty"

\* A lease is for the module that was verified and the offer that was made, and
\* no startup timer runs under it; only a proxy offer starts black
Sound(s) ==
  /\ s.m.granted => s.m.offer = "proxy" /\ dev = "ours" /\ (s.boot.hidden => s.boot.timer = "off")
  /\ s.m.native => s.m.offer = "native" /\ dev = "ours"
  /\ s.m.open => s.m.offer # "none"
  /\ s.boot.hidden => s.m.offer = "proxy"

Good(s) == Typed(s) /\ Sound(s) /\ Told(s)

Unleased(s) == ~s.m.granted /\ ~s.m.native

IInv ==
  /\ TypeOK
  /\ m.open => child.st # "none"
  /\ child.st # "none" => Sound(S) /\ Told(S)

-----------------------------------------------------------------------------
(* stop, the sends and deny *)

\* The socket that stop() and deny() leave has no packets.
LEMMA NothingUnderWay == << >> \in Seq(Packet)
  BY SMT

\* stop() keeps the types, whatever it is called on.
LEMMA StopTyped ==
  ASSUME NEW s, Typed(s)
  PROVE  Typed(Stop(s)) /\ ~Stop(s).m.open /\ Unleased(Stop(s))
<1> DEFINE n == [s.m EXCEPT !.open = FALSE, !.requested = FALSE, !.granted = FALSE,
                            !.native = FALSE]
           l == IF s.loader \in Running THEN "killed" ELSE "none"
<1>1. s.m \in Statics /\ l \in Loader  BY DEF Typed, Loader
<1>2. n \in Statics /\ ~n.open /\ ~n.requested /\ ~n.granted /\ ~n.native
  BY <1>1 DEF Statics
<1>3. Stop(s) = [s EXCEPT !.m = n, !.loader = l, !.rx = << >>]  BY DEF Stop, Typed
<1> HIDE DEF n, l
<1>4. Stop(s).m = n /\ Stop(s).rx = << >>  BY <1>3 DEF Typed
<1>5. Stop(s) \in [m : Statics, boot : Bootstrap, loader : Loader, rx : Seq(Packet), tx : Seq(Answer)]
  BY <1>1, <1>2, <1>3, NothingUnderWay DEF Typed
<1> QED  BY <1>2, <1>4, <1>5 DEF Typed, Unleased

\* stop() takes no lease from a live frontend when there is none to take.
LEMMA StopGood ==
  ASSUME NEW s, Good(s), Unleased(s) \/ ~Live
  PROVE  Good(Stop(s))
<1>1. Typed(Stop(s))  BY StopTyped DEF Good
<1>2. Sound(Stop(s))  BY DEF Good, Typed, Sound, Stop, Statics, Bootstrap
<1>3. Told(Stop(s))   BY DEF Good, Typed, Told, Stop, Unleased
<1> QED  BY <1>1, <1>2, <1>3 DEF Good

\* A send keeps the types.
LEMMA SentTyped ==
  ASSUME NEW s, Typed(s), NEW p \in Answer
  PROVE  /\ Typed(Sent(s, p)) /\ Sent(s, p).m = s.m /\ Sent(s, p).boot = s.boot
         /\ Sent(s, p).rx = s.rx
  BY SMTT(20) DEF Typed, Sent

\* An answer that Main's lease agrees with can be sent.
LEMMA SentGood ==
  ASSUME NEW s, Good(s), NEW p \in Answer,
         p = "PROXY" => s.m.granted, p = "NATIVE" => s.m.native
  PROVE  Good(Sent(s, p))
<1>1. /\ Typed(Sent(s, p)) /\ Sent(s, p).m = s.m /\ Sent(s, p).boot = s.boot
      /\ Sent(s, p).rx = s.rx
  BY SentTyped DEF Good
<1>2. Sound(Sent(s, p))  BY <1>1 DEF Good, Sound
<1>3. Told(Sent(s, p))
  <2>1. CASE child.conn
    <3>1. s.tx \in Seq(Answer)  BY DEF Good, Typed
    <3>2. Sent(s, p).tx = Append(s.tx, p)  BY <2>1, <3>1 DEF Sent, Good, Typed
    <3> DEFINE t == Sent(s, p)
    <3>3. t.m = s.m /\ t.rx = s.rx /\ t.tx = Append(s.tx, p)  BY <1>1, <3>2
    <3>4. Told(s)  BY DEF Good
    <3> HIDE DEF t
    <3>5. Told(t)  BY <3>1, <3>3, <3>4 DEF Told
    <3> QED  BY <3>5 DEF t
  <2>2. CASE ~child.conn  BY <2>2 DEF Told, Live
  <2> QED  BY <2>1, <2>2
<1> QED  BY <1>1, <1>2, <1>3 DEF Good

\* deny() keeps the types.
LEMMA DenyTyped ==
  ASSUME NEW s, Typed(s), ~s.m.native
  PROVE  Typed(Deny(s))
<1> DEFINE t == Sent(s, "NO")
<1>1. Typed(t) /\ t.m = s.m  BY SentTyped DEF Answer
<1>2. Deny(s) = [t EXCEPT !.m = [@ EXCEPT !.open = FALSE, !.requested = FALSE, !.granted = FALSE],
                          !.rx = << >>]
  BY DEF Deny
<1> DEFINE n == [t.m EXCEPT !.open = FALSE, !.requested = FALSE, !.granted = FALSE]
<1>3. t.m \in Statics /\ ~t.m.native  BY <1>1 DEF Typed
<1>4. n \in Statics /\ ~n.open /\ ~n.requested /\ ~n.granted /\ ~n.native
  BY <1>3 DEF Statics
<1>5. Deny(s) = [t EXCEPT !.m = n, !.rx = << >>]  BY <1>1, <1>2 DEF Typed
<1> HIDE DEF t, n
<1>6. Deny(s).m = n /\ Deny(s).rx = << >>  BY <1>1, <1>5 DEF Typed
<1>7. Deny(s) \in [m : Statics, boot : Bootstrap, loader : Loader, rx : Seq(Packet), tx : Seq(Answer)]
  BY <1>1, <1>4, <1>5, NothingUnderWay DEF Typed
<1> QED  BY <1>4, <1>6, <1>7 DEF Typed

\* deny() is only right without a lease.
LEMMA DenyGood ==
  ASSUME NEW s, Good(s), Unleased(s)
  PROVE  Good(Deny(s))
<1> DEFINE t == Sent(s, "NO")
<1>1. Good(t) /\ t.m = s.m /\ t.boot = s.boot  BY SentGood, SentTyped DEF Answer, Good
<1>2. Deny(s) = [t EXCEPT !.m = [@ EXCEPT !.open = FALSE, !.requested = FALSE, !.granted = FALSE],
                          !.rx = << >>]
  BY DEF Deny
<1>3. Typed(Deny(s))  BY DenyTyped DEF Good, Unleased
<1>4. Typed(t) /\ ~t.m.granted /\ ~t.m.native  BY <1>1 DEF Good, Unleased
<1> HIDE DEF t
<1> DEFINE n == [t.m EXCEPT !.open = FALSE, !.requested = FALSE, !.granted = FALSE]
<1>5. /\ Deny(s).boot = t.boot /\ Deny(s).tx = t.tx /\ Deny(s).rx = << >>
      /\ Deny(s).m.offer = t.m.offer
      /\ ~Deny(s).m.open /\ ~Deny(s).m.granted /\ ~Deny(s).m.native
  <2>1. t.m \in Statics  BY <1>4 DEF Typed
  <2>2. n.offer = t.m.offer /\ n.native = t.m.native /\ ~n.open /\ ~n.granted
    BY <2>1 DEF Statics
  <2>3. Deny(s) = [t EXCEPT !.m = n, !.rx = << >>]  BY <1>2, <1>4 DEF Typed
  <2> HIDE DEF n
  <2> QED  BY <1>4, <2>2, <2>3 DEF Typed
<1>6. Sound(Deny(s))  BY <1>1, <1>5 DEF Good, Sound
<1>7. Told(Deny(s))   BY <1>1, <1>4, <1>5 DEF Good, Told
<1> QED  BY <1>3, <1>6, <1>7 DEF Good
-----------------------------------------------------------------------------
(* The poll of scanout.cpp *)

\* Changes of the loader and its flag do not touch the lease.
LEMMA LoaderGood ==
  ASSUME NEW s, Good(s), NEW l \in Loader
  PROVE  /\ Good([s EXCEPT !.loader = l])
         /\ Unleased(s) => Unleased([s EXCEPT !.loader = l])
  BY DEF Good, Typed, Sound, Told, Unleased

\* Likewise for loader_tried.
LEMMA TriedGood ==
  ASSUME NEW s, Good(s), Unleased(s)
  PROVE  Good([s EXCEPT !.m.tried = TRUE]) /\ Unleased([s EXCEPT !.m.tried = TRUE])
<1> DEFINE n == [s.m EXCEPT !.tried = TRUE]
           t == [s EXCEPT !.m = n]
<1>1. s.m \in Statics  BY DEF Good, Typed
<1>2. /\ n \in Statics /\ n.open = s.m.open /\ n.requested = s.m.requested
      /\ n.granted = s.m.granted /\ n.native = s.m.native /\ n.offer = s.m.offer
  BY <1>1 DEF Statics
<1>3. [s EXCEPT !.m.tried = TRUE] = t  BY DEF Good, Typed
<1> HIDE DEF n
<1>4. t.m = n /\ t.boot = s.boot /\ t.tx = s.tx /\ t.rx = s.rx  BY DEF Good, Typed
<1>5. Typed(t)  BY <1>2, <1>4 DEF Good, Typed
<1> HIDE DEF t
<1> QED  BY <1>2, <1>3, <1>4, <1>5 DEF Good, Sound, Told, Unleased

\* ensure_module() works for a request that waits: there is no lease yet.
LEMMA EnsureModuleGood ==
  ASSUME NEW s, Good(s), Unleased(s), NEW forks \in BOOLEAN
  PROVE  Good(EnsureModule(s, forks))
<1>1. CASE dev = "other"
  <2>1. EnsureModule(s, forks) = Deny(s)  BY <1>1 DEF EnsureModule
  <2> QED  BY <2>1, DenyGood
<1>2. CASE dev = "absent" /\ s.loader \in {"ok", "bad"}
  <2>1. EnsureModule(s, forks) = Deny([s EXCEPT !.loader = "none"])  BY <1>2 DEF EnsureModule
  <2> QED  BY <2>1, DenyGood, LoaderGood DEF Loader
<1>3. CASE dev = "absent" /\ s.loader = "late"
  <2>1. EnsureModule(s, forks) = Deny([s EXCEPT !.loader = "killed"])  BY <1>3 DEF EnsureModule
  <2> QED  BY <2>1, DenyGood, LoaderGood DEF Loader
<1>4. CASE dev = "absent" /\ s.loader = "none" /\ ~s.m.tried
  <2> DEFINE t == [s EXCEPT !.m.tried = TRUE]
  <2>1. \/ EnsureModule(s, forks) = Deny(t)
        \/ EnsureModule(s, forks) = [t EXCEPT !.loader = "young"]
    BY <1>4 DEF EnsureModule
  <2>2. Good(t) /\ Unleased(t)  BY TriedGood
  <2> HIDE DEF t
  <2> QED  BY <2>1, <2>2, DenyGood, LoaderGood DEF Loader
<1>5. CASE /\ dev # "other"
           /\ dev = "absent" => /\ s.loader \notin {"ok", "bad", "late"}
                                /\ ~(s.loader = "none" /\ ~s.m.tried)
  <2>1. EnsureModule(s, forks) = s  BY <1>5 DEF EnsureModule
  <2> QED  BY <2>1
<1> QED  BY <1>1, <1>2, <1>3, <1>4, <1>5

\* The native window is leased under a native offer for the verified module.
LEMMA NativeGood ==
  ASSUME NEW s, Good(s), s.m.requested, dev = "ours", s.m.offer = "native"
  PROVE  Good([s EXCEPT !.m.native = TRUE]) /\ [s EXCEPT !.m.native = TRUE].m.native
<1> DEFINE n == [s.m EXCEPT !.native = TRUE]
           t == [s EXCEPT !.m = n]
<1>1. s.m \in Statics  BY DEF Good, Typed
<1>2. /\ n \in Statics /\ n.open = s.m.open /\ n.requested = s.m.requested
      /\ n.granted = s.m.granted /\ n.native /\ n.offer = s.m.offer
  BY <1>1 DEF Statics
<1>3. [s EXCEPT !.m.native = TRUE] = t  BY DEF Good, Typed
<1> HIDE DEF n
<1>4. t.m = n /\ t.boot = s.boot /\ t.tx = s.tx /\ t.rx = s.rx  BY DEF Good, Typed
<1>5. Typed(t)  BY <1>2, <1>4 DEF Good, Typed
<1> HIDE DEF t
<1>6. Sound(t) /\ Told(t)  BY <1>2, <1>4 DEF Good, Sound, Told
<1> QED  BY <1>2, <1>3, <1>4, <1>5, <1>6 DEF Good

\* The slots are leased under a proxy offer for the verified module, and the
\* grant stops the startup timer.
LEMMA SlotsGood ==
  ASSUME NEW s, Good(s), s.m.requested, dev = "ours", s.m.offer # "native"
  PROVE  LET t == [s EXCEPT !.m.granted = TRUE, !.boot = Grant(@)]
         IN  Good(t) /\ t.m.granted
<1> DEFINE n == [s.m EXCEPT !.granted = TRUE]
           b == [s.boot EXCEPT !.timer = "off"]
           t == [s EXCEPT !.m = n, !.boot = b]
<1>1. s.m \in Statics /\ s.boot \in Bootstrap  BY DEF Good, Typed
<1>2. /\ n \in Statics /\ n.open = s.m.open /\ n.requested = s.m.requested
      /\ n.granted /\ n.native = s.m.native /\ n.offer = s.m.offer
  BY <1>1 DEF Statics
<1>3. b \in Bootstrap /\ b.hidden = s.boot.hidden /\ b.timer = "off"
  BY <1>1 DEF Bootstrap
<1>4. s.m.offer = "proxy"  BY <1>1 DEF Good, Typed, Sound, Statics, Mode
<1>5. [s EXCEPT !.m.granted = TRUE, !.boot = Grant(@)] = t  BY DEF Good, Typed, Grant
<1> HIDE DEF n, b
<1>6. t.m = n /\ t.boot = b /\ t.tx = s.tx /\ t.rx = s.rx  BY DEF Good, Typed
<1>7. Typed(t)  BY <1>2, <1>3, <1>6 DEF Good, Typed
<1> HIDE DEF t
<1>8. Sound(t) /\ Told(t)  BY <1>2, <1>3, <1>4, <1>6 DEF Good, Sound, Told
<1> QED  BY <1>2, <1>5, <1>6, <1>7, <1>8 DEF Good

\* The tail of poll(), whatever it decides.
LEMMA DecideGood ==
  ASSUME NEW s, Good(s), NEW conflict \in BOOLEAN, NEW forks \in BOOLEAN
  PROVE  Good(Decide(s, conflict, forks))
<1> DEFINE waits == s.m.requested /\ ~s.m.granted /\ ~s.m.native /\ s.m.ready = "yes"
<1>1. CASE ~waits
  <2>1. Decide(s, conflict, forks) = s  BY <1>1 DEF Decide
  <2> QED  BY <2>1
<1>2. CASE waits /\ conflict
  <2>1. Decide(s, conflict, forks) = Deny(s)  BY <1>2 DEF Decide
  <2> QED  BY <1>2, <2>1, DenyGood DEF Unleased
<1>3. CASE waits /\ ~conflict /\ dev # "ours"
  <2>1. Decide(s, conflict, forks) = EnsureModule(s, forks)  BY <1>3 DEF Decide
  <2> QED  BY <1>3, <2>1, EnsureModuleGood DEF Unleased
<1>4. CASE waits /\ ~conflict /\ dev = "ours" /\ ~child.conn
  <2>1. Decide(s, conflict, forks) = Stop(s)  BY <1>4 DEF Decide
  <2> QED  BY <1>4, <2>1, StopGood DEF Unleased
<1>5. CASE waits /\ ~conflict /\ dev = "ours" /\ child.conn /\ s.m.offer = "native"
  <2>1. Decide(s, conflict, forks) = Sent([s EXCEPT !.m.native = TRUE], "NATIVE")
    BY <1>5 DEF Decide
  <2> QED  BY <1>5, <2>1, NativeGood, SentGood DEF Answer
<1>6. CASE waits /\ ~conflict /\ dev = "ours" /\ child.conn /\ s.m.offer # "native"
  <2> DEFINE t == [s EXCEPT !.m.granted = TRUE, !.boot = Grant(@)]
  <2>1. Decide(s, conflict, forks) = Sent(t, "PROXY")
    BY <1>6 DEF Decide
  <2>2. Good(t) /\ t.m.granted  BY <1>6, SlotsGood
  <2> HIDE DEF t
  <2> QED  BY <2>1, <2>2, SentGood DEF Answer
<1> QED  BY <1>1, <1>2, <1>3, <1>4, <1>5, <1>6

\* A request that is taken waits on an open socket.
LEMMA RequestedGood ==
  ASSUME NEW s, Good(s), s.m.open
  PROVE  Good([s EXCEPT !.m.requested = TRUE])
<1> DEFINE n == [s.m EXCEPT !.requested = TRUE]
           t == [s EXCEPT !.m = n]
<1>1. s.m \in Statics  BY DEF Good, Typed
<1>2. /\ n \in Statics /\ n.open = s.m.open /\ n.requested
      /\ n.granted = s.m.granted /\ n.native = s.m.native /\ n.offer = s.m.offer
  BY <1>1 DEF Statics
<1>3. [s EXCEPT !.m.requested = TRUE] = t  BY DEF Good, Typed
<1> HIDE DEF n
<1>4. t.m = n /\ t.boot = s.boot /\ t.tx = s.tx /\ t.rx = s.rx  BY DEF Good, Typed
<1>5. Typed(t)  BY <1>2, <1>4 DEF Good, Typed
<1> HIDE DEF t
<1> QED  BY <1>2, <1>3, <1>4, <1>5 DEF Good, Sound, Told

\* poll() on one packet: what does not belong is denied only without a lease.
LEMMA ReceiveGood ==
  ASSUME NEW s, Good(s), s.m.open, NEW p \in Packet,
         NEW conflict \in BOOLEAN, NEW forks \in BOOLEAN
  PROVE  Good(Receive(s, p, conflict, forks))
<1>1. CASE s.m.native \/ (s.m.granted /\ p # "packet")
  <2>1. Receive(s, p, conflict, forks) = s  BY <1>1 DEF Receive
  <2> QED  BY <2>1
<1>2. CASE ~s.m.native /\ s.m.granted /\ p = "packet"
  <2>1. Receive(s, p, conflict, forks) = Sent(s, "reply")  BY <1>2 DEF Receive
  <2> QED  BY <2>1, SentGood DEF Answer
<1>3. CASE ~s.m.native /\ ~s.m.granted /\ (s.m.requested \/ p # "request")
  <2>1. Receive(s, p, conflict, forks) = Deny(s)  BY <1>3 DEF Receive
  <2> QED  BY <1>3, <2>1, DenyGood DEF Unleased
<1>4. CASE ~s.m.native /\ ~s.m.granted /\ ~s.m.requested /\ p = "request"
  <2>1. Receive(s, p, conflict, forks) = Decide([s EXCEPT !.m.requested = TRUE], conflict, forks)
    BY <1>4 DEF Receive
  <2> QED  BY <2>1, RequestedGood, DecideGood
<1> QED  BY <1>1, <1>2, <1>3, <1>4

\* The packet that poll() takes out of the socket.
LEMMA TakenGood ==
  ASSUME NEW s, Good(s), s.m.open, s.rx # << >>
  PROVE  /\ Good([s EXCEPT !.rx = Tail(@)]) /\ [s EXCEPT !.rx = Tail(@)].m.open
         /\ Head(s.rx) \in Packet
<1> DEFINE r == Tail(s.rx)
           t == [s EXCEPT !.rx = r]
<1>1. s.rx \in Seq(Packet)  BY DEF Good, Typed
<1>2. /\ r \in Seq(Packet) /\ Head(s.rx) \in Packet
      /\ \A i \in 1..Len(r) : r[i] = s.rx[i + 1] /\ i + 1 \in 1..Len(s.rx)
  BY <1>1, HeadTailProperties
<1> HIDE DEF r
<1>3. t.m = s.m /\ t.boot = s.boot /\ t.tx = s.tx /\ t.rx = r  BY DEF Good, Typed
<1>4. Typed(t)  BY <1>2, <1>3 DEF Good, Typed
<1>5. [s EXCEPT !.rx = Tail(@)] = t  BY DEF Good, Typed, r
<1> HIDE DEF t
<1>6. Sound(t)  BY <1>3 DEF Good, Sound
<1>7. Told(t)
  <2>1. Live => \A i \in 1..Len(t.rx) : t.rx[i] # "empty"  BY <1>2, <1>3 DEF Good, Told
  <2> QED  BY <1>3, <2>1 DEF Good, Told
<1> QED  BY <1>2, <1>3, <1>4, <1>5, <1>6, <1>7 DEF Good

\* An empty packet comes only from a frontend that is no owner to LeaseHolds.
LEMMA NotEmpty ==
  ASSUME NEW s, Good(s), s.rx # << >>, Head(s.rx) = "empty"
  PROVE  ~Live
<1>1. s.rx \in Seq(Packet)  BY DEF Good, Typed
<1>2. 1 \in 1..Len(s.rx) /\ s.rx[1] = Head(s.rx)  BY <1>1
<1> QED  BY <1>2 DEF Good, Told

\* zaparoo_scanout::poll.
LEMMA ScanoutPollGood ==
  ASSUME NEW s, Good(s), NEW conflict \in BOOLEAN, NEW forks \in BOOLEAN
  PROVE  Good(ScanoutPoll(s, conflict, forks))
<1> DEFINE t == IF ~s.m.open \/ s.m.granted \/ s.m.native
                  THEN [s EXCEPT !.loader = Reaped(@)] ELSE s
<1>1. Good(t)
  <2>1. Reaped(s.loader) \in Loader  BY DEF Good, Typed, Reaped, Loader
  <2> DEFINE l == Reaped(s.loader)
  <2>2. Good([s EXCEPT !.loader = l])  BY <2>1, LoaderGood
  <2>3. [s EXCEPT !.loader = Reaped(@)] = [s EXCEPT !.loader = l]  OBVIOUS
  <2> QED  BY <2>2, <2>3
<1>2. ScanoutPoll(s, conflict, forks) =
        IF ~t.m.open THEN t
        ELSE IF t.rx # << >> /\ Head(t.rx) = "empty" THEN Stop(t)
        ELSE IF t.rx # << >>
          THEN Receive([t EXCEPT !.rx = Tail(@)], Head(t.rx), conflict, forks)
        ELSE IF ~child.conn THEN Stop(t)
        ELSE Decide(t, conflict, forks)
  BY DEF ScanoutPoll
<1> HIDE DEF t
<1>3. CASE ~t.m.open  BY <1>1, <1>2, <1>3
<1>4. CASE t.m.open /\ t.rx # << >> /\ Head(t.rx) # "empty"
  BY <1>1, <1>2, <1>4, TakenGood, ReceiveGood
<1>7. CASE t.m.open /\ t.rx # << >> /\ Head(t.rx) = "empty"
  <2>1. ~Live  BY <1>1, <1>7, NotEmpty
  <2> QED  BY <1>1, <1>2, <1>7, <2>1, StopGood
<1>5. CASE t.m.open /\ t.rx = << >> /\ ~child.conn
  BY <1>1, <1>2, <1>5, StopGood DEF Live
<1>6. CASE t.m.open /\ t.rx = << >> /\ child.conn  BY <1>1, <1>2, <1>6, DecideGood
<1> QED  BY <1>3, <1>4, <1>5, <1>6, <1>7
-----------------------------------------------------------------------------
(* The polls of alt_launcher *)

\* cancel() ends the black of any state.
LEMMA ShownGood ==
  ASSUME NEW s, Good(s)
  PROVE  /\ Good([s EXCEPT !.boot = Shown])
         /\ Unleased(s) => Unleased([s EXCEPT !.boot = Shown])
<1> DEFINE t == [s EXCEPT !.boot = Shown]
<1>1. Shown \in Bootstrap /\ ~Shown.hidden  BY DEF Shown, Bootstrap
<1>2. t.m = s.m /\ t.boot = Shown /\ t.tx = s.tx /\ t.rx = s.rx  BY DEF Good, Typed
<1>3. Typed(t)  BY <1>1, <1>2 DEF Good, Typed
<1> HIDE DEF t
<1> QED  BY <1>1, <1>2, <1>3 DEF Good, Sound, Told, Unleased, t

\* fallback() only times an offer that has lost its socket: it comes under no lease.
LEMMA FallbackGood ==
  ASSUME NEW s, Good(s), ~s.m.open
  PROVE  Good([s EXCEPT !.boot = Fallback(@)])
<1> DEFINE b == Fallback(s.boot)
           t == [s EXCEPT !.boot = b]
<1>1. s.boot \in Bootstrap  BY DEF Good, Typed
<1>2. b \in Bootstrap /\ b.hidden = s.boot.hidden  BY <1>1 DEF Fallback, Bootstrap
<1>3. [s EXCEPT !.boot = Fallback(@)] = t  OBVIOUS
<1> HIDE DEF b
<1>4. t.m = s.m /\ t.boot = b /\ t.tx = s.tx /\ t.rx = s.rx  BY DEF Good, Typed
<1>5. Typed(t)  BY <1>2, <1>4 DEF Good, Typed
<1>6. ~s.m.granted  BY DEF Good, Typed
<1> HIDE DEF t
<1> QED  BY <1>2, <1>3, <1>4, <1>5, <1>6 DEF Good, Sound, Told

\* A poll up to waitpid, with a frontend to poll for.
LEMMA PollHeadGood ==
  ASSUME Good(S), NEW conflict \in BOOLEAN, NEW forks \in BOOLEAN
  PROVE  Good(PollHead(conflict, forks))
<1> DEFINE s == ScanoutPoll(S, conflict, forks)
<1>1. Good(s)  BY ScanoutPollGood
<1>2. PollHead(conflict, forks) = IF s.m.open THEN s ELSE [s EXCEPT !.boot = Fallback(@)]
  BY DEF PollHead
<1> HIDE DEF s
<1> QED  BY <1>1, <1>2, FallbackGood

\* The startup timer ends no lease: under one it is off, or nothing is black.
LEMMA ExpireGood ==
  ASSUME NEW s, Good(s)
  PROVE  Good(Expire(s))
<1>1. CASE s.boot.hidden /\ s.boot.timer = "due"
  <2>1. Unleased(s)  BY <1>1 DEF Good, Sound, Unleased
  <2>2. Expire(s) = Stop([s EXCEPT !.boot = Shown])  BY <1>1 DEF Expire
  <2> QED  BY <2>1, <2>2, ShownGood, StopGood
<1>2. CASE ~(s.boot.hidden /\ s.boot.timer = "due")
  <2>1. Expire(s) = s  BY <1>2 DEF Expire
  <2> QED  BY <2>1
<1> QED  BY <1>1, <1>2

\* s_scanout_ready says nothing of a lease.
LEMMA ReadyGood ==
  ASSUME NEW s, Good(s), NEW r \in {"no", "due", "yes"}
  PROVE  Good([s EXCEPT !.m.ready = r])
<1> DEFINE n == [s.m EXCEPT !.ready = r]
           t == [s EXCEPT !.m = n]
<1>1. s.m \in Statics  BY DEF Good, Typed
<1>2. /\ n \in Statics /\ n.open = s.m.open /\ n.requested = s.m.requested
      /\ n.granted = s.m.granted /\ n.native = s.m.native /\ n.offer = s.m.offer
  BY <1>1 DEF Statics
<1>3. [s EXCEPT !.m.ready = r] = t  BY DEF Good, Typed
<1> HIDE DEF n
<1>4. t.m = n /\ t.boot = s.boot /\ t.tx = s.tx /\ t.rx = s.rx  BY DEF Good, Typed
<1>5. Typed(t)  BY <1>2, <1>4 DEF Good, Typed
<1> HIDE DEF t
<1> QED  BY <1>2, <1>3, <1>4, <1>5 DEF Good, Sound, Told

\* What a poll that ends the frontend leaves, with any mode and black after it:
\* the next spawn makes its own offer, so only the types are asked for.
LEMMA StoppedTyped ==
  ASSUME NEW s, Typed(s), NEW mode \in Mode, NEW b \in Bootstrap
  PROVE  /\ Typed(Stopped(s)) /\ ~Stopped(s).m.open
         /\ Typed([Stopped(s) EXCEPT !.boot = b])
         /\ ~[Stopped(s) EXCEPT !.boot = b].m.open
         /\ Typed([Stopped(s) EXCEPT !.m.mode = mode, !.boot = b])
         /\ ~[Stopped(s) EXCEPT !.m.mode = mode, !.boot = b].m.open
<1> DEFINE t == Stop(s)
           n == [t.m EXCEPT !.ready = "no"]
           u == [t EXCEPT !.m = n, !.tx = << >>]
           q == [n EXCEPT !.mode = mode]
<1>1. Typed(t) /\ ~t.m.open /\ Unleased(t)  BY StopTyped
<1>2. Stopped(s) = [t EXCEPT !.m.ready = "no", !.tx = << >>]  BY DEF Stopped
<1> HIDE DEF t
<1>3. t.m \in Statics /\ ~t.m.requested /\ ~t.m.granted /\ ~t.m.native
  BY <1>1 DEF Typed, Unleased
<1>4. n \in Statics /\ ~n.open /\ ~n.requested /\ ~n.granted /\ ~n.native
  BY <1>1, <1>3 DEF Statics
<1>5. q \in Statics /\ ~q.open /\ ~q.requested /\ ~q.granted /\ ~q.native
  BY <1>4 DEF Statics
<1>6. Stopped(s) = u  BY <1>1, <1>2 DEF Typed
<1> HIDE DEF n
<1>7. << >> \in Seq(Answer)  OBVIOUS
<1>8. u.m = n /\ Typed(u)  BY <1>1, <1>4, <1>7 DEF Typed
<1> HIDE DEF u
<1>9. Typed([u EXCEPT !.boot = b]) /\ [u EXCEPT !.boot = b].m = n  BY <1>4, <1>8 DEF Typed
<1>10. [u EXCEPT !.m.mode = mode, !.boot = b] = [u EXCEPT !.m = q, !.boot = b]
  BY <1>8 DEF Typed
<1> HIDE DEF q
<1>11. /\ Typed([u EXCEPT !.m = q, !.boot = b])
       /\ [u EXCEPT !.m = q, !.boot = b].m = q
  BY <1>1, <1>4, <1>5, <1>8 DEF Typed
<1> QED  BY <1>4, <1>5, <1>6, <1>8, <1>9, <1>10, <1>11

\* The offers of the launcher and the black of the next start.
LEMMA ModesAreModes == Modes \subseteq Mode
  BY DEF Modes, Mode

\* Only a proxy offer starts black.
LEMMA BeginBlack ==
  ASSUME NEW mode
  PROVE  Begin(mode) \in Bootstrap /\ (Begin(mode).hidden => mode = "proxy")
  BY DEF Begin, Shown, Bootstrap

\* prepare() makes a fresh offer: nothing of the one before is left in it.
LEMMA PrepareTyped ==
  ASSUME NEW s, Typed(s), NEW mode \in Mode
  PROVE  LET t == Prepare(s, mode)
         IN  /\ Typed(t) /\ Unleased(t)
             /\ t.boot = s.boot /\ t.tx = << >> /\ t.rx = << >> /\ t.m.offer = mode
             /\ t.m.open => mode # "none"
<1> DEFINE t == Stop(s)
           o == mode # "none" /\ t.loader = "none" /\ box.profile
           n == [t.m EXCEPT !.tried = FALSE, !.offer = mode, !.open = o]
<1>1. Typed(t) /\ ~t.m.open /\ Unleased(t)  BY StopTyped
<1>2. t.boot = s.boot /\ t.rx = << >>  BY DEF Stop, Typed
<1>3. Prepare(s, mode) = [t EXCEPT !.m = n, !.tx = << >>]
  BY <1>1 DEF Prepare, Typed
<1>4. o \in BOOLEAN /\ (o => mode # "none")  OBVIOUS
<1> HIDE DEF t, o
<1>5. t.m \in Statics /\ ~t.m.requested /\ ~t.m.granted /\ ~t.m.native
  BY <1>1 DEF Typed, Unleased
<1>6. /\ n \in Statics /\ n.open = o /\ ~n.requested /\ ~n.granted /\ ~n.native
      /\ n.offer = mode
  BY <1>4, <1>5 DEF Statics
<1> HIDE DEF n
<1>7. << >> \in Seq(Answer)  OBVIOUS
<1> QED  BY <1>1, <1>2, <1>3, <1>4, <1>6, <1>7 DEF Typed, Unleased
-----------------------------------------------------------------------------
(* The invariant *)

Installation ==
  /\ box \in [direct : BOOLEAN, profile : BOOLEAN, file : {"missing", "wrong", "ours"},
              fbuf : BOOLEAN]
  /\ dev \in {"absent", "ours", "other"}
  /\ child \in [st : {"none", "up", "stuck", "dead"}, conn : BOOLEAN,
                view : {"start", "asked", "slots", "native", "alone"},
                empty : BOOLEAN]

\* TypeOK, as the functions on S have it.
LEMMA TypesAreTyped == TypeOK <=> Installation /\ Typed(S)
  BY DEF TypeOK, Installation, Typed, S

\* Where an action that Main takes ends.
LEMMA Landing ==
  ASSUME NEW s, Becomes(s), Typed(s), Installation'
  PROVE  TypeOK' /\ S' = s
<1>1. S' = s  BY DEF S, Becomes, Typed
<1>2. Typed(S')  BY <1>1
<1>3. Typed(S)' <=> Typed(S')  BY DEF Typed
<1> QED  BY <1>1, <1>2, <1>3, TypesAreTyped, PTL

\* A poll, a spawn or a stop after which there is no frontend.
LEMMA WithoutChild ==
  ASSUME IInv, NEW s, Becomes(s), Typed(s), ~s.m.open, child' = NoChild,
         UNCHANGED <<box, dev>>
  PROVE  IInv'
<1>1. Installation'  BY TypesAreTyped DEF IInv, Installation, NoChild
<1>2. TypeOK' /\ S' = s  BY <1>1, Landing
<1>3. ~m'.open  BY <1>2 DEF S, Becomes
<1> QED  BY <1>2, <1>3 DEF IInv, NoChild

\* With nobody to poll for, nothing is granted or under way.
LEMMA InitIInv == Init => IInv
<1> SUFFICES ASSUME Init PROVE IInv  OBVIOUS
<1> USE DEF Init
<1>1. Modes \subseteq Mode  BY ModesAreModes
<1>2. m \in Statics /\ ~m.open /\ ~m.requested /\ ~m.granted /\ ~m.native
  BY <1>1 DEF Statics, Mode
<1>3. << >> \in Seq(Packet) /\ << >> \in Seq(Answer)  OBVIOUS
<1>4. Typed(S)  BY <1>2, <1>3 DEF Typed, S, Shown, Bootstrap, Loader
<1>5. Installation  BY DEF Installation, NoChild
<1> QED  BY <1>2, <1>4, <1>5, TypesAreTyped DEF IInv, NoChild

\* A poll with a frontend that runs keeps the lease of that frontend.
LEMMA PollStep == ASSUME IInv, Poll PROVE IInv'
<1>1. PICK conflict \in BOOLEAN, forks \in BOOLEAN : PollLive(conflict, forks)
  BY DEF Poll
<1>2. Good(S) /\ Installation  BY <1>1, TypesAreTyped DEF PollLive, IInv, Good
<1>3. PICK s \in {Expire(PollHead(conflict, forks))} :
        Becomes([s EXCEPT !.m.ready = IF @ = "due" THEN "yes" ELSE @])
  BY <1>1 DEF PollLive
<1>4. Good(s)  BY <1>2, <1>3, PollHeadGood, ExpireGood
<1> DEFINE r == IF s.m.ready = "due" THEN "yes" ELSE s.m.ready
           t == [s EXCEPT !.m.ready = r]
<1>5. Becomes(t)
  <2>1. [s EXCEPT !.m.ready = IF @ = "due" THEN "yes" ELSE @] = t
    BY <1>4 DEF Good, Typed, Statics
  <2> QED  BY <1>3, <2>1
<1>6. r \in {"no", "due", "yes"}  BY <1>4 DEF Good, Typed, Statics
<1> HIDE DEF r
<1>7. Good(t)  BY <1>4, <1>6, ReadyGood
<1> HIDE DEF t
<1>8. UNCHANGED <<box, dev, child>> /\ child.st # "none"  BY <1>1 DEF PollLive
<1>9. Installation'  BY <1>2, <1>8 DEF Installation
<1>10. TypeOK' /\ S' = t  BY <1>5, <1>7, <1>9, Landing DEF Good
<1>11. Sound(S)' /\ Told(S)'
  BY <1>7, <1>8, <1>10 DEF Good, Sound, Told, Live
<1> QED  BY <1>8, <1>10, <1>11 DEF IInv

\* A poll that reaps the frontend ends its offer.
LEMMA PollReapStep == ASSUME IInv, PollReap PROVE IInv'
<1>1. Good(S)  BY TypesAreTyped DEF PollReap, IInv, Good
<1>2. PICK conflict \in BOOLEAN, forks \in BOOLEAN :
        \E s \in {Stopped(PollHead(conflict, forks))} :
       \/ \E mode \in Modes : Becomes([s EXCEPT !.m.mode = mode, !.boot = Begin(mode)])
       \/ Becomes([s EXCEPT !.m.mode = IF box.direct THEN "none" ELSE "proxy",
                            !.boot = Shown])
       \/ Becomes([s EXCEPT !.boot = Begin(m.mode)])
  BY DEF PollReap
<1>3. PICK s \in {Stopped(PollHead(conflict, forks))} :
       \/ \E mode \in Modes : Becomes([s EXCEPT !.m.mode = mode, !.boot = Begin(mode)])
       \/ Becomes([s EXCEPT !.m.mode = IF box.direct THEN "none" ELSE "proxy",
                            !.boot = Shown])
       \/ Becomes([s EXCEPT !.boot = Begin(m.mode)])
  BY <1>2
<1>4. Typed(PollHead(conflict, forks))  BY <1>1, PollHeadGood DEF Good
<1>5. child' = NoChild /\ UNCHANGED <<box, dev>>  BY DEF PollReap
<1>6. CASE \E mode \in Modes : Becomes([s EXCEPT !.m.mode = mode, !.boot = Begin(mode)])
  <2>1. PICK mode \in Modes : Becomes([s EXCEPT !.m.mode = mode, !.boot = Begin(mode)])
    BY <1>6
  <2>2. mode \in Mode /\ Begin(mode) \in Bootstrap  BY ModesAreModes, BeginBlack
  <2> DEFINE t == [s EXCEPT !.m.mode = mode, !.boot = Begin(mode)]
  <2>3. Typed(t) /\ ~t.m.open  BY <1>3, <1>4, <2>2, StoppedTyped
  <2> HIDE DEF t
  <2> QED  BY <1>5, <2>1, <2>3, WithoutChild DEF t
<1>7. CASE Becomes([s EXCEPT !.m.mode = IF box.direct THEN "none" ELSE "proxy", !.boot = Shown])
  <2> DEFINE mode == IF box.direct THEN "none" ELSE "proxy"
             t == [s EXCEPT !.m.mode = mode, !.boot = Shown]
  <2>1. mode \in Mode /\ Shown \in Bootstrap  BY DEF Mode, Shown, Bootstrap
  <2>2. Becomes(t)  BY <1>7
  <2> HIDE DEF mode
  <2>3. Typed(t) /\ ~t.m.open  BY <1>3, <1>4, <2>1, StoppedTyped
  <2> HIDE DEF t
  <2> QED  BY <1>5, <2>2, <2>3, WithoutChild
<1>8. CASE Becomes([s EXCEPT !.boot = Begin(m.mode)])
  <2> DEFINE t == [s EXCEPT !.boot = Begin(m.mode)]
  <2>1. Begin(m.mode) \in Bootstrap /\ "none" \in Mode  BY BeginBlack DEF Mode
  <2>2. Becomes(t)  BY <1>8
  <2>3. Typed(t) /\ ~t.m.open  BY <1>3, <1>4, <2>1, StoppedTyped
  <2> HIDE DEF t
  <2> QED  BY <1>5, <2>2, <2>3, WithoutChild
<1> QED  BY <1>3, <1>6, <1>7, <1>8
\* A poll without a frontend.
LEMMA PollIdleStep == ASSUME IInv, PollIdle PROVE IInv'
<1>1. Typed(S) /\ Installation  BY TypesAreTyped DEF IInv
<1> DEFINE t == Stopped(S)
<1>2. Typed(t) /\ ~t.m.open  BY <1>1, StoppedTyped, BeginBlack DEF Mode
<1>3. Becomes(t) /\ child.st = "none" /\ UNCHANGED <<box, dev, child>>  BY DEF PollIdle
<1> HIDE DEF t
<1>4. Installation'  BY <1>1, <1>3 DEF Installation
<1>5. TypeOK' /\ S' = t  BY <1>2, <1>3, <1>4, Landing
<1>6. ~m'.open  BY <1>2, <1>3 DEF Becomes
<1> QED  BY <1>3, <1>5, <1>6 DEF IInv

\* alt_launcher_init makes no offer; the spawn after it does.
LEMMA LauncherInitStep == ASSUME IInv, LauncherInit PROVE IInv'
<1>1. Typed(S) /\ Installation  BY TypesAreTyped DEF IInv
<1>2. PICK mode \in Modes : Becomes([S EXCEPT !.m.mode = mode, !.boot = Begin(mode)])
  BY DEF LauncherInit
<1>3. mode \in Mode /\ Begin(mode) \in Bootstrap  BY ModesAreModes, BeginBlack
<1> DEFINE n == [m EXCEPT !.mode = mode]
           b == Begin(mode)
           t == [S EXCEPT !.m = n, !.boot = b]
<1>4. m \in Statics  BY <1>1 DEF Typed, S
<1>5. /\ n \in Statics /\ n.open = m.open /\ n.requested = m.requested
      /\ n.granted = m.granted /\ n.native = m.native
  BY <1>3, <1>4 DEF Statics
<1>6. [S EXCEPT !.m.mode = mode, !.boot = Begin(mode)] = t
  <2>1. S.m = m  BY DEF S
  <2> QED  BY <1>1, <2>1 DEF Typed
<1> HIDE DEF n, b
<1>7. Typed(t) /\ t.m.open = m.open
  <2>1. S.m = m /\ b \in Bootstrap  BY <1>3 DEF S, b
  <2>2. t.m = n /\ t.boot = b /\ t.rx = S.rx  BY <1>1 DEF Typed
  <2> QED  BY <1>1, <1>5, <2>1, <2>2 DEF Typed
<1>8. Becomes(t)  BY <1>2, <1>6
<1> HIDE DEF t
<1>9. child.st = "none" /\ UNCHANGED <<box, dev, child>>  BY DEF LauncherInit
<1>10. Installation'  BY <1>1, <1>9 DEF Installation
<1>11. TypeOK' /\ S' = t  BY <1>7, <1>8, <1>10, Landing
<1>12. ~m'.open  BY <1>7, <1>8, <1>9 DEF Becomes, IInv
<1> QED  BY <1>9, <1>11, <1>12 DEF IInv

\* A spawn starts a frontend that was told nothing, with an offer of its own and
\* the black that this offer may have.
LEMMA SpawnStep == ASSUME IInv, Spawn PROVE IInv'
<1>1. Typed(S) /\ Installation  BY TypesAreTyped DEF IInv
<1> DEFINE mode == m.mode
           q == [Stopped(S) EXCEPT !.boot = Begin(m.mode)]
           s == Prepare(q, mode)
<1>2. m.mode \in Mode  BY <1>1 DEF Typed, S, Statics
<1>3. Begin(m.mode) \in Bootstrap /\ (Begin(m.mode).hidden => m.mode = "proxy")
  BY BeginBlack
<1>4. Typed(q)  BY <1>1, <1>2, <1>3, StoppedTyped
<1>5. q.boot = Begin(m.mode)
  <2>1. Typed(Stopped(S))  BY <1>1, <1>2, <1>3, StoppedTyped
  <2> QED  BY <2>1 DEF Typed
<1>6. PICK forks \in BOOLEAN :
        IF forks THEN Becomes(s) /\ child' = [NoChild EXCEPT !.st = "up", !.conn = s.m.open]
                 ELSE Becomes(Stop([s EXCEPT !.boot = Shown])) /\ UNCHANGED child
  BY DEF Spawn
<1>7. child.st = "none" /\ UNCHANGED <<box, dev>>  BY DEF Spawn
<1> HIDE DEF q
<1>8. /\ Typed(s) /\ Unleased(s)
      /\ s.boot = q.boot /\ s.tx = << >> /\ s.rx = << >> /\ s.m.offer = m.mode
      /\ s.m.open => m.mode # "none"
  BY <1>2, <1>4, PrepareTyped
<1> HIDE DEF s
<1>9. CASE forks
  <2>1. Becomes(s) /\ child' = [NoChild EXCEPT !.st = "up", !.conn = s.m.open]
    BY <1>6, <1>9
  <2>2. s.m.open \in BOOLEAN  BY <1>8 DEF Typed, Statics
  <2>7. child' = [st |-> "up", conn |-> s.m.open, view |-> "start", empty |-> FALSE]
    BY <2>1 DEF NoChild
  <2>3. Installation'  BY <1>1, <1>7, <2>2, <2>7 DEF Installation
  <2>4. TypeOK' /\ S' = s  BY <1>8, <2>1, <2>3, Landing
  <2>5. Sound(S)'  BY <1>3, <1>5, <1>8, <2>4 DEF Sound, Unleased
  <2>8. s.rx = << >>  BY <1>8
  <2>6. Told(S)'  BY <1>8, <2>7, <2>8, <2>4 DEF Told
  <2> QED  BY <2>7, <2>4, <2>5, <2>6 DEF IInv
<1>10. CASE ~forks
  <2> DEFINE t == [s EXCEPT !.boot = Shown]
             u == Stop(t)
  <2>1. Typed(t)  BY <1>8 DEF Typed, Shown, Bootstrap
  <2>2. Becomes(u) /\ UNCHANGED child  BY <1>6, <1>10
  <2> HIDE DEF t
  <2>3. Typed(u) /\ ~u.m.open  BY <2>1, StopTyped
  <2> HIDE DEF u
  <2>4. Installation'  BY <1>1, <1>7, <2>2 DEF Installation
  <2>5. TypeOK' /\ S' = u  BY <2>2, <2>3, <2>4, Landing
  <2>6. ~m'.open  BY <2>2, <2>3 DEF Becomes
  <2> QED  BY <1>7, <2>2, <2>5, <2>6 DEF IInv
<1> QED  BY <1>9, <1>10

\* A stop either reaps the frontend and ends its offer, or leaves all of it to a
\* frontend that is stuck.
LEMMA StopFrontendStep == ASSUME IInv, StopFrontend PROVE IInv'
<1>1. Typed(S) /\ Installation  BY TypesAreTyped DEF IInv
<1>2. child.st \in {"up", "stuck", "dead"} /\ UNCHANGED <<box, dev>>  BY DEF StopFrontend
<1>3. CASE /\ child' = NoChild
           /\ Becomes([Stopped(S) EXCEPT !.boot = Shown])
  <2> DEFINE t == [Stopped(S) EXCEPT !.boot = Shown]
  <2>1. Shown \in Bootstrap /\ "none" \in Mode  BY DEF Shown, Bootstrap, Mode
  <2>2. Typed(t) /\ ~t.m.open  BY <1>1, <2>1, StoppedTyped
  <2>3. Becomes(t)  BY <1>3
  <2> HIDE DEF t
  <2> QED  BY <1>2, <1>3, <2>2, <2>3, WithoutChild
<1>4. CASE /\ child' = NoChild
           /\ \E mode \in Modes : Becomes([Stopped(S) EXCEPT !.m.mode = mode, !.boot = Begin(mode)])
  <2>1. PICK mode \in Modes : Becomes([Stopped(S) EXCEPT !.m.mode = mode, !.boot = Begin(mode)])
    BY <1>4
  <2> DEFINE t == [Stopped(S) EXCEPT !.m.mode = mode, !.boot = Begin(mode)]
  <2>2. mode \in Mode /\ Begin(mode) \in Bootstrap  BY ModesAreModes, BeginBlack
  <2>3. Typed(t) /\ ~t.m.open  BY <1>1, <2>2, StoppedTyped
  <2>4. Becomes(t)  BY <2>1
  <2> HIDE DEF t
  <2> QED  BY <1>2, <1>4, <2>3, <2>4, WithoutChild
<1>5. CASE /\ child.st # "dead"
           /\ child' = [child EXCEPT !.st = "stuck"]
           /\ UNCHANGED <<m, boot, loader, rx, tx>>
  <2>1. child \in [st : {"none", "up", "stuck", "dead"}, conn : BOOLEAN,
                   view : {"start", "asked", "slots", "native", "alone"},
                   empty : BOOLEAN]
    BY <1>1 DEF Installation
  <2>2. /\ Installation'
        /\ child'.st = "stuck" /\ child'.conn = child.conn /\ child'.view = child.view
    BY <1>1, <1>2, <1>5, <2>1 DEF Installation
  <2>3. TypeOK'
    BY <1>2, <1>5, <2>2 DEF IInv, TypeOK, Installation
  <2>4. Sound(S)'  BY <1>2, <1>5 DEF IInv, Sound, S
  <2>5. Told(S)'  BY <1>2, <1>5, <2>2 DEF IInv, Told, Live, S
  <2> QED  BY <2>2, <2>3, <2>4, <2>5 DEF IInv
<1> QED  BY <1>3, <1>4, <1>5 DEF StopFrontend
\* The timers and the loader change nothing that a lease depends on: an armed
\* timer may fall due, but the timer of a lease is off; a device may appear, but
\* the verified one does not go.
LEMMA ClockStep ==
  ASSUME IInv, BootDue \/ FinalizeDue \/ LoaderLate \/ LoaderInserts \/ LoaderExits
  PROVE  IInv'
<1>1. CASE BootDue
  <2>1. /\ boot' \in Bootstrap /\ boot'.hidden = boot.hidden
        /\ boot.timer = "armed" /\ UNCHANGED <<box, m, loader, dev, child, rx, tx>>
    BY <1>1 DEF BootDue, IInv, TypeOK, Bootstrap
  <2> QED  BY <2>1 DEF IInv, TypeOK, Sound, Told, Live, S
<1>2. CASE FinalizeDue
  <2>1. m \in Statics /\ m' = [m EXCEPT !.ready = "due"]
    BY <1>2 DEF FinalizeDue, IInv, TypeOK
  <2>2. /\ m' \in Statics /\ m'.open = m.open /\ m'.requested = m.requested
        /\ m'.granted = m.granted /\ m'.native = m.native /\ m'.offer = m.offer
    BY <2>1 DEF Statics
  <2>3. UNCHANGED <<box, boot, loader, dev, child, rx, tx>>  BY <1>2 DEF FinalizeDue
  <2> QED  BY <2>2, <2>3 DEF IInv, TypeOK, Sound, Told, Live, S
<1>3. CASE LoaderLate
  BY <1>3 DEF LoaderLate, IInv, TypeOK, Sound, Told, Live, S, Loader
<1>4. CASE LoaderInserts
  BY <1>4 DEF LoaderInserts, IInv, TypeOK, Sound, Told, Live, S
<1>5. CASE LoaderExits
  BY <1>5 DEF LoaderExits, IInv, TypeOK, Sound, Told, Live, S, Loader
<1> QED  BY <1>1, <1>2, <1>3, <1>4, <1>5

\* A frontend may send anything: it gets no lease by it.
LEMMA FrontendSendsStep ==
  ASSUME IInv, NEW p \in Packet, FrontendSends(p)
  PROVE  IInv'
<1>1. /\ child.st = "up" /\ child.conn /\ m.open /\ rx' = Append(rx, p)
      /\ UNCHANGED <<box, m, boot, loader, dev, tx>>
  BY DEF FrontendSends
<1> DEFINE v == IF p = "request" /\ child.view = "start" THEN "asked" ELSE child.view
           e == child.empty \/ p = "empty"
<1>2. child' = [child EXCEPT !.view = v, !.empty = e]  BY DEF FrontendSends
<1>3. child \in [st : {"none", "up", "stuck", "dead"}, conn : BOOLEAN,
                 view : {"start", "asked", "slots", "native", "alone"},
                 empty : BOOLEAN]
  BY DEF IInv, TypeOK
<1>4. v \in {"start", "asked", "slots", "native", "alone"} /\ (v = child.view \/ v = "asked")
  BY <1>3
<1>9. e \in BOOLEAN /\ (~e => ~child.empty /\ p # "empty")  BY <1>3
<1> HIDE DEF v, e
<1>5. /\ child' \in [st : {"none", "up", "stuck", "dead"}, conn : BOOLEAN,
                     view : {"start", "asked", "slots", "native", "alone"},
                     empty : BOOLEAN]
      /\ child'.st = "up" /\ child'.conn = child.conn /\ child'.view = v /\ child'.empty = e
  BY <1>1, <1>2, <1>3, <1>4, <1>9
<1>6. rx' \in Seq(Packet)  BY <1>1 DEF IInv, TypeOK
<1>7. TypeOK'  BY <1>1, <1>5, <1>6 DEF IInv, TypeOK
<1>8. Sound(S)'  BY <1>1 DEF IInv, Sound, S
<1>10. Told(S)'
  <2>1. rx \in Seq(Packet) /\ Told(S) /\ S.rx = rx /\ S.tx = tx /\ S.m = m
    BY <1>1 DEF IInv, TypeOK, S
  <2> SUFFICES ASSUME ~e PROVE Told(S)'  BY <1>5 DEF Told, Live
  <2>2. Live  BY <1>1, <1>9 DEF Live
  <2>3. \A i \in 1..Len(rx') : rx'[i] # "empty"
    BY <1>1, <1>9, <2>1, <2>2 DEF Told
  <2> QED  BY <1>1, <1>4, <1>5, <2>1, <2>2, <2>3 DEF Told, S
<1> QED  BY <1>5, <1>7, <1>8, <1>10 DEF IInv

\* A frontend that reads it has a lease is one that Main counts as the owner: it
\* was so of the answer while the answer was under way.
LEMMA FrontendReadsStep == ASSUME IInv, FrontendReads PROVE IInv'
<1>1. child.st = "up" /\ child.conn /\ UNCHANGED <<box, m, boot, loader, dev, rx>>
  BY DEF FrontendReads
<1>2. child \in [st : {"none", "up", "stuck", "dead"}, conn : BOOLEAN,
                 view : {"start", "asked", "slots", "native", "alone"},
                 empty : BOOLEAN]
  BY DEF IInv, TypeOK
<1>3. tx \in Seq(Answer) /\ S.tx = tx /\ S.m = m /\ S.rx = rx  BY DEF IInv, TypeOK, S
<1>4. Sound(S)'  BY <1>1 DEF IInv, Sound, S
<1>5. CASE tx # << >>
  <2> DEFINE v == CASE Head(tx) = "PROXY" -> "slots"
                    [] Head(tx) = "NATIVE" -> "native"
                    [] Head(tx) = "NO" -> "alone"
                    [] OTHER -> child.view
  <2>1. tx' = Tail(tx) /\ child' = [child EXCEPT !.view = v]  BY <1>5 DEF FrontendReads
  <2>2. /\ v = "slots" => Head(tx) = "PROXY" \/ child.view = "slots"
        /\ v = "native" => Head(tx) = "NATIVE" \/ child.view = "native"
        /\ v \in {"start", "asked", "slots", "native", "alone"}
    <3>1. CASE Head(tx) = "PROXY"  BY <3>1
    <3>2. CASE Head(tx) = "NATIVE"  BY <3>2
    <3>3. CASE Head(tx) = "NO"  BY <3>3
    <3>4. CASE Head(tx) \notin {"PROXY", "NATIVE", "NO"}  BY <1>2, <3>4
    <3> QED  BY <3>1, <3>2, <3>3, <3>4
  <2> HIDE DEF v
  <2>3. /\ child' \in [st : {"none", "up", "stuck", "dead"}, conn : BOOLEAN,
                       view : {"start", "asked", "slots", "native", "alone"},
                       empty : BOOLEAN]
        /\ child'.st = "up" /\ child'.conn = child.conn /\ child'.view = v
        /\ child'.empty = child.empty
    BY <1>1, <1>2, <2>1, <2>2
  <2>4. /\ tx' \in Seq(Answer) /\ Len(tx') = Len(tx) - 1 /\ Len(tx) \in Nat
        /\ \A i \in 1..Len(tx') : tx'[i] = tx[i + 1]
        /\ Head(tx) = tx[1] /\ 1 \in 1..Len(tx)
    BY <1>3, <1>5, <2>1
  <2>5. TypeOK'  BY <1>1, <2>3, <2>4 DEF IInv, TypeOK
  <2>6. Told(S)
    BY <1>1 DEF IInv
  <2>8. \A i \in 1..Len(tx') : i + 1 \in 1..Len(tx)  BY <2>4
  <2>10. Told(S)'
    <3> SUFFICES ASSUME ~child.empty PROVE Told(S)'  BY <2>3 DEF Told, Live
    <3>1. /\ \A i \in 1..Len(tx) : tx[i] = "PROXY" => m.granted
          /\ \A i \in 1..Len(tx) : tx[i] = "NATIVE" => m.native
          /\ \A i \in 1..Len(rx) : rx[i] # "empty"
          /\ child.view = "slots" => m.granted
          /\ child.view = "native" => m.native
      BY <1>1, <1>3, <2>6 DEF Told, Live
    <3>2. /\ \A i \in 1..Len(tx') : tx'[i] = "PROXY" => m'.granted
          /\ \A i \in 1..Len(tx') : tx'[i] = "NATIVE" => m'.native
          /\ child'.view = "slots" => m'.granted
          /\ child'.view = "native" => m'.native
      BY <1>1, <2>2, <2>3, <2>4, <3>1, <2>8
    <3> QED  BY <1>1, <3>1, <3>2 DEF Told, S
  <2> QED  BY <1>4, <2>3, <2>5, <2>10 DEF IInv
<1>6. CASE tx = << >>
  <2>1. child' = [child EXCEPT !.view = "alone", !.conn = FALSE] /\ UNCHANGED tx
    BY <1>6 DEF FrontendReads
  <2>2. /\ child' \in [st : {"none", "up", "stuck", "dead"}, conn : BOOLEAN,
                       view : {"start", "asked", "slots", "native", "alone"},
                       empty : BOOLEAN]
        /\ child'.st = "up" /\ ~child'.conn
    BY <1>1, <1>2, <2>1
  <2>3. TypeOK'  BY <1>1, <2>1, <2>2 DEF IInv, TypeOK
  <2>4. Told(S)'  BY <2>2 DEF Told, Live
  <2> QED  BY <1>4, <2>2, <2>3, <2>4 DEF IInv
<1> QED  BY <1>5, <1>6

\* A frontend that leaves or dies is no owner any more.
LEMMA FrontendEndsStep ==
  ASSUME IInv, FrontendLeaves \/ FrontendDies
  PROVE  IInv'
<1>1. child \in [st : {"none", "up", "stuck", "dead"}, conn : BOOLEAN,
                 view : {"start", "asked", "slots", "native", "alone"},
                 empty : BOOLEAN]
  BY DEF IInv, TypeOK
<1>2. /\ child.st # "none" /\ UNCHANGED <<box, m, boot, loader, dev, rx>>
      /\ tx' \in Seq(Answer)
  <2>1. << >> \in Seq(Answer)  OBVIOUS
  <2>2. CASE FrontendLeaves  BY <2>1, <2>2 DEF FrontendLeaves
  <2>3. CASE FrontendDies  BY <2>3 DEF FrontendDies, IInv, TypeOK
  <2> QED  BY <2>2, <2>3
<1>3. /\ child' \in [st : {"none", "up", "stuck", "dead"}, conn : BOOLEAN,
                     view : {"start", "asked", "slots", "native", "alone"},
                     empty : BOOLEAN]
      /\ child'.st # "none" /\ ~Live'
  <2>1. CASE FrontendLeaves
    <3>1. child.st = "up" /\ child' = [child EXCEPT !.view = "alone", !.conn = FALSE]
      BY <2>1 DEF FrontendLeaves
    <3> QED  BY <1>1, <3>1 DEF Live
  <2>2. CASE FrontendDies
    <3>1. PICK conn \in {FALSE, child.conn} :
            child' = [child EXCEPT !.st = "dead", !.conn = conn, !.view = "alone"]
      BY <2>2 DEF FrontendDies
    <3>2. conn \in BOOLEAN  BY <1>1
    <3> QED  BY <1>1, <3>1, <3>2 DEF Live
  <2> QED  BY <2>1, <2>2
<1>4. TypeOK'  BY <1>2, <1>3 DEF IInv, TypeOK
<1>5. Sound(S)' /\ Told(S)'  BY <1>2, <1>3 DEF IInv, Sound, Told, S
<1> QED  BY <1>3, <1>4, <1>5 DEF IInv

\* The invariant is inductive.
LEMMA NextIInv == IInv /\ [Next]_vars => IInv'
<1> SUFFICES ASSUME IInv, [Next]_vars PROVE IInv'  OBVIOUS
<1>1. CASE Poll  BY <1>1, PollStep
<1>2. CASE PollReap  BY <1>2, PollReapStep
<1>3. CASE PollIdle  BY <1>3, PollIdleStep
<1>4. CASE LauncherInit  BY <1>4, LauncherInitStep
<1>5. CASE Spawn  BY <1>5, SpawnStep
<1>6. CASE StopFrontend  BY <1>6, StopFrontendStep
<1>7. CASE BootDue \/ FinalizeDue \/ LoaderLate \/ LoaderInserts \/ LoaderExits
  BY <1>7, ClockStep
<1>8. CASE \E p \in Packet : FrontendSends(p)  BY <1>8, FrontendSendsStep
<1>9. CASE FrontendReads  BY <1>9, FrontendReadsStep
<1>10. CASE FrontendLeaves \/ FrontendDies  BY <1>10, FrontendEndsStep
<1>11. CASE UNCHANGED vars
  BY <1>11 DEF vars, IInv, TypeOK, Sound, Told, Live, S
<1> QED  BY <1>1, <1>2, <1>3, <1>4, <1>5, <1>6, <1>7, <1>8, <1>9, <1>10, <1>11 DEF Next

-----------------------------------------------------------------------------
(* The theorems *)

\* The variables keep their types: no request, lease or packet without a socket,
\* no lease without a request.
THEOREM SpecTypeOK == Spec => []TypeOK
<1>1. IInv => TypeOK  BY DEF IInv
<1> QED  BY <1>1, InitIInv, NextIInv, PTL DEF Spec

\* A frontend that was told it has the slots or the native window is the owner as
\* long as it runs and keeps its socket, and Main grants only a request, under
\* the offer it made, for the module it verified (scanout.cpp, bootstrap.h).
THEOREM SpecLeaseHolds == Spec => []LeaseHolds
<1>1. IInv => LeaseHolds
  <2> SUFFICES ASSUME IInv PROVE LeaseHolds  OBVIOUS
  <2>1. CASE child.st = "none"  BY <2>1 DEF IInv, TypeOK, LeaseHolds
  <2>2. CASE child.st # "none"
    <3>1. Sound(S) /\ Told(S) /\ S.m = m /\ S.boot = boot  BY <2>2 DEF IInv, S
    <3> QED  BY <2>2, <3>1 DEF Sound, Told, Live, LeaseHolds
  <2> QED  BY <2>1, <2>2
<1> QED  BY <1>1, InitIInv, NextIInv, PTL DEF Spec
=============================================================================
