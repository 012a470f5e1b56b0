-------------------------- MODULE RaSessionProofs --------------------------
(***************************************************************************)
(* The RetroAchievements session, proved for any number of ROMs,           *)
(* achievements and actions of the user, and rings of any capacity.        *)
(*                                                                         *)
(* What the callbacks of rc_client do is stated on a world [q, a, c]: each *)
(* one keeps the flags in agreement with the client (Agree), loses no      *)
(* award that was under way, and adds no answer of success (Keeps).  A     *)
(* poll is one of them after another, so these facts are all that the      *)
(* steps of the main thread need, beside two about the rest: memory that   *)
(* is validated, or is confirmed by the frame that comes, was written by   *)
(* the core since it was cleared, or by the scan that was in flight then   *)
(* (Live), and a success that is on its way  *)
(* is recorded by the server (Recorded).                                   *)
(***************************************************************************)
EXTENDS RaSession, SequenceTheorems, FiniteSetTheorems, TLAPS

Response == [req : Request, status : Status]
Rings == [reqs : Seq(Request), resps : Seq(Response), lost : SUBSET Request]
Fits(p) == Len(p.reqs) <= Cap /\ Len(p.resps) <= Cap
Client == [load : Load \cup {NoLoad}, game : Rom \cup {None}, unlocked : SUBSET Ach,
           retry : SUBSET Ach, unlisted : SUBSET Unlisted]
Mirror == [magic : BOOLEAN, moved : BOOLEAN, live : BOOLEAN,
           scan : {"none", "whole", "cut"}, partial : BOOLEAN]

\* TypeOK, with these types
Typed ==
  /\ q \in Rings /\ Fits(q)
  /\ exec \in Request \cup {NoRequest} /\ a \in Statics /\ c \in Client
  /\ server \subseteq Ach /\ earned \in [unlocked : SUBSET Ach, refused : SUBSET Ach]
  /\ mirror \in Mirror /\ adapted \in BOOLEAN
  /\ pc \in {"idle", "poll", "frame", "retry"} /\ user \in 0 .. MaxUser

\* SessionAgrees, of any flags and client
Agree(st, cl) ==
  /\ st.loaded = (cl.game \in Rom \ Unlisted)
  /\ st.loadPending = (cl.load # NoLoad)
  /\ st.loaded => cl.game = st.rom
  /\ cl.load # NoLoad => cl.load.rom = st.rom /\ cl.game = None

\* A world in which a callback may be called
World0 == [q : Rings, a : Statics, c : Client]
Sound(w) == w \in World0 /\ Fits(w.q) /\ Agree(w.a, w.c)

\* A request is in a ring, or lost
Has(p, r) ==
  \/ \E i \in DOMAIN p.reqs : p.reqs[i] = r
  \/ \E i \in DOMAIN p.resps : p.resps[i].req = r
  \/ r \in p.lost

\* The rings lose no award, and no answer of success is new
KeepsRings(p, p2) ==
  /\ \A x \in Ach, n \in 0 .. 2 : Has(p, AwardReq(x, n)) => Has(p2, AwardReq(x, n))
  /\ \A i \in DOMAIN p2.resps :
       p2.resps[i].status = "ok" => \E j \in DOMAIN p.resps : p.resps[j] = p2.resps[i]

\* What every callback keeps
Keeps(w, v) ==
  /\ v.a.rom = w.a.rom /\ v.a.validated = w.a.validated /\ v.a.confirming = w.a.confirming
  /\ w.c.retry \subseteq v.c.retry
  /\ KeepsRings(w.q, v.q)

\* Memory that is validated, or will be by the frame counter, is the core's
Live == /\ a.validated => mirror.live \/ mirror.partial
        /\ a.confirming /\ mirror.moved => mirror.live \/ mirror.partial

\* An answer of success is recorded by the server before it is on its way
RecordedIn(p, s) ==
  \A i \in DOMAIN p.resps :
    p.resps[i].req.kind = "award" /\ p.resps[i].status = "ok" => p.resps[i].req.of \in s
Recorded == RecordedIn(q, server)

IInv == TypeOK /\ SessionAgrees /\ EvaluatedIsLive /\ EarnedIsKept /\ Live /\ Recorded

-----------------------------------------------------------------------------
(* The rings *)

\* What RaAssumption says of the constants.
LEMMA Constants ==
  /\ Cap \in Nat /\ Cap > 0 /\ MaxUser \in Nat
  /\ None \notin Rom /\ None \notin LoadId /\ None \notin Ach /\ Unlisted \subseteq Rom
  BY RaAssumption

\* TypeOK, a variable at a time.
LEMMA Types ==
  /\ TypeOK <=> Typed
  /\ TypeOK' <=> Typed'
<1> USE DEF Response, Rings, Fits, Client, Mirror
<1>1. TypeOK <=> Typed
  BY DEF TypeOK, Typed
<1>2. TypeOK' <=> Typed'
  BY DEF TypeOK, Typed
<1> QED BY <1>1, <1>2

\* The requests, by kind.
LEMMA RequestIs ==
  ASSUME NEW r \in Request
  PROVE  /\ r.kind \in {"login", "sets", "session", "award"}
         /\ r.kind \in {"sets", "session"} => r.of \in Load
         /\ r.kind = "session" => r.of.rom \notin Unlisted
         /\ r.kind = "award" => r.of \in Ach /\ r.tries \in 0 .. 2 /\ r = AwardReq(r.of, r.tries)
<1>1. CASE r \in [kind : {"login"}, of : {None}, tries : {0}]
  BY <1>1
<1>2. CASE r \in [kind : {"sets"}, of : Load, tries : {0}]
  BY <1>2
<1>3. CASE r \in [kind : {"session"}, of : {l \in Load : l.rom \notin Unlisted}, tries : {0}]
  BY <1>3
<1>4. CASE r \in [kind : {"award"}, of : Ach, tries : 0 .. 2]
  BY <1>4 DEF AwardReq
<1> QED BY <1>1, <1>2, <1>3, <1>4 DEF Request

\* The requests that are made.
LEMMA RequestsMade ==
  /\ LoginReq \in Request /\ LoginReq.kind = "login"
  /\ \A l \in Load : LoadReq("sets", l) \in Request
  /\ \A l \in Load : l.rom \notin Unlisted => LoadReq("session", l) \in Request
  /\ \A x \in Ach, n \in 0 .. 2 : AwardReq(x, n) \in Request
                                  /\ AwardReq(x, n).kind = "award" /\ AwardReq(x, n).of = x
<1>1. LoginReq \in Request /\ LoginReq.kind = "login"
  BY DEF LoginReq, Request
<1>2. ASSUME NEW l \in Load
      PROVE  /\ LoadReq("sets", l) \in Request
             /\ l.rom \notin Unlisted => LoadReq("session", l) \in Request
  BY DEF LoadReq, Request
<1>3. ASSUME NEW x \in Ach, NEW n \in 0 .. 2
      PROVE  AwardReq(x, n) \in Request /\ AwardReq(x, n).kind = "award" /\ AwardReq(x, n).of = x
  BY DEF AwardReq, Request
<1> QED BY <1>1, <1>2, <1>3

\* A response is pushed behind the others, or the request is lost.
LEMMA RespondIs ==
  ASSUME NEW p \in Rings, Fits(p), NEW r \in Request, NEW status \in Status
  PROVE  /\ Respond(p, r, status) \in Rings /\ Fits(Respond(p, r, status))
         /\ Has(Respond(p, r, status), r)
         /\ \A x : Has(p, x) => Has(Respond(p, r, status), x)
         /\ \A i \in DOMAIN Respond(p, r, status).resps :
              \/ Respond(p, r, status).resps[i] = Answer(r, status)
              \/ \E j \in DOMAIN p.resps : p.resps[j] = Respond(p, r, status).resps[i]
<1> DEFINE v == Respond(p, r, status)
           ans == Answer(r, status)
<1>0. ans \in Response /\ ans.req = r
  BY DEF Answer, Response
<1>1. CASE Len(p.resps) < Cap
  <2>1. v = [p EXCEPT !.resps = Append(p.resps, ans)]
    BY <1>1 DEF Respond
  <2> HIDE DEF v, ans
  <2>2. p.resps \in Seq(Response) /\ Len(p.resps) \in Nat
    BY DEF Rings
  <2>3. /\ Append(p.resps, ans) \in Seq(Response) /\ Len(Append(p.resps, ans)) = Len(p.resps) + 1
        /\ \A i \in 1 .. Len(p.resps) : Append(p.resps, ans)[i] = p.resps[i]
        /\ Append(p.resps, ans)[Len(p.resps) + 1] = ans
        /\ DOMAIN Append(p.resps, ans) = 1 .. Len(p.resps) + 1 /\ DOMAIN p.resps = 1 .. Len(p.resps)
    BY <1>0, <2>2, AppendProperties, LenProperties
  <2>4. /\ v \in Rings /\ v.reqs = p.reqs /\ v.lost = p.lost /\ v.resps = Append(p.resps, ans)
    BY <2>1, <2>3 DEF Rings
  <2>5. Fits(v)
    BY <1>1, <2>2, <2>3, <2>4, Constants DEF Fits
  <2>6. Has(v, r)
    BY <1>0, <2>2, <2>3, <2>4 DEF Has
  <2>7. ASSUME NEW x, Has(p, x) PROVE Has(v, x)
    <3>1. ASSUME NEW i \in DOMAIN p.resps PROVE i \in DOMAIN v.resps /\ v.resps[i] = p.resps[i]
      BY <2>2, <2>3, <2>4
    <3> QED BY <2>4, <2>7, <3>1 DEF Has
  <2>8. ASSUME NEW i \in DOMAIN v.resps
        PROVE  v.resps[i] = ans \/ \E j \in DOMAIN p.resps : p.resps[j] = v.resps[i]
    BY <2>2, <2>3, <2>4
  <2> QED BY <2>4, <2>5, <2>6, <2>7, <2>8 DEF v, ans
<1>2. CASE ~(Len(p.resps) < Cap)
  <2>1. v = [p EXCEPT !.lost = p.lost \cup {r}]
    BY <1>2 DEF Respond
  <2> HIDE DEF v, ans
  <2>2. v \in Rings /\ v.reqs = p.reqs /\ v.resps = p.resps /\ v.lost = p.lost \cup {r}
    BY <2>1 DEF Rings
  <2>3. Fits(v) /\ Has(v, r) /\ \A x : Has(p, x) => Has(v, x)
    BY <2>2 DEF Fits, Has
  <2> QED BY <2>2, <2>3 DEF v, ans
<1> QED BY <1>1, <1>2

\* A request is queued, answered at once or lost, and never answered with success.
LEMMA SendIs ==
  ASSUME NEW p \in Rings, Fits(p), NEW r \in Request
  PROVE  /\ Send(p, r) \in Rings /\ Fits(Send(p, r)) /\ Has(Send(p, r), r)
         /\ KeepsRings(p, Send(p, r))
<1> DEFINE v == Send(p, r)
<1>1. CASE Len(p.reqs) < Cap
  <2>1. v = [p EXCEPT !.reqs = Append(p.reqs, r)]
    BY <1>1 DEF Send
  <2> HIDE DEF v
  <2>2. p.reqs \in Seq(Request) /\ Len(p.reqs) \in Nat
    BY DEF Rings
  <2>3. /\ Append(p.reqs, r) \in Seq(Request) /\ Len(Append(p.reqs, r)) = Len(p.reqs) + 1
        /\ \A i \in 1 .. Len(p.reqs) : Append(p.reqs, r)[i] = p.reqs[i]
        /\ Append(p.reqs, r)[Len(p.reqs) + 1] = r
        /\ DOMAIN Append(p.reqs, r) = 1 .. Len(p.reqs) + 1 /\ DOMAIN p.reqs = 1 .. Len(p.reqs)
    BY <2>2, AppendProperties, LenProperties
  <2>4. v \in Rings /\ v.resps = p.resps /\ v.lost = p.lost /\ v.reqs = Append(p.reqs, r)
    BY <2>1, <2>3 DEF Rings
  <2>5. Fits(v)
    BY <1>1, <2>2, <2>3, <2>4, Constants DEF Fits
  <2>6. Has(v, r)
    BY <2>2, <2>3, <2>4 DEF Has
  <2>7. ASSUME NEW x, Has(p, x) PROVE Has(v, x)
    <3>1. ASSUME NEW i \in DOMAIN p.reqs PROVE i \in DOMAIN v.reqs /\ v.reqs[i] = p.reqs[i]
      BY <2>2, <2>3, <2>4
    <3> QED BY <2>4, <2>7, <3>1 DEF Has
  <2> QED BY <2>4, <2>5, <2>6, <2>7 DEF v, KeepsRings
<1>2. CASE ~(Len(p.reqs) < Cap)
  <2>1. v = Respond(p, r, "retryable") /\ "retryable" \in Status
    BY <1>2 DEF Send, Status
  <2>2. Answer(r, "retryable").status # "ok"
    BY DEF Answer
  <2> HIDE DEF v
  <2>3. /\ v \in Rings /\ Fits(v) /\ Has(v, r)
        /\ \A x : Has(p, x) => Has(v, x)
        /\ \A i \in DOMAIN v.resps :
             v.resps[i] = Answer(r, "retryable") \/ \E j \in DOMAIN p.resps : p.resps[j] = v.resps[i]
    BY <2>1, RespondIs
  <2> QED BY <2>2, <2>3 DEF v, KeepsRings
<1> QED BY <1>1, <1>2

\* What is kept by one and then another is kept by both.
LEMMA KeepsOn ==
  ASSUME NEW p1, NEW p2, NEW p3, KeepsRings(p1, p2), KeepsRings(p2, p3)
  PROVE  KeepsRings(p1, p3)
  BY DEF KeepsRings

\* Rings that did not change keep what they have.
LEMMA KeepsSame == \A p : KeepsRings(p, p)
  BY DEF KeepsRings

-----------------------------------------------------------------------------
(* The callbacks *)

\* A request of a load names it.
Names(r, id) == r.kind \in {"sets", "session"} /\ r.of.id = id

\* More loads cannot be named by answers still to come than fit the rings and the
\* worker, so there is a name for the next one.
LEMMA NewIdIsOne == ASSUME TypeOK PROVE NewId \in LoadId
<1> DEFINE Places == 1 .. 2 * Cap + 1
           holds(n, id) == \/ n \in DOMAIN q.reqs /\ Names(q.reqs[n], id)
                           \/ n - Cap \in DOMAIN q.resps /\ Names(q.resps[n - Cap].req, id)
                           \/ n = 2 * Cap + 1 /\ Names(exec, id)
<1>0. /\ DOMAIN q.reqs \subseteq 1 .. Cap /\ DOMAIN q.resps \subseteq 1 .. Cap
      /\ IsFiniteSet(LoadId) /\ Cardinality(LoadId) > 2 * Cap + 1 /\ Cap \in Nat
  <2>1. /\ DOMAIN q.reqs = 1 .. Len(q.reqs) /\ DOMAIN q.resps = 1 .. Len(q.resps)
        /\ Len(q.reqs) <= Cap /\ Len(q.resps) <= Cap /\ Len(q.reqs) \in Nat /\ Len(q.resps) \in Nat
    BY Types DEF Typed, Rings, Fits
  <2> QED BY <2>1, RaAssumption
<1>1. SUFFICES ASSUME \A id \in LoadId : \E r \in Carried : Names(r, id) PROVE FALSE
  BY DEF NewId, Names
<1>2. ASSUME NEW id \in LoadId PROVE \E n \in Places : holds(n, id)
  <2>1. PICK r \in Carried : Names(r, id)
    BY <1>1
  <2>2. CASE \E i \in DOMAIN q.reqs : q.reqs[i] = r
    <3>1. PICK i \in DOMAIN q.reqs : q.reqs[i] = r
      BY <2>2
    <3>2. i \in Places
      BY <1>0
    <3> QED BY <2>1, <3>1, <3>2
  <2>3. CASE \E i \in DOMAIN q.resps : q.resps[i].req = r
    <3>1. PICK i \in DOMAIN q.resps : q.resps[i].req = r
      BY <2>3
    <3>2. i + Cap \in Places /\ (i + Cap) - Cap = i
      BY <1>0
    <3>3. (i + Cap) - Cap \in DOMAIN q.resps /\ Names(q.resps[(i + Cap) - Cap].req, id)
      BY <2>1, <3>1, <3>2
    <3> QED BY <3>2, <3>3
  <2>4. CASE r = exec
    <3>1. 2 * Cap + 1 \in Places
      BY <1>0
    <3> QED BY <2>1, <2>4, <3>1
  <2> QED BY <2>1, <2>2, <2>3, <2>4 DEF Carried
<1> DEFINE f == [id \in LoadId |-> CHOOSE n \in Places : holds(n, id)]
<1>3. \A id \in LoadId : f[id] \in Places /\ holds(f[id], id)
  <2> HIDE DEF holds, Places
  <2> QED BY <1>2
<1>4. f \in [LoadId -> Places]
  <2> HIDE DEF holds, Places
  <2> QED BY <1>2
<1>5. IsFiniteSet(Places) /\ Cardinality(Places) = 2 * Cap + 1
  <2>1. 1 \in Int /\ 2 * Cap + 1 \in Int /\ ~(1 > 2 * Cap + 1) /\ (2 * Cap + 1) - 1 + 1 = 2 * Cap + 1
    BY <1>0
  <2> QED BY <2>1, FS_Interval
<1>6. PICK x \in LoadId, y \in LoadId : x # y /\ f[x] = f[y]
  <2> HIDE DEF f, Places
  <2> QED BY <1>0, <1>4, <1>5, FS_PigeonHole
<1>7. ASSUME NEW n \in Places, holds(n, x), holds(n, y) PROVE FALSE
  <2>1. CASE n <= Cap
    <3>1. ~(n - Cap \in DOMAIN q.resps) /\ n # 2 * Cap + 1
      BY <1>0, <2>1
    <3>2. Names(q.reqs[n], x) /\ Names(q.reqs[n], y)
      BY <1>7, <3>1
    <3> QED BY <3>2, <1>6 DEF Names
  <2>2. CASE n > Cap /\ n # 2 * Cap + 1
    <3>1. n \notin DOMAIN q.reqs
      BY <1>0, <2>2
    <3>2. Names(q.resps[n - Cap].req, x) /\ Names(q.resps[n - Cap].req, y)
      BY <1>7, <2>2, <3>1
    <3> QED BY <3>2, <1>6 DEF Names
  <2>3. CASE n = 2 * Cap + 1
    <3>1. n \notin DOMAIN q.reqs /\ ~(n - Cap \in DOMAIN q.resps)
      BY <1>0, <2>3
    <3>2. Names(exec, x) /\ Names(exec, y)
      BY <1>7, <3>1
    <3> QED BY <3>2, <1>6 DEF Names
  <2> QED BY <1>0, <2>1, <2>2, <2>3
<1> QED
  <2> HIDE DEF f, holds
  <2> QED BY <1>3, <1>6, <1>7

\* An unloaded client has no game and no load, and its retries.
LEMMA UnloadIs ==
  ASSUME NEW cl \in Client
  PROVE  /\ UnloadGame(cl) \in Client /\ UnloadGame(cl).load = NoLoad
         /\ UnloadGame(cl).game = None /\ UnloadGame(cl).retry = cl.retry
         /\ UnloadGame(cl).unlisted = cl.unlisted
  BY DEF UnloadGame, Client

\* The callback of a load ends it.
LEMMA LoadCallbackIs ==
  ASSUME NEW st \in Statics, NEW ok \in BOOLEAN
  PROVE  LET v == LoadCallback(st, ok)
         IN /\ v \in Statics /\ v.loadPending = FALSE /\ v.loaded = (st.loaded \/ ok)
            /\ v.rom = st.rom /\ v.validated = st.validated /\ v.confirming = st.confirming
  BY DEF LoadCallback, Statics

\* Flags of no load and no game agree with a client that has no load, and no game or
\* an Unknown one.
LEMMA NothingAgrees ==
  ASSUME NEW st, NEW cl, st.loaded = FALSE, st.loadPending = FALSE,
         cl.load = NoLoad, cl.game \notin Rom \ Unlisted
  PROVE  Agree(st, cl)
<1>1. (cl.game \in Rom \ Unlisted) = FALSE /\ (cl.load # NoLoad) = FALSE
  OBVIOUS
<1> QED BY <1>1 DEF Agree

\* A load that begins on a client without one agrees with the flags, or is over
\* at once.
LEMMA BeginLoadIs ==
  ASSUME TypeOK, NEW w \in World0, Fits(w.q), NEW rom \in Rom, w.a.rom = rom,
         w.a.loaded = FALSE, w.c.load = NoLoad
  PROVE  Sound(BeginLoad(w, rom)) /\ Keeps(w, BeginLoad(w, rom))
<1> DEFINE l == [id |-> NewId, rom |-> rom]
           st == [w.a EXCEPT !.loadPending = (w.c.load = NoLoad)]
           cl == UnloadGame(w.c)
           p == [w.q EXCEPT !.lost = {r \in @ : r.kind \in {"login", "award"} \/ r.of.id # NewId}]
           v == BeginLoad(w, rom)
<1>0. w.q \in Rings /\ w.a \in Statics /\ w.c \in Client
  BY DEF World0
<1>1. l \in Load /\ l # NoLoad /\ l.rom = rom
  BY NewIdIsOne, Constants DEF Load, NoLoad
<1>2. /\ st \in Statics /\ st.loadPending = TRUE /\ st.loaded = FALSE /\ st.rom = rom
      /\ st.validated = w.a.validated /\ st.confirming = w.a.confirming
  BY <1>0 DEF Statics
<1>3. /\ cl \in Client /\ cl.load = NoLoad /\ cl.game = None /\ cl.retry = w.c.retry
  BY <1>0, UnloadIs
<1>4. p \in Rings /\ Fits(p) /\ KeepsRings(w.q, p)
  <2>1. {r \in w.q.lost : r.kind \in {"login", "award"} \/ r.of.id # NewId} \in SUBSET Request
    BY <1>0 DEF Rings
  <2>2. /\ p \in Rings /\ p.reqs = w.q.reqs /\ p.resps = w.q.resps
        /\ p.lost = {r \in w.q.lost : r.kind \in {"login", "award"} \/ r.of.id # NewId}
    BY <1>0, <2>1 DEF Rings
  <2>3. Fits(p)
    BY <2>2 DEF Fits
  <2>4. ASSUME NEW x \in Ach, NEW n \in 0 .. 2, Has(w.q, AwardReq(x, n))
        PROVE  Has(p, AwardReq(x, n))
    <3>1. AwardReq(x, n).kind = "award"
      BY RequestsMade
    <3> HIDE DEF p
    <3> QED BY <2>2, <2>4, <3>1 DEF Has
  <2> HIDE DEF p
  <2> QED BY <2>2, <2>3, <2>4 DEF KeepsRings
<1> HIDE DEF l, st, cl, p
<1>5. CASE rom \in cl.unlisted
  <2> DEFINE unknown == [cl EXCEPT !.game = rom]
  <2>1. v = [q |-> p, a |-> LoadCallback(st, FALSE), c |-> unknown]
    BY <1>5 DEF BeginLoad, l, st, cl, p
  <2>a. /\ unknown \in Client /\ unknown.load = NoLoad /\ unknown.game = rom
        /\ unknown.retry = w.c.retry /\ rom \in Unlisted
    BY <1>3, <1>5 DEF Client
  <2> HIDE DEF v, unknown
  <2>2. /\ v.a \in Statics /\ v.a.loadPending = FALSE /\ v.a.loaded = FALSE /\ v.a.rom = rom
        /\ v.a.validated = w.a.validated /\ v.a.confirming = w.a.confirming
    BY <1>2, <2>1, LoadCallbackIs
  <2>3. v \in World0 /\ v.q = p /\ v.c = unknown
    BY <1>4, <2>1, <2>2, <2>a DEF World0
  <2>4. Agree(v.a, v.c)
    BY <2>2, <2>3, <2>a, NothingAgrees
  <2>5. Sound(v) /\ Keeps(w, v)
    BY <1>4, <2>2, <2>3, <2>4, <2>a DEF Sound, Keeps
  <2> QED BY <2>5 DEF v
<1>6. CASE rom \notin cl.unlisted
  <2>1. v = [q |-> Send(p, LoadReq("sets", l)), a |-> st, c |-> [cl EXCEPT !.load = l]]
    BY <1>6 DEF BeginLoad, l, st, cl, p
  <2> HIDE DEF v
  <2>2. LoadReq("sets", l) \in Request
    BY <1>1, RequestsMade
  <2>3. /\ v.q \in Rings /\ Fits(v.q) /\ KeepsRings(p, v.q)
    BY <1>4, <2>1, <2>2, SendIs
  <2>4. KeepsRings(w.q, v.q)
    BY <1>4, <2>3, KeepsOn
  <2>5. v.c \in Client /\ v.c.load = l /\ v.c.game = None /\ v.c.retry = w.c.retry
    BY <1>1, <1>3, <2>1 DEF Client
  <2>6. v \in World0 /\ v.a = st
    BY <1>2, <2>1, <2>3, <2>5 DEF World0
  <2>7. Agree(v.a, v.c)
    <3>1. (v.c.game \in Rom \ Unlisted) = FALSE /\ (v.c.load # NoLoad) = TRUE
      BY <1>1, <2>5, Constants
    <3> QED BY <1>1, <1>2, <2>5, <2>6, <3>1 DEF Agree
  <2>8. Sound(v) /\ Keeps(w, v)
    BY <1>2, <2>3, <2>4, <2>5, <2>6, <2>7 DEF Sound, Keeps
  <2> QED BY <2>8 DEF v
<1> QED BY <1>5, <1>6

\* A login that is answered begins the load that waits for it only.
LEMMA LoginAnsweredIs ==
  ASSUME TypeOK, NEW w, Sound(w), NEW status \in Status
  PROVE  Sound(LoginAnswered(w, status)) /\ Keeps(w, LoginAnswered(w, status))
<1> DEFINE st == [w.a EXCEPT !.loginPending = FALSE, !.loggedIn = @ \/ status = "ok"]
           wanted == status = "ok" /\ st.rom # None /\ ~st.loaded /\ ~st.loadPending
           v == LoginAnswered(w, status)
<1>0. w \in World0 /\ w.q \in Rings /\ w.a \in Statics /\ w.c \in Client /\ Fits(w.q) /\ Agree(w.a, w.c)
  BY DEF Sound, World0
<1>1. /\ st \in Statics /\ st.rom = w.a.rom /\ st.validated = w.a.validated
      /\ st.confirming = w.a.confirming /\ st.loaded = w.a.loaded /\ st.loadPending = w.a.loadPending
  BY <1>0 DEF Statics
<1> HIDE DEF st
<1>2. ASSUME NEW s2 \in Statics, s2.rom = st.rom, s2.validated = st.validated,
             s2.confirming = st.confirming, s2.loaded = st.loaded, s2.loadPending = st.loadPending,
             v = [w EXCEPT !.a = s2]
      PROVE  Sound(v) /\ Keeps(w, v)
  <2> HIDE DEF v
  <2>1. v \in World0 /\ v.a = s2 /\ v.q = w.q /\ v.c = w.c
    BY <1>0, <1>2 DEF World0
  <2> QED BY <1>0, <1>1, <1>2, <2>1, KeepsSame DEF Sound, Agree, Keeps
<1>3. CASE ~wanted
  <2>1. v = [w EXCEPT !.a = st]
    BY <1>3 DEF LoginAnswered, st
  <2> HIDE DEF v
  <2> QED BY <1>1, <1>2, <2>1 DEF v
<1>4. CASE wanted /\ ~st.validated
  <2> DEFINE s2 == [st EXCEPT !.deferred = TRUE]
  <2>1. v = [w EXCEPT !.a = s2]
    BY <1>4 DEF LoginAnswered, st
  <2>2. /\ s2 \in Statics /\ s2.rom = st.rom /\ s2.validated = st.validated
        /\ s2.confirming = st.confirming /\ s2.loaded = st.loaded /\ s2.loadPending = st.loadPending
    BY <1>1 DEF Statics
  <2> HIDE DEF v, s2
  <2> QED BY <1>2, <2>1, <2>2 DEF v
<1>5. CASE wanted /\ st.validated
  <2> DEFINE s2 == [st EXCEPT !.deferred = FALSE]
             w2 == [w EXCEPT !.a = s2]
  <2>1. v = BeginLoad(w2, st.rom)
    BY <1>5 DEF LoginAnswered, st
  <2>2. /\ s2 \in Statics /\ s2.rom = st.rom /\ s2.validated = st.validated
        /\ s2.confirming = st.confirming /\ s2.loaded = FALSE
    BY <1>1, <1>5 DEF Statics
  <2>3. st.rom \in Rom
    BY <1>1, <1>5 DEF Statics
  <2>4. w.c.load = NoLoad
    BY <1>0, <1>1, <1>5 DEF Agree
  <2> HIDE DEF v, s2
  <2>5. w2 \in World0 /\ w2.a = s2 /\ w2.q = w.q /\ w2.c = w.c
    BY <1>0, <2>2 DEF World0
  <2> HIDE DEF w2
  <2>6. Sound(v) /\ Keeps(w2, v)
    BY <1>0, <2>1, <2>2, <2>3, <2>4, <2>5, BeginLoadIs
  <2>7. Keeps(w, v)
    BY <1>1, <2>2, <2>5, <2>6 DEF Keeps
  <2> QED BY <2>6, <2>7 DEF v
<1> QED BY <1>3, <1>4, <1>5

\* A load that fails leaves the client and the flags without one.
LEMMA LoadFailsIs ==
  ASSUME NEW w, Sound(w)
  PROVE  Sound(LoadFails(w)) /\ Keeps(w, LoadFails(w))
<1> DEFINE st == LoadCallback(w.a, FALSE)
           cl == [w.c EXCEPT !.load = NoLoad]
           v == LoadFails(w)
<1>0. w \in World0 /\ w.q \in Rings /\ w.a \in Statics /\ w.c \in Client /\ Fits(w.q) /\ Agree(w.a, w.c)
  BY DEF Sound, World0
<1>1. /\ st \in Statics /\ st.loadPending = FALSE /\ st.loaded = w.a.loaded /\ st.rom = w.a.rom
      /\ st.validated = w.a.validated /\ st.confirming = w.a.confirming
  <2>1. w.a.loaded \in BOOLEAN
    BY <1>0 DEF Statics
  <2> QED BY <1>0, <2>1, LoadCallbackIs
<1>2. cl \in Client /\ cl.load = NoLoad /\ cl.game = w.c.game /\ cl.retry = w.c.retry
  BY <1>0 DEF Client
<1>3. v = [w EXCEPT !.c = cl, !.a = st]
  BY <1>0 DEF LoadFails, World0
<1> HIDE DEF st, cl, v
<1>4. v \in World0 /\ v.a = st /\ v.q = w.q /\ v.c = cl
  BY <1>0, <1>1, <1>2, <1>3 DEF World0
<1>5. Agree(v.a, v.c)
  BY <1>0, <1>1, <1>2, <1>4 DEF Agree
<1>6. Sound(v) /\ Keeps(w, v)
  BY <1>0, <1>1, <1>2, <1>4, <1>5, KeepsSame DEF Sound, Keeps
<1> QED BY <1>6 DEF v

\* The game's sets are answered: the load goes on, fails, or was aborted before.
LEMMA SetsAnsweredIs ==
  ASSUME NEW w, Sound(w), NEW l \in Load, NEW status \in Status
  PROVE  Sound(SetsAnswered(w, l, status)) /\ Keeps(w, SetsAnswered(w, l, status))
<1> DEFINE v == SetsAnswered(w, l, status)
<1>0. w \in World0 /\ w.q \in Rings /\ w.a \in Statics /\ w.c \in Client /\ Fits(w.q) /\ Agree(w.a, w.c)
  BY DEF Sound, World0
<1>1. CASE w.c.load # l
  <2>1. v = w
    BY <1>1 DEF SetsAnswered
  <2> QED BY <2>1, KeepsSame DEF Keeps
<1>2. CASE w.c.load = l /\ status # "ok"
  <2>1. v = LoadFails(w)
    BY <1>2 DEF SetsAnswered
  <2> QED BY <2>1, LoadFailsIs
<1>3. CASE w.c.load = l /\ status = "ok" /\ l.rom \in Unlisted
  <2> DEFINE cl == [w.c EXCEPT !.unlisted = @ \cup {l.rom}, !.game = l.rom, !.load = NoLoad]
             st == LoadCallback(w.a, FALSE)
  <2>1. v = [w EXCEPT !.c = cl, !.a = st]
    BY <1>0, <1>3 DEF SetsAnswered, LoadFails, World0, Client
  <2>2. l \in Load /\ l.rom \in Rom /\ l # NoLoad
    BY Constants DEF Load, NoLoad
  <2>3. cl \in Client /\ cl.load = NoLoad /\ cl.game = l.rom /\ cl.retry = w.c.retry
    BY <1>0, <1>3, <2>2 DEF Client
  <2>4. w.a.loaded = FALSE
    BY <1>0, <1>3, <2>2, Constants DEF Agree
  <2>5. /\ st \in Statics /\ st.loadPending = FALSE /\ st.loaded = FALSE /\ st.rom = w.a.rom
        /\ st.validated = w.a.validated /\ st.confirming = w.a.confirming
    BY <1>0, <2>4, LoadCallbackIs
  <2> HIDE DEF cl, st, v
  <2>6. v \in World0 /\ v.a = st /\ v.q = w.q /\ v.c = cl
    BY <1>0, <2>1, <2>3, <2>5 DEF World0
  <2>7. Agree(v.a, v.c)
    BY <1>3, <2>3, <2>5, <2>6, NothingAgrees
  <2>8. Sound(v) /\ Keeps(w, v)
    BY <1>0, <2>3, <2>5, <2>6, <2>7, KeepsSame DEF Sound, Keeps
  <2> QED BY <2>8 DEF v
<1>4. CASE w.c.load = l /\ status = "ok" /\ l.rom \notin Unlisted
  <2>1. v = [w EXCEPT !.q = Send(w.q, LoadReq("session", l))]
    BY <1>4 DEF SetsAnswered
  <2> HIDE DEF v
  <2>2. /\ Send(w.q, LoadReq("session", l)) \in Rings /\ Fits(Send(w.q, LoadReq("session", l)))
        /\ KeepsRings(w.q, Send(w.q, LoadReq("session", l)))
    BY <1>0, <1>4, RequestsMade, SendIs
  <2>3. v \in World0 /\ v.a = w.a /\ v.c = w.c /\ v.q = Send(w.q, LoadReq("session", l))
    BY <1>0, <2>1, <2>2 DEF World0
  <2>4. Sound(v) /\ Keeps(w, v)
    BY <1>0, <2>2, <2>3 DEF Sound, Keeps
  <2> QED BY <2>4 DEF v
<1> QED BY <1>1, <1>2, <1>3, <1>4

\* The session is answered: the load in progress becomes the game, or fails; an
\* aborted one changes nothing.
LEMMA SessionAnsweredIs ==
  ASSUME TypeOK, NEW w, Sound(w), NEW l \in Load, l.rom \notin Unlisted, NEW status \in Status
  PROVE  Sound(SessionAnswered(w, l, status)) /\ Keeps(w, SessionAnswered(w, l, status))
<1> DEFINE v == SessionAnswered(w, l, status)
<1>0. w \in World0 /\ w.q \in Rings /\ w.a \in Statics /\ w.c \in Client /\ Fits(w.q) /\ Agree(w.a, w.c)
  BY DEF Sound, World0
<1>1. CASE w.c.load # l
  <2>1. v = w
    BY <1>1 DEF SessionAnswered
  <2> QED BY <2>1, KeepsSame DEF Keeps
<1>2. CASE w.c.load = l /\ status # "ok"
  <2>1. v = LoadFails(w)
    BY <1>2 DEF SessionAnswered
  <2> QED BY <2>1, LoadFailsIs
<1>3. CASE w.c.load = l /\ status = "ok"
  <2> DEFINE mine == server \cap {x \in Ach : GameOf[x] = l.rom}
             st == LoadCallback(w.a, TRUE)
             cl == [w.c EXCEPT !.load = NoLoad, !.game = l.rom, !.unlocked = mine]
  <2>1. v = [w EXCEPT !.c = cl, !.a = st]
    BY <1>0, <1>3 DEF SessionAnswered, World0
  <2>2. l.rom \in Rom /\ l.rom # None /\ l # NoLoad
    BY Constants DEF Load, NoLoad
  <2>3. mine \subseteq Ach
    OBVIOUS
  <2> HIDE DEF mine
  <2>4. cl \in Client /\ cl.load = NoLoad /\ cl.game = l.rom /\ cl.retry = w.c.retry
    BY <1>0, <2>2, <2>3 DEF Client
  <2>5. /\ st \in Statics /\ st.loadPending = FALSE /\ st.loaded = TRUE /\ st.rom = w.a.rom
        /\ st.validated = w.a.validated /\ st.confirming = w.a.confirming
    BY <1>0, LoadCallbackIs
  <2>6. l.rom = w.a.rom
    BY <1>0, <1>3, <2>2 DEF Agree
  <2> HIDE DEF st, cl, v
  <2>7. v \in World0 /\ v.a = st /\ v.q = w.q /\ v.c = cl
    BY <1>0, <2>1, <2>4, <2>5 DEF World0
  <2>8. Agree(v.a, v.c)
    BY <2>2, <2>4, <2>5, <2>6, <2>7 DEF Agree
  <2>9. Sound(v) /\ Keeps(w, v)
    BY <1>0, <2>4, <2>5, <2>7, <2>8, KeepsSame DEF Sound, Keeps
  <2> QED BY <2>9 DEF v
<1> QED BY <1>1, <1>2, <1>3

\* An award that is to be retried is sent again or waits for its time.
LEMMA AwardAnsweredIs ==
  ASSUME NEW w, Sound(w), NEW r \in Request, r.kind = "award", NEW status \in Status
  PROVE  /\ Sound(AwardAnswered(w, r, status)) /\ Keeps(w, AwardAnswered(w, r, status))
         /\ status = "retryable" =>
              \/ Has(AwardAnswered(w, r, status).q, AwardReq(r.of, 1))
              \/ r.of \in AwardAnswered(w, r, status).c.retry
<1> DEFINE v == AwardAnswered(w, r, status)
<1>0. w \in World0 /\ w.q \in Rings /\ w.a \in Statics /\ w.c \in Client /\ Fits(w.q) /\ Agree(w.a, w.c)
  BY DEF Sound, World0
<1>a. r.of \in Ach
  BY RequestIs
<1>1. CASE status # "retryable"
  <2>1. v = w
    BY <1>1 DEF AwardAnswered
  <2> QED BY <1>1, <2>1, KeepsSame DEF Keeps
<1>2. CASE status = "retryable" /\ r.tries = 0
  <2> DEFINE p == Send(w.q, AwardReq(r.of, 1))
  <2>1. v = [w EXCEPT !.q = p]
    BY <1>2 DEF AwardAnswered
  <2>2. p \in Rings /\ Fits(p) /\ KeepsRings(w.q, p) /\ Has(p, AwardReq(r.of, 1))
    BY <1>0, <1>a, RequestsMade, SendIs
  <2> HIDE DEF p, v
  <2>3. v \in World0 /\ v.a = w.a /\ v.c = w.c /\ v.q = p
    BY <1>0, <2>1, <2>2 DEF World0
  <2>4. Sound(v) /\ Keeps(w, v) /\ Has(v.q, AwardReq(r.of, 1))
    BY <1>0, <2>2, <2>3 DEF Sound, Keeps
  <2> QED BY <2>4 DEF v
<1>3. CASE status = "retryable" /\ r.tries # 0
  <2> DEFINE cl == [w.c EXCEPT !.retry = w.c.retry \cup {r.of}]
  <2>1. v = [w EXCEPT !.c = cl]
    BY <1>0, <1>3 DEF AwardAnswered, World0
  <2>2. /\ cl \in Client /\ cl.load = w.c.load /\ cl.game = w.c.game
        /\ cl.retry = w.c.retry \cup {r.of}
    BY <1>0, <1>a DEF Client
  <2> HIDE DEF cl, v
  <2>3. v \in World0 /\ v.a = w.a /\ v.q = w.q /\ v.c = cl
    BY <1>0, <2>1, <2>2 DEF World0
  <2>4. Sound(v) /\ Keeps(w, v) /\ r.of \in v.c.retry
    BY <1>0, <2>2, <2>3, KeepsSame DEF Sound, Agree, Keeps
  <2> QED BY <2>4 DEF v
<1> QED BY <1>1, <1>2, <1>3

\* Whatever is answered, the callback keeps what all of them keep, and an award
\* that is to be retried.
LEMMA DispatchIs ==
  ASSUME TypeOK, NEW w, Sound(w), NEW r \in Request, NEW status \in Status
  PROVE  /\ Sound(Dispatch(w, r, status)) /\ Keeps(w, Dispatch(w, r, status))
         /\ r.kind = "award" /\ status = "retryable" =>
              \/ Has(Dispatch(w, r, status).q, AwardReq(r.of, 1))
              \/ r.of \in Dispatch(w, r, status).c.retry
<1> DEFINE v == Dispatch(w, r, status)
<1>1. CASE r.kind = "login"
  <2>1. v = LoginAnswered(w, status)
    BY <1>1 DEF Dispatch
  <2> QED BY <1>1, <2>1, LoginAnsweredIs
<1>2. CASE r.kind = "sets"
  <2>1. v = SetsAnswered(w, r.of, status)
    BY <1>2 DEF Dispatch
  <2>2. r.of \in Load
    BY <1>2, RequestIs
  <2> QED BY <1>2, <2>1, <2>2, SetsAnsweredIs
<1>3. CASE r.kind = "session"
  <2>1. v = SessionAnswered(w, r.of, status)
    BY <1>3 DEF Dispatch
  <2>2. r.of \in Load /\ r.of.rom \notin Unlisted
    BY <1>3, RequestIs
  <2> QED BY <1>3, <2>1, <2>2, SessionAnsweredIs
<1>4. CASE r.kind = "award"
  <2>1. v = AwardAnswered(w, r, status)
    BY <1>4 DEF Dispatch
  <2> QED BY <1>4, <2>1, AwardAnsweredIs
<1> QED BY <1>1, <1>2, <1>3, <1>4, RequestIs

-----------------------------------------------------------------------------
(* The steps *)

\* An achievement that is not forgotten.
Kept(x) ==
  \/ x \in server \cup earned.refused \cup c.retry
  \/ \E n \in 0 .. 2 : Has(q, AwardReq(x, n)) \/ exec = AwardReq(x, n)

\* EarnedIsKept says it of every achievement that was unlocked.
LEMMA KeptIs ==
  /\ EarnedIsKept <=> \A x \in earned.unlocked : Kept(x)
  /\ EarnedIsKept' <=> \A x \in earned'.unlocked : Kept(x)'
<1>0. ASSUME NEW x, NEW n PROVE AwardReq(x, n) # NoRequest
  BY DEF AwardReq, NoRequest
<1>1. ASSUME NEW x, NEW n
      PROVE  /\ AwardReq(x, n) \in Carried \cup q.lost
                  <=> Has(q, AwardReq(x, n)) \/ exec = AwardReq(x, n)
             /\ AwardReq(x, n) \in Carried' \cup q'.lost
                  <=> Has(q', AwardReq(x, n)) \/ exec' = AwardReq(x, n)
  <2> DEFINE r == AwardReq(x, n)
  <2>0. r # NoRequest
    BY <1>0
  <2> HIDE DEF r
  <2>1. r \in Carried \cup q.lost <=> Has(q, r) \/ exec = r
    BY <2>0 DEF Carried, Has
  <2>2. r \in Carried' \cup q'.lost <=> Has(q', r) \/ exec' = r
    BY <2>0 DEF Carried, Has
  <2> QED BY <2>1, <2>2 DEF r
<1>2. EarnedIsKept <=> \A x \in earned.unlocked : Kept(x)
  BY <1>1 DEF EarnedIsKept, Kept
<1>3. EarnedIsKept' <=> \A x \in earned'.unlocked : Kept(x)'
  BY <1>1 DEF EarnedIsKept, Kept
<1> QED BY <1>2, <1>3

\* The achievements that were unlocked are achievements.
LEMMA EarnedIs == ASSUME TypeOK PROVE earned.unlocked \subseteq Ach /\ earned.refused \subseteq Ach
  BY Types DEF Typed

\* What is kept is kept by a step that loses no award, no retry and no verdict.
LEMMA KeptOn ==
  ASSUME NEW x \in Ach, Kept(x), KeepsRings(q, q'), c.retry \subseteq c'.retry, exec' = exec,
         server \subseteq server', earned.refused \subseteq earned'.refused
  PROVE  Kept(x)'
  BY DEF Kept, KeepsRings

\* The recorded successes stay so when no answer of success is new.
LEMMA RecordedOn ==
  ASSUME NEW p, NEW v, NEW s, NEW t, RecordedIn(p, s), s \subseteq t, KeepsRings(p, v)
  PROVE  RecordedIn(v, t)
<1> SUFFICES ASSUME NEW i \in DOMAIN v.resps, v.resps[i].req.kind = "award", v.resps[i].status = "ok"
             PROVE  v.resps[i].req.of \in t
  BY DEF RecordedIn
<1>1. PICK j \in DOMAIN p.resps : p.resps[j] = v.resps[i]
  BY DEF KeepsRings
<1> QED BY <1>1 DEF RecordedIn

\* The world in which a poll calls a callback is sound.
LEMMA WorldIs ==
  ASSUME IInv
  PROVE  Sound(World) /\ World.q = q /\ World.a = a /\ World.c = c
<1>1. q \in Rings /\ Fits(q) /\ a \in Statics /\ c \in Client
  BY Types DEF IInv, Typed
<1>2. World \in World0 /\ World.q = q /\ World.a = a /\ World.c = c
  BY <1>1 DEF World, World0
<1>3. Agree(a, c)
  BY DEF IInv, SessionAgrees, Agree
<1> QED BY <1>1, <1>2, <1>3 DEF Sound

\* A step to a sound world that keeps what callbacks keep, and changes nothing
\* else of the session, keeps the session's invariants.
LEMMA WorldStep ==
  ASSUME IInv, NEW w, Sound(w), KeepsRings(q, w.q), c.retry \subseteq w.c.retry, Becomes(w),
         exec' = exec, server' = server, earned' = earned
  PROVE  /\ q' \in Rings /\ Fits(q') /\ a' \in Statics /\ c' \in Client
         /\ SessionAgrees' /\ EarnedIsKept' /\ Recorded'
<1>1. q' = w.q /\ a' = w.a /\ c' = w.c
  BY DEF Becomes
<1>2. q' \in Rings /\ Fits(q') /\ a' \in Statics /\ c' \in Client /\ Agree(a', c')
  BY <1>1 DEF Sound, World0
<1>3. SessionAgrees'
  BY <1>2 DEF Agree, SessionAgrees
<1>4. ASSUME NEW x \in earned'.unlocked PROVE Kept(x)'
  <2>1. x \in Ach /\ Kept(x)
    BY KeptIs, EarnedIs DEF IInv
  <2> QED BY <1>1, <2>1, KeptOn
<1>5. EarnedIsKept'
  BY <1>4, KeptIs
<1>6. Recorded'
  BY <1>1, RecordedOn DEF IInv, Recorded
<1> QED BY <1>2, <1>3, <1>5, <1>6

\* The whole invariant, from its parts.
LEMMA Together ==
  ASSUME Typed', SessionAgrees', EvaluatedIsLive', EarnedIsKept', Live', Recorded'
  PROVE  IInv'
  BY Types DEF IInv

\* The worker takes a request: it is in its hands instead of the ring.
LEMMA WorkerTakeKeeps == ASSUME IInv, WorkerTake PROVE IInv'
<1>0. /\ Typed /\ q.reqs \in Seq(Request) /\ q.reqs # << >> /\ exec = NoRequest
      /\ exec' = Head(q.reqs) /\ q' = [q EXCEPT !.reqs = Tail(q.reqs)]
  BY Types DEF IInv, WorkerTake, Typed, Rings
<1>1. /\ Head(q.reqs) \in Request /\ Head(q.reqs) = q.reqs[1] /\ Tail(q.reqs) \in Seq(Request)
      /\ Len(q.reqs) \in Nat \ {0} /\ Len(Tail(q.reqs)) = Len(q.reqs) - 1
      /\ \A i \in 1 .. Len(Tail(q.reqs)) : Tail(q.reqs)[i] = q.reqs[i + 1]
      /\ DOMAIN q.reqs = 1 .. Len(q.reqs) /\ DOMAIN Tail(q.reqs) = 1 .. Len(Tail(q.reqs))
  BY <1>0, HeadTailProperties, LenProperties
<1>2. q \in Rings /\ Fits(q)
  BY <1>0 DEF Typed
<1>3. /\ q' \in Rings /\ q'.reqs = Tail(q.reqs) /\ q'.resps = q.resps /\ q'.lost = q.lost
  BY <1>0, <1>1, <1>2 DEF Rings
<1>4. Fits(q')
  BY <1>1, <1>2, <1>3, Constants DEF Fits
<1>5. ASSUME NEW r, Has(q, r) PROVE Has(q', r) \/ exec' = r
  <2>1. CASE \E i \in DOMAIN q.reqs : q.reqs[i] = r
    <3>1. PICK i \in DOMAIN q.reqs : q.reqs[i] = r
      BY <2>1
    <3>2. CASE i = 1
      BY <1>0, <1>1, <3>1, <3>2
    <3>3. CASE i # 1
      <4>1. i - 1 \in DOMAIN Tail(q.reqs) /\ Tail(q.reqs)[i - 1] = r
        BY <1>1, <3>1, <3>3
      <4> QED BY <1>3, <4>1 DEF Has
    <3> QED BY <3>2, <3>3
  <2> QED BY <1>3, <1>5, <2>1 DEF Has
<1>6. ASSUME NEW x \in earned.unlocked PROVE Kept(x)'
  <2>1. Kept(x) /\ UNCHANGED <<server, earned, c>>
    BY KeptIs DEF IInv, WorkerTake
  <2>2. ASSUME NEW n \in 0 .. 2 PROVE exec # AwardReq(x, n)
    BY <1>0 DEF AwardReq, NoRequest
  <2> QED BY <1>5, <2>1, <2>2 DEF Kept
<1>7. EarnedIsKept'
  BY <1>6, KeptIs DEF WorkerTake
<1>8. Typed'
  BY <1>0, <1>1, <1>3, <1>4 DEF Typed, WorkerTake
<1>9. SessionAgrees' /\ EvaluatedIsLive' /\ Live'
  BY DEF IInv, SessionAgrees, EvaluatedIsLive, Live, WorkerTake
<1>10. Recorded'
  BY <1>3 DEF IInv, Recorded, RecordedIn, WorkerTake
<1> QED BY <1>7, <1>8, <1>9, <1>10, Together

\* The worker answers: an award leaves its hands for the answer, and a success
\* is recorded.
LEMMA WorkerDoneKeeps == ASSUME IInv, NEW status \in Status, WorkerDone(status) PROVE IInv'
<1>0. /\ Typed /\ q \in Rings /\ Fits(q) /\ exec \in Request /\ q' = Respond(q, exec, status)
      /\ exec' = NoRequest /\ server \subseteq server' /\ server' \subseteq server \cup {exec.of}
      /\ exec.kind # "award" => server' = server
      /\ exec.kind = "award" /\ status = "ok" => exec.of \in server'
      /\ UNCHANGED <<a, c, earned, mirror, adapted, pc, user>>
  <2>1. Typed
    BY Types DEF IInv
  <2>2. exec # NoRequest
    BY DEF WorkerDone
  <2>3. /\ server \subseteq server' /\ server' \subseteq server \cup {exec.of}
        /\ exec.kind # "award" => server' = server
        /\ exec.kind = "award" /\ status = "ok" => exec.of \in server'
    BY DEF WorkerDone
  <2> QED BY <2>1, <2>2, <2>3 DEF Typed, WorkerDone
<1>1. /\ q' \in Rings /\ Fits(q') /\ Has(q', exec)
      /\ \A x : Has(q, x) => Has(q', x)
      /\ \A i \in DOMAIN q'.resps :
           q'.resps[i] = Answer(exec, status) \/ \E j \in DOMAIN q.resps : q.resps[j] = q'.resps[i]
  <2>1. /\ Respond(q, exec, status) \in Rings /\ Fits(Respond(q, exec, status))
        /\ Has(Respond(q, exec, status), exec)
        /\ \A x : Has(q, x) => Has(Respond(q, exec, status), x)
        /\ \A i \in DOMAIN Respond(q, exec, status).resps :
             \/ Respond(q, exec, status).resps[i] = Answer(exec, status)
             \/ \E j \in DOMAIN q.resps : q.resps[j] = Respond(q, exec, status).resps[i]
    BY <1>0, RespondIs
  <2> QED BY <1>0, <2>1
<1>2. server' \subseteq Ach
  <2>1. exec.kind = "award" => exec.of \in Ach
    BY <1>0, RequestIs
  <2> QED BY <1>0, <2>1 DEF Typed
<1>3. Typed'
  BY <1>0, <1>1, <1>2 DEF Typed
<1>4. ASSUME NEW x \in earned.unlocked PROVE Kept(x)'
  <2>1. Kept(x)
    BY KeptIs DEF IInv
  <2> QED BY <1>0, <1>1, <2>1 DEF Kept
<1>5. EarnedIsKept'
  BY <1>0, <1>4, KeptIs
<1>6. Recorded'
  <2> SUFFICES ASSUME NEW i \in DOMAIN q'.resps, q'.resps[i].req.kind = "award",
                      q'.resps[i].status = "ok"
               PROVE  q'.resps[i].req.of \in server'
    BY DEF Recorded, RecordedIn
  <2>1. CASE q'.resps[i] = Answer(exec, status)
    BY <1>0, <2>1 DEF Answer
  <2>2. CASE \E j \in DOMAIN q.resps : q.resps[j] = q'.resps[i]
    BY <1>0, <2>2 DEF IInv, Recorded, RecordedIn
  <2> QED BY <1>1, <2>1, <2>2
<1>7. SessionAgrees' /\ EvaluatedIsLive' /\ Live'
  BY <1>0 DEF IInv, SessionAgrees, EvaluatedIsLive, Live
<1> QED BY <1>3, <1>5, <1>6, <1>7, Together

\* A ROM is loaded: what was loaded or being loaded before is dropped first, so
\* the flags agree with the client whichever way the load goes.
LEMMA LoadGameKeeps ==
  ASSUME IInv, NEW rom \in Rom, NEW net \in BOOLEAN, LoadGame(rom, net) PROVE IInv'
<1> DEFINE dropped == a.loaded \/ a.loadPending
           st == [a EXCEPT !.rom = rom, !.loaded = FALSE, !.loadPending = @ /\ ~dropped,
                           !.deferred = FALSE, !.confirming = FALSE, !.validated = FALSE,
                           !.told = FALSE]
           cl == IF dropped THEN UnloadGame(c) ELSE c
           w == [q |-> q, a |-> st, c |-> cl]
<1>0. Typed /\ q \in Rings /\ Fits(q) /\ a \in Statics /\ c \in Client /\ Agree(a, c)
  BY Types DEF IInv, Typed, SessionAgrees, Agree
<1>1. /\ st \in Statics /\ st.rom = rom /\ st.loaded = FALSE /\ st.loadPending = FALSE
      /\ st.validated = FALSE /\ st.confirming = FALSE
  BY <1>0 DEF Statics
<1>2. /\ cl \in Client /\ cl.load = NoLoad /\ cl.game \notin Rom \ Unlisted
      /\ cl.retry = c.retry
  <2>1. CASE dropped
    BY <1>0, <2>1, UnloadIs, Constants
  <2>2. CASE ~dropped
    BY <1>0, <2>2 DEF Agree
  <2> QED BY <2>1, <2>2
<1>3. /\ user' \in 0 .. MaxUser /\ pc = "idle" /\ mirror' = Cleared(mirror)
      /\ UNCHANGED <<exec, server, earned, adapted, pc>>
  <2>1. UserActs /\ mirror' = Cleared(mirror) /\ UNCHANGED <<exec, server, earned, adapted, pc>>
    BY DEF LoadGame
  <2> QED BY <1>0, <2>1, Constants DEF UserActs, Typed
<1>4. \/ Becomes([w EXCEPT !.a.loginPending = TRUE, !.a.deferred = TRUE, !.q = Send(@, LoginReq)])
      \/ Becomes(w)
      \/ Becomes(BeginLoad(w, rom))
      \/ Becomes([w EXCEPT !.a.deferred = TRUE])
  BY DEF LoadGame
<1> HIDE DEF st, cl, dropped
<1>5. w \in World0 /\ w.q = q /\ w.a = st /\ w.c = cl
  BY <1>0, <1>1, <1>2 DEF World0
<1> HIDE DEF w
<1>6. Sound(w)
  <2>1. Agree(w.a, w.c)
    BY <1>1, <1>2, <1>5, NothingAgrees
  <2> QED BY <1>0, <1>5, <2>1 DEF Sound
<1>7. \E v : Becomes(v) /\ Sound(v) /\ Keeps(w, v)
  <2>1. CASE Becomes([w EXCEPT !.a.loginPending = TRUE, !.a.deferred = TRUE,
                               !.q = Send(@, LoginReq)])
    <3> DEFINE s2 == [st EXCEPT !.loginPending = TRUE, !.deferred = TRUE]
               p == Send(q, LoginReq)
               v == [w EXCEPT !.a = s2, !.q = p]
    <3>1. Becomes(v)
      BY <1>5, <2>1 DEF World0
    <3>2. /\ s2 \in Statics /\ s2.rom = rom /\ s2.loaded = FALSE /\ s2.loadPending = FALSE
          /\ s2.validated = FALSE /\ s2.confirming = FALSE
      BY <1>1 DEF Statics
    <3>3. p \in Rings /\ Fits(p) /\ KeepsRings(q, p)
      BY <1>0, RequestsMade, SendIs
    <3> HIDE DEF s2, p
    <3>4. v \in World0 /\ v.a = s2 /\ v.q = p /\ v.c = cl
      BY <1>5, <3>2, <3>3 DEF World0
    <3> HIDE DEF v
    <3>5. Sound(v) /\ Keeps(w, v)
      <4>1. Agree(v.a, v.c)
        BY <1>2, <3>2, <3>4, NothingAgrees
      <4> QED BY <1>1, <1>5, <3>2, <3>3, <3>4, <4>1 DEF Sound, Keeps
    <3> QED BY <3>1, <3>5
  <2>2. CASE Becomes(w)
    BY <1>6, <2>2, KeepsSame DEF Keeps
  <2>3. CASE Becomes(BeginLoad(w, rom))
    <3>1. TypeOK
      BY DEF IInv
    <3>2. Sound(BeginLoad(w, rom)) /\ Keeps(w, BeginLoad(w, rom))
      BY <1>0, <1>1, <1>2, <1>5, <3>1, BeginLoadIs
    <3> QED BY <2>3, <3>2
  <2>4. CASE Becomes([w EXCEPT !.a.deferred = TRUE])
    <3> DEFINE s2 == [st EXCEPT !.deferred = TRUE]
               v == [w EXCEPT !.a = s2]
    <3>1. Becomes(v)
      BY <1>5, <2>4 DEF World0
    <3>2. /\ s2 \in Statics /\ s2.rom = rom /\ s2.loaded = FALSE /\ s2.loadPending = FALSE
          /\ s2.validated = FALSE /\ s2.confirming = FALSE
      BY <1>1 DEF Statics
    <3> HIDE DEF s2
    <3>3. v \in World0 /\ v.a = s2 /\ v.q = q /\ v.c = cl
      BY <1>5, <3>2 DEF World0
    <3> HIDE DEF v
    <3>4. Sound(v) /\ Keeps(w, v)
      <4>1. Agree(v.a, v.c)
        BY <1>2, <3>2, <3>3, NothingAgrees
      <4> QED BY <1>0, <1>1, <1>5, <3>2, <3>3, <4>1, KeepsSame DEF Sound, Keeps
    <3> QED BY <3>1, <3>4
  <2> QED BY <1>4, <2>1, <2>2, <2>3, <2>4
<1>8. PICK v : Becomes(v) /\ Sound(v) /\ Keeps(w, v)
  BY <1>7
<1>9. /\ q' \in Rings /\ Fits(q') /\ a' \in Statics /\ c' \in Client
      /\ SessionAgrees' /\ EarnedIsKept' /\ Recorded'
  <2>1. KeepsRings(q, v.q) /\ c.retry \subseteq v.c.retry
    BY <1>2, <1>5, <1>8 DEF Keeps
  <2> QED BY <1>3, <1>8, <2>1, WorldStep
<1>10. a'.validated = FALSE /\ a'.confirming = FALSE
  BY <1>1, <1>5, <1>8 DEF Keeps, Becomes
<1>11. Typed'
  BY <1>0, <1>3, <1>9 DEF Typed, Cleared, Mirror
<1>12. EvaluatedIsLive' /\ Live'
  BY <1>3, <1>10 DEF EvaluatedIsLive, Live
<1> QED BY <1>9, <1>11, <1>12, Together

\* The game is ejected: flags and client forget it together, and any load.
LEMMA EjectKeeps == ASSUME IInv, Eject PROVE IInv'
<1> DEFINE st == [a EXCEPT !.rom = None, !.loaded = FALSE, !.loadPending = FALSE,
                           !.deferred = FALSE, !.confirming = FALSE, !.validated = FALSE,
                           !.told = FALSE]
           w == [q |-> q, a |-> st, c |-> UnloadGame(c)]
<1>0. Typed /\ q \in Rings /\ Fits(q) /\ a \in Statics /\ c \in Client
  BY Types DEF IInv, Typed
<1>1. /\ user' \in 0 .. MaxUser /\ pc = "idle" /\ mirror' = Cleared(mirror)
      /\ UNCHANGED <<exec, server, earned, adapted, pc>>
  <2>1. UserActs /\ mirror' = Cleared(mirror) /\ UNCHANGED <<exec, server, earned, adapted, pc>>
    BY DEF Eject
  <2> QED BY <1>0, <2>1, Constants DEF UserActs, Typed
<1>2. /\ st \in Statics /\ st.loaded = FALSE /\ st.loadPending = FALSE
      /\ st.validated = FALSE /\ st.confirming = FALSE
  BY <1>0 DEF Statics
<1>3. Becomes(w)
  BY DEF Eject, Becomes
<1> HIDE DEF st
<1>4. /\ UnloadGame(c) \in Client /\ UnloadGame(c).load = NoLoad
      /\ UnloadGame(c).game = None /\ UnloadGame(c).retry = c.retry
  BY <1>0, UnloadIs
<1>5. w \in World0 /\ w.q = q /\ w.a = st /\ w.c = UnloadGame(c)
  BY <1>0, <1>2, <1>4 DEF World0
<1> HIDE DEF w
<1>6. Sound(w)
  <2>1. Agree(w.a, w.c)
    BY <1>2, <1>4, <1>5, Constants, NothingAgrees
  <2> QED BY <1>0, <1>5, <2>1 DEF Sound
<1>7. /\ q' \in Rings /\ Fits(q') /\ a' \in Statics /\ c' \in Client
      /\ SessionAgrees' /\ EarnedIsKept' /\ Recorded'
  <2>1. KeepsRings(q, w.q) /\ c.retry \subseteq w.c.retry
    BY <1>4, <1>5, KeepsSame
  <2> QED BY <1>1, <1>3, <1>6, <2>1, WorldStep
<1>8. Typed'
  BY <1>0, <1>1, <1>7 DEF Typed, Cleared, Mirror
<1>9. EvaluatedIsLive' /\ Live'
  BY <1>1, <1>2, <1>3, <1>5 DEF EvaluatedIsLive, Live, Becomes
<1> QED BY <1>7, <1>8, <1>9, Together

\* A step that leaves the rings, the client, the load and its flags alone keeps
\* what is said of them.
LEMMA AsideStep ==
  ASSUME IInv, a' \in Statics, a'.rom = a.rom, a'.loaded = a.loaded,
         a'.loadPending = a.loadPending, UNCHANGED <<q, exec, c, server, earned>>
  PROVE  /\ q' \in Rings /\ Fits(q') /\ a' \in Statics /\ c' \in Client
         /\ SessionAgrees' /\ EarnedIsKept' /\ Recorded'
<1> DEFINE w == [q |-> q, a |-> a', c |-> c]
<1>0. q \in Rings /\ Fits(q) /\ a \in Statics /\ c \in Client /\ Agree(a, c)
  BY Types DEF IInv, Typed, SessionAgrees, Agree
<1>1. w \in World0 /\ w.q = q /\ w.a = a' /\ w.c = c
  BY <1>0 DEF World0
<1> HIDE DEF w
<1>2. Sound(w) /\ Becomes(w)
  BY <1>0, <1>1 DEF Sound, Agree, Becomes
<1>3. KeepsRings(q, w.q) /\ c.retry \subseteq w.c.retry
  BY <1>1, KeepsSame
<1> QED BY <1>2, <1>3, WorldStep

\* A reset of the core forgets the validation with the memory it validated.
LEMMA CoreResetKeeps == ASSUME IInv, CoreReset PROVE IInv'
<1>0. Typed /\ a \in Statics
  BY Types DEF IInv, Typed
<1>1. /\ user' \in 0 .. MaxUser /\ pc = "idle" /\ mirror' = Cleared(mirror)
      /\ a' = [a EXCEPT !.confirming = FALSE, !.validated = FALSE]
      /\ UNCHANGED <<q, exec, c, server, earned, adapted, pc>>
  <2>1. UserActs /\ UNCHANGED <<q, exec, c, server, earned, adapted, pc>>
    BY DEF CoreReset
  <2>2. mirror' = Cleared(mirror) /\ a' = [a EXCEPT !.confirming = FALSE, !.validated = FALSE]
    BY DEF CoreReset
  <2> QED BY <1>0, <2>1, <2>2, Constants DEF UserActs, Typed
<1>2. /\ a' \in Statics /\ a'.rom = a.rom /\ a'.loaded = a.loaded /\ a'.loadPending = a.loadPending
      /\ a'.validated = FALSE /\ a'.confirming = FALSE
  BY <1>0, <1>1 DEF Statics
<1>3. /\ q' \in Rings /\ Fits(q') /\ a' \in Statics /\ c' \in Client
      /\ SessionAgrees' /\ EarnedIsKept' /\ Recorded'
  BY <1>1, <1>2, AsideStep
<1>4. Typed'
  BY <1>0, <1>1, <1>3 DEF Typed, Cleared, Mirror
<1>5. EvaluatedIsLive' /\ Live'
  BY <1>1, <1>2 DEF EvaluatedIsLive, Live
<1> QED BY <1>3, <1>4, <1>5, Together

\* Steps of the poll and of the FPGA that touch neither the session nor its flags,
\* and do not lose memory that is the core's, keep the invariant.
LEMMA QuietStep ==
  ASSUME IInv, UNCHANGED <<q, exec, a, c, server, earned, adapted>>,
         mirror' \in Mirror,
         mirror.live \/ mirror.partial => mirror'.live \/ mirror'.partial,
         mirror'.moved => mirror.moved \/ mirror'.live \/ mirror'.partial,
         pc' \in {"idle", "poll", "frame", "retry"}, user' \in 0 .. MaxUser,
         pc' \in {"frame", "retry"} => pc \in {"frame", "retry"} \/ (a.validated /\ a.loaded)
  PROVE  IInv'
<1>0. Typed /\ a \in Statics
  BY Types DEF IInv, Typed
<1>1. /\ q' \in Rings /\ Fits(q') /\ a' \in Statics /\ c' \in Client
      /\ SessionAgrees' /\ EarnedIsKept' /\ Recorded'
  BY <1>0, AsideStep
<1>2. Typed'
  BY <1>0, <1>1 DEF Typed
<1>3. Live'
  BY DEF IInv, Live
<1>4. EvaluatedIsLive'
  <2> SUFFICES ASSUME pc' \in {"frame", "retry"}
               PROVE  a'.loaded /\ c'.game = a'.rom /\ (mirror'.live \/ mirror'.partial)
    BY DEF EvaluatedIsLive
  <2>1. CASE pc \in {"frame", "retry"}
    BY <2>1 DEF IInv, EvaluatedIsLive
  <2>2. CASE a.validated /\ a.loaded
    BY <2>2 DEF IInv, SessionAgrees, Live
  <2> QED BY <2>1, <2>2
<1> QED BY <1>1, <1>2, <1>3, <1>4, Together

\* The turns of the poll that only move it on, and the steps of the FPGA.
LEMMA QuietKeeps ==
  ASSUME IInv, PollStart \/ PollNothing \/ PollEvaluate \/ FrameEnd \/ Scan \/ MagicLost
  PROVE  IInv'
<1>0. Typed /\ mirror \in Mirror /\ pc \in {"idle", "poll", "frame", "retry"} /\ user \in 0 .. MaxUser
  BY Types DEF IInv, Typed
<1>1. CASE PollStart
  BY <1>0, <1>1, QuietStep DEF PollStart
<1>2. CASE PollNothing
  BY <1>0, <1>2, QuietStep DEF PollNothing, PollRest
<1>3. CASE PollEvaluate
  BY <1>0, <1>3, QuietStep DEF PollEvaluate
<1>4. CASE FrameEnd
  BY <1>0, <1>4, QuietStep DEF FrameEnd
<1>5. CASE ScanBegins
  <2>1. /\ mirror' \in Mirror /\ mirror'.live = mirror.live
        /\ mirror'.partial = mirror.partial /\ mirror'.moved = mirror.moved
    BY <1>0, <1>5 DEF ScanBegins, Mirror
  <2> QED BY <1>0, <1>5, <2>1, QuietStep DEF ScanBegins
<1>7. CASE ScanEnds
  <2>1. mirror' \in Mirror /\ (mirror'.live \/ mirror'.partial)
    BY <1>0, <1>7 DEF ScanEnds, Mirror
  <2> QED BY <1>0, <1>7, <2>1, QuietStep DEF ScanEnds
<1>6. CASE MagicLost
  <2>1. /\ mirror' \in Mirror /\ mirror'.live = mirror.live
        /\ mirror'.partial = mirror.partial /\ mirror'.moved = FALSE
    BY <1>0, <1>6 DEF MagicLost, Mirror
  <2>2. user' \in 0 .. MaxUser
    BY <1>0, <1>6, Constants DEF MagicLost
  <2> QED BY <1>0, <1>6, <2>1, <2>2, QuietStep DEF MagicLost
<1> QED BY <1>1, <1>2, <1>3, <1>4, <1>5, <1>6, <1>7 DEF Scan

\* The mirror is looked at: a counter that moved before is not one that moves now.
LEMMA PollConfirmKeeps == ASSUME IInv, PollConfirm PROVE IInv'
<1>0. Typed /\ a \in Statics /\ mirror \in Mirror
  BY Types DEF IInv, Typed
<1>1. /\ ~a.validated /\ pc' = "idle"
      /\ a' = [a EXCEPT !.confirming = mirror.magic]
      /\ mirror' = [mirror EXCEPT !.moved = mirror.moved /\ a.confirming]
      /\ UNCHANGED <<q, exec, c, server, earned, adapted, user>>
  BY <1>0 DEF PollConfirm, PollRest, Mirror
<1>2. /\ a' \in Statics /\ a'.rom = a.rom /\ a'.loaded = a.loaded /\ a'.loadPending = a.loadPending
      /\ a'.validated = a.validated
  BY <1>0, <1>1 DEF Statics, Mirror
<1>3. /\ mirror' \in Mirror /\ mirror'.live = mirror.live /\ mirror'.partial = mirror.partial
      /\ mirror'.moved = (mirror.moved /\ a.confirming)
  BY <1>0, <1>1 DEF Statics, Mirror
<1>4. /\ q' \in Rings /\ Fits(q') /\ a' \in Statics /\ c' \in Client
      /\ SessionAgrees' /\ EarnedIsKept' /\ Recorded'
  BY <1>1, <1>2, AsideStep
<1>5. Typed'
  BY <1>0, <1>1, <1>3, <1>4 DEF Typed
<1>6. EvaluatedIsLive' /\ Live'
  BY <1>1, <1>2, <1>3 DEF IInv, EvaluatedIsLive, Live
<1> QED BY <1>4, <1>5, <1>6, Together

\* The frame counter moved, so the memory is the core's; a load that waited for it
\* begins on a client that has none.
LEMMA PollValidateKeeps == ASSUME IInv, PollValidate PROVE IInv'
<1> DEFINE st == [a EXCEPT !.confirming = FALSE, !.validated = TRUE]
           s2 == [st EXCEPT !.deferred = FALSE, !.loaded = FALSE]
           w == [World EXCEPT !.a = s2]
<1>0. Typed /\ q \in Rings /\ Fits(q) /\ a \in Statics /\ c \in Client /\ Agree(a, c)
  BY Types DEF IInv, Typed, SessionAgrees, Agree
<1>1. /\ pc' = "idle" /\ (mirror.live \/ mirror.partial)
      /\ UNCHANGED <<exec, server, earned, mirror, adapted, user>>
  BY DEF PollValidate, PollRest, IInv, Live
<1>2. /\ st \in Statics /\ st.rom = a.rom /\ st.loaded = a.loaded /\ st.loadPending = a.loadPending
      /\ st.confirming = FALSE
  BY <1>0 DEF Statics
<1>3. \/ a' = [st EXCEPT !.deferred = FALSE, !.handler = FALSE] /\ UNCHANGED <<q, c>>
      \/ a.rom # None /\ ~a.loadPending /\ Becomes(BeginLoad(w, a.rom))
      \/ a' = st /\ UNCHANGED <<q, c>>
  BY DEF PollValidate
<1>4. /\ q' \in Rings /\ Fits(q') /\ a' \in Statics /\ c' \in Client /\ ~a'.confirming
      /\ SessionAgrees' /\ EarnedIsKept' /\ Recorded'
  <2>1. CASE a' = [st EXCEPT !.deferred = FALSE, !.handler = FALSE] /\ UNCHANGED <<q, c>>
    <3> HIDE DEF st
    <3>1. /\ a' \in Statics /\ a'.rom = a.rom /\ a'.loaded = a.loaded
          /\ a'.loadPending = a.loadPending /\ a'.confirming = FALSE
      BY <1>2, <2>1 DEF Statics
    <3> QED BY <1>1, <2>1, <3>1, AsideStep
  <2>2. CASE a' = st /\ UNCHANGED <<q, c>>
    <3> HIDE DEF st
    <3> QED BY <1>1, <1>2, <2>2, AsideStep
  <2>3. CASE a.rom # None /\ ~a.loadPending /\ Becomes(BeginLoad(w, a.rom))
    <3> DEFINE v == BeginLoad(w, a.rom)
    <3>1. /\ s2 \in Statics /\ s2.rom = a.rom /\ s2.loaded = FALSE /\ s2.confirming = FALSE
      BY <1>0 DEF Statics
    <3> HIDE DEF s2
    <3>2. w \in World0 /\ w.q = q /\ w.a = s2 /\ w.c = c
      BY <3>1, WorldIs DEF Sound, World0
    <3> HIDE DEF w
    <3>3. a.rom \in Rom /\ w.c.load = NoLoad /\ TypeOK
      BY <1>0, <2>3, <3>2 DEF Statics, Agree, IInv
    <3>4. Sound(v) /\ Keeps(w, v)
      BY <1>0, <3>1, <3>2, <3>3, BeginLoadIs
    <3> HIDE DEF v
    <3>5. KeepsRings(q, v.q) /\ c.retry \subseteq v.c.retry /\ v.a.confirming = FALSE
      BY <3>1, <3>2, <3>4 DEF Keeps
    <3>6. Becomes(v)
      BY <2>3 DEF v
    <3> QED BY <1>1, <3>4, <3>5, <3>6, WorldStep DEF Becomes
  <2> QED BY <1>3, <2>1, <2>2, <2>3
<1>5. Typed'
  BY <1>0, <1>1, <1>4 DEF Typed
<1>6. EvaluatedIsLive' /\ Live'
  BY <1>1, <1>4 DEF EvaluatedIsLive, Live
<1> QED BY <1>4, <1>5, <1>6, Together

\* A response leaves its ring for its callback: an award that it answers is
\* recorded, refused, sent again or left to the retries, and no other is lost.
LEMMA PollResponseKeeps == ASSUME IInv, PollResponse PROVE IInv'
<1> DEFINE ans == Head(q.resps)
           p == [q EXCEPT !.resps = Tail(q.resps)]
           w == [World EXCEPT !.q = p]
           v == Dispatch(w, ans.req, ans.status)
<1>0. /\ Typed /\ TypeOK /\ q \in Rings /\ Fits(q) /\ a \in Statics /\ c \in Client /\ Agree(a, c)
      /\ q.resps \in Seq(Response)
  BY Types DEF IInv, Typed, Rings, SessionAgrees, Agree
<1>1. /\ pc = "poll" /\ q.resps # << >> /\ Becomes(v)
      /\ earned' = IF ans.req.kind = "award" /\ ans.status = "error"
                     THEN [earned EXCEPT !.refused = @ \cup {ans.req.of}] ELSE earned
      /\ UNCHANGED <<exec, server, mirror, adapted, pc, user>>
  BY WorldIs DEF PollResponse, World
<1>2. /\ ans \in Response /\ ans = q.resps[1] /\ Tail(q.resps) \in Seq(Response)
      /\ Len(q.resps) \in Nat \ {0} /\ Len(Tail(q.resps)) = Len(q.resps) - 1
      /\ \A i \in 1 .. Len(Tail(q.resps)) : Tail(q.resps)[i] = q.resps[i + 1]
      /\ DOMAIN q.resps = 1 .. Len(q.resps) /\ DOMAIN Tail(q.resps) = 1 .. Len(Tail(q.resps))
  BY <1>0, <1>1, HeadTailProperties, LenProperties
<1>3. ans.req \in Request /\ ans.status \in Status
  BY <1>2 DEF Response
<1>4. p \in Rings /\ p.reqs = q.reqs /\ p.resps = Tail(q.resps) /\ p.lost = q.lost
  BY <1>0, <1>2 DEF Rings
<1> HIDE DEF ans, p
<1>5. Fits(p)
  BY <1>0, <1>2, <1>4, Constants DEF Fits
<1>6. w \in World0 /\ w.q = p /\ w.a = a /\ w.c = c
  BY <1>4, WorldIs DEF Sound, World0
<1> HIDE DEF w
<1>7. Sound(w)
  BY <1>0, <1>5, <1>6 DEF Sound
<1>8. /\ Sound(v) /\ Keeps(w, v)
      /\ ans.req.kind = "award" /\ ans.status = "retryable" =>
           Has(v.q, AwardReq(ans.req.of, 1)) \/ ans.req.of \in v.c.retry
  BY <1>0, <1>3, <1>7, DispatchIs
<1> HIDE DEF v
<1>9. /\ q' = v.q /\ a' = v.a /\ c' = v.c /\ KeepsRings(p, q') /\ c.retry \subseteq c'.retry
      /\ a'.validated = a.validated /\ a'.confirming = a.confirming /\ a'.rom = a.rom
  BY <1>1, <1>6, <1>8 DEF Becomes, Keeps
<1>10. /\ q' \in Rings /\ Fits(q') /\ a' \in Statics /\ c' \in Client /\ Agree(a', c')
  BY <1>8, <1>9 DEF Sound, World0
<1>11. SessionAgrees'
  BY <1>10 DEF Agree, SessionAgrees
<1>12. ans.req.kind = "award" =>
         /\ ans.req.of \in Ach /\ ans.req.tries \in 0 .. 2
         /\ ans.req = AwardReq(ans.req.of, ans.req.tries)
  BY <1>3, RequestIs
<1>13. /\ earned' \in [unlocked : SUBSET Ach, refused : SUBSET Ach]
       /\ earned'.unlocked = earned.unlocked /\ earned.refused \subseteq earned'.refused
       /\ ans.req.kind = "award" /\ ans.status = "error" => ans.req.of \in earned'.refused
  <2>1. earned \in [unlocked : SUBSET Ach, refused : SUBSET Ach]
    BY <1>0 DEF Typed
  <2>2. CASE ans.req.kind = "award" /\ ans.status = "error"
    <3>1. earned' = [earned EXCEPT !.refused = earned.refused \cup {ans.req.of}]
      BY <1>1, <2>1, <2>2
    <3> QED BY <1>12, <2>1, <2>2, <3>1
  <2>3. CASE ~(ans.req.kind = "award" /\ ans.status = "error")
    BY <1>1, <2>1, <2>3
  <2> QED BY <2>2, <2>3
<1>14. ASSUME NEW i \in DOMAIN q.resps, i # 1
       PROVE  i - 1 \in DOMAIN p.resps /\ p.resps[i - 1] = q.resps[i]
  BY <1>2, <1>4, <1>14
<1>15. ASSUME NEW x \in earned.unlocked PROVE Kept(x)'
  <2>1. x \in Ach /\ Kept(x)
    BY <1>0, KeptIs, EarnedIs DEF IInv
  <2>2. CASE x \in server \cup earned.refused \cup c.retry
    BY <1>1, <1>9, <1>13, <2>2 DEF Kept
  <2>3. CASE \E n \in 0 .. 2 : exec = AwardReq(x, n)
    BY <1>1, <2>3 DEF Kept
  <2>4. ASSUME NEW n \in 0 .. 2, Has(q, AwardReq(x, n)) PROVE Kept(x)'
    <3>1. CASE Has(p, AwardReq(x, n))
      BY <1>9, <2>1, <3>1 DEF KeepsRings, Kept
    <3>2. CASE ~Has(p, AwardReq(x, n))
      <4>1. ans.req = AwardReq(x, n)
        <5>1. \E i \in DOMAIN q.resps : q.resps[i].req = AwardReq(x, n)
          BY <1>4, <2>4, <3>2 DEF Has
        <5>2. PICK i \in DOMAIN q.resps : q.resps[i].req = AwardReq(x, n)
          BY <5>1
        <5> QED BY <1>2, <1>14, <3>2, <5>2 DEF Has
      <4>2. ans.req.kind = "award" /\ ans.req.of = x
        BY <2>1, <4>1, RequestsMade
      <4>3. CASE ans.status = "ok"
        <5>1. x \in server
          BY <1>2, <4>2, <4>3 DEF IInv, Recorded, RecordedIn
        <5> QED BY <1>1, <5>1 DEF Kept
      <4>4. CASE ans.status = "error"
        BY <1>13, <4>2, <4>4 DEF Kept
      <4>5. CASE ans.status = "retryable"
        <5>1. 1 \in 0 .. 2
          OBVIOUS
        <5> QED BY <1>8, <1>9, <4>2, <4>5, <5>1 DEF Kept
      <4> QED BY <1>3, <4>3, <4>4, <4>5 DEF Status
    <3> QED BY <3>1, <3>2
  <2> QED BY <2>1, <2>2, <2>3, <2>4 DEF Kept
<1>16. EarnedIsKept'
  BY <1>13, <1>15, KeptIs
<1>17. Recorded'
  <2>1. RecordedIn(p, server)
    <3> SUFFICES ASSUME NEW i \in DOMAIN p.resps, p.resps[i].req.kind = "award",
                        p.resps[i].status = "ok"
                 PROVE  p.resps[i].req.of \in server
      BY DEF RecordedIn
    <3>1. i + 1 \in DOMAIN q.resps /\ p.resps[i] = q.resps[i + 1]
      BY <1>2, <1>4
    <3> QED BY <3>1 DEF IInv, Recorded, RecordedIn
  <2> QED BY <1>1, <1>9, <2>1, RecordedOn DEF Recorded
<1>18. Typed'
  BY <1>0, <1>1, <1>10, <1>13 DEF Typed
<1>19. EvaluatedIsLive' /\ Live'
  BY <1>1, <1>9 DEF IInv, EvaluatedIsLive, Live
<1> QED BY <1>11, <1>16, <1>17, <1>18, <1>19, Together

\* An achievement triggers: it is unlocked and its request is sent, or lost where
\* both rings are full.
LEMMA FrameAwardKeeps == ASSUME IInv, NEW x \in Ach, FrameAward(x) PROVE IInv'
<1> DEFINE p == Send(q, AwardReq(x, 0))
<1>0. Typed /\ q \in Rings /\ Fits(q) /\ a \in Statics /\ c \in Client
  BY Types DEF IInv, Typed
<1>1. /\ q' = p /\ c' = [c EXCEPT !.unlocked = c.unlocked \cup {x}]
      /\ earned' = [earned EXCEPT !.unlocked = earned.unlocked \cup {x}]
      /\ UNCHANGED <<exec, a, server, mirror, adapted, pc, user>>
  BY DEF FrameAward
<1>2. p \in Rings /\ Fits(p) /\ Has(p, AwardReq(x, 0)) /\ KeepsRings(q, p)
  <2>1. AwardReq(x, 0) \in Request
    BY RequestsMade
  <2> QED BY <1>0, <2>1, SendIs
<1> HIDE DEF p
<1>3. c' \in Client /\ c'.game = c.game /\ c'.load = c.load /\ c'.retry = c.retry
  BY <1>0, <1>1 DEF Client
<1>4. /\ earned' \in [unlocked : SUBSET Ach, refused : SUBSET Ach]
      /\ earned'.unlocked = earned.unlocked \cup {x} /\ earned'.refused = earned.refused
  <2>1. earned \in [unlocked : SUBSET Ach, refused : SUBSET Ach]
    BY <1>0 DEF Typed
  <2> QED BY <1>1, <2>1
<1>5. ASSUME NEW y \in earned'.unlocked PROVE Kept(y)'
  <2>1. CASE y = x
    BY <1>1, <1>2, <2>1 DEF Kept
  <2>2. CASE y \in earned.unlocked
    <3>1. y \in Ach /\ Kept(y)
      BY <2>2, KeptIs, EarnedIs DEF IInv
    <3> QED BY <1>1, <1>2, <1>3, <1>4, <3>1, KeptOn
  <2> QED BY <1>4, <2>1, <2>2
<1>6. EarnedIsKept'
  BY <1>5, KeptIs
<1>7. Recorded'
  BY <1>1, <1>2, RecordedOn DEF IInv, Recorded
<1>8. Typed'
  BY <1>0, <1>1, <1>2, <1>3, <1>4 DEF Typed
<1>9. SessionAgrees' /\ EvaluatedIsLive' /\ Live'
  BY <1>1, <1>3 DEF IInv, SessionAgrees, EvaluatedIsLive, Live
<1> QED BY <1>6, <1>7, <1>8, <1>9, Together

\* A retry that is due leaves the schedule for a request.
LEMMA FrameRetryKeeps == ASSUME IInv, NEW x \in Ach, FrameRetry(x) PROVE IInv'
<1> DEFINE p == Send(q, AwardReq(x, 2))
<1>0. Typed /\ q \in Rings /\ Fits(q) /\ a \in Statics /\ c \in Client
  BY Types DEF IInv, Typed
<1>1. /\ q' = p /\ c' = [c EXCEPT !.retry = c.retry \ {x}] /\ pc \in {"frame", "retry"}
      /\ pc' = "retry" /\ UNCHANGED <<exec, a, server, earned, mirror, adapted, user>>
  BY DEF FrameRetry
<1>2. p \in Rings /\ Fits(p) /\ Has(p, AwardReq(x, 2)) /\ KeepsRings(q, p)
  <2>1. AwardReq(x, 2) \in Request
    BY RequestsMade
  <2> QED BY <1>0, <2>1, SendIs
<1> HIDE DEF p
<1>3. c' \in Client /\ c'.game = c.game /\ c'.load = c.load /\ c'.retry = c.retry \ {x}
  BY <1>0, <1>1 DEF Client
<1>5. ASSUME NEW y \in earned'.unlocked PROVE Kept(y)'
  <2>1. CASE y = x
    BY <1>1, <1>2, <2>1 DEF Kept
  <2>2. CASE y # x
    <3>1. y \in Ach /\ Kept(y)
      BY <1>1, KeptIs, EarnedIs DEF IInv
    <3>2. CASE y \in server \cup earned.refused \cup c.retry
      BY <1>1, <1>3, <2>2, <3>2 DEF Kept
    <3>3. CASE \E n \in 0 .. 2 : Has(q, AwardReq(y, n)) \/ exec = AwardReq(y, n)
      BY <1>1, <1>2, <3>1, <3>3 DEF Kept, KeepsRings
    <3> QED BY <3>1, <3>2, <3>3 DEF Kept
  <2> QED BY <2>1, <2>2
<1>6. EarnedIsKept'
  BY <1>5, KeptIs
<1>7. Recorded'
  BY <1>1, <1>2, RecordedOn DEF IInv, Recorded
<1>8. Typed'
  BY <1>0, <1>1, <1>2, <1>3 DEF Typed
<1>9. SessionAgrees' /\ EvaluatedIsLive' /\ Live'
  BY <1>1, <1>3 DEF IInv, SessionAgrees, EvaluatedIsLive, Live
<1> QED BY <1>6, <1>7, <1>8, <1>9, Together

-----------------------------------------------------------------------------
(* The theorems *)

\* The session starts with nothing under way, unlocked or validated.
LEMMA InitEstablishes == Init => IInv
<1> SUFFICES ASSUME Init PROVE IInv
  OBVIOUS
<1>0. << >> \in Seq(Request) /\ << >> \in Seq(Response)
  BY EmptySeq
<1>1. /\ q = [reqs |-> << >>, resps |-> << >>, lost |-> {}]
      /\ q.reqs = << >> /\ q.resps = << >> /\ q.lost = {}
  BY DEF Init
<1>2. q \in Rings /\ Fits(q)
  <2>1. q \in Rings
    BY <1>0, <1>1 DEF Rings
  <2>2. Len(q.reqs) = 0 /\ Len(q.resps) = 0
    BY <1>1
  <2> QED BY <2>1, <2>2, Constants DEF Fits
<1>3. /\ a \in Statics /\ a.loaded = FALSE /\ a.loadPending = FALSE /\ a.validated = FALSE
      /\ a.confirming = FALSE
  <2>1. PICK creds \in BOOLEAN :
          a = [handler |-> TRUE, rom |-> None, creds |-> creds, loggedIn |-> FALSE,
               loginPending |-> FALSE, loaded |-> FALSE, loadPending |-> FALSE,
               deferred |-> FALSE, confirming |-> FALSE, validated |-> FALSE,
               told |-> FALSE]
    BY DEF Init
  <2> QED BY <2>1 DEF Statics
<1>4. c \in Client /\ c.load = NoLoad /\ c.game = None
  BY DEF Init, Client
<1>5. mirror \in Mirror
  BY DEF Init, Mirror
<1>6. /\ exec \in Request \cup {NoRequest} /\ server \subseteq Ach
      /\ earned \in [unlocked : SUBSET Ach, refused : SUBSET Ach] /\ earned.unlocked = {}
      /\ adapted \in BOOLEAN /\ pc = "idle" /\ user \in 0 .. MaxUser
  BY Constants DEF Init
<1>7. Typed
  BY <1>2, <1>3, <1>4, <1>5, <1>6 DEF Typed
<1>8. TypeOK
  BY <1>7, Types
<1>9. SessionAgrees /\ EvaluatedIsLive /\ Live
  <2>1. SessionAgrees
    <3>1. Agree(a, c)
      BY <1>3, <1>4, Constants, NothingAgrees
    <3> QED BY <3>1 DEF Agree, SessionAgrees
  <2>2. EvaluatedIsLive /\ Live
    BY <1>3, <1>6 DEF EvaluatedIsLive, Live
  <2> QED BY <2>1, <2>2
<1>10. EarnedIsKept
  BY <1>6, KeptIs
<1>11. Recorded
  BY <1>1 DEF Recorded, RecordedIn
<1> QED BY <1>8, <1>9, <1>10, <1>11 DEF IInv

\* Every step of the worker, the poll, the user and the FPGA keeps the invariant.
LEMMA StepKeeps == IInv /\ [Next]_vars => IInv'
<1> SUFFICES ASSUME IInv, [Next]_vars PROVE IInv'
  OBVIOUS
<1>1. CASE Worker
  BY <1>1, WorkerTakeKeeps, WorkerDoneKeeps DEF Worker
<1>2. CASE Poll
  <2>1. CASE PollResponse
    BY <2>1, PollResponseKeeps
  <2>2. CASE PollConfirm
    BY <2>2, PollConfirmKeeps
  <2>3. CASE PollValidate
    BY <2>3, PollValidateKeeps
  <2>4. CASE \E x \in Ach : FrameAward(x) \/ FrameRetry(x)
    BY <2>4, FrameAwardKeeps, FrameRetryKeeps
  <2>5. CASE PollStart \/ PollNothing \/ PollEvaluate \/ FrameEnd
    BY <2>5, QuietKeeps
  <2> QED BY <1>2, <2>1, <2>2, <2>3, <2>4, <2>5 DEF Poll
<1>3. CASE User
  BY <1>3, LoadGameKeeps, EjectKeeps, CoreResetKeeps DEF User
<1>4. CASE Scan \/ MagicLost
  BY <1>4, QuietKeeps
<1>5. CASE UNCHANGED vars
  <2>1. Typed'
    BY <1>5, Types DEF IInv, Typed, vars
  <2>2. SessionAgrees' /\ EvaluatedIsLive' /\ Live' /\ Recorded'
    BY <1>5 DEF IInv, SessionAgrees, EvaluatedIsLive, Live, Recorded, vars
  <2>3. EarnedIsKept'
    BY <1>5 DEF IInv, EarnedIsKept, Carried, vars
  <2> QED BY <2>1, <2>2, <2>3, Together
<1> QED BY <1>1, <1>2, <1>3, <1>4, <1>5 DEF Next

\* The inductive invariant holds in every state of the session.
THEOREM SpecIInv == Spec => []IInv
  BY InitEstablishes, StepKeeps, PTL DEF Spec

\* Every variable keeps its type, and neither ring ever holds more than it can.
THEOREM SpecTypeOK == Spec => []TypeOK
<1>1. IInv => TypeOK
  BY DEF IInv
<1> QED BY <1>1, SpecIInv, PTL

\* The flags of achievements.cpp always say what rc_client is doing, and for the
\* ROM that was loaded last, however late an answer comes; an Unknown game is no
\* loaded one.
THEOREM SpecSessionAgrees == Spec => []SessionAgrees
<1>1. IInv => SessionAgrees
  BY DEF IInv
<1> QED BY <1>1, SpecIInv, PTL

\* No frame is evaluated for another game than the one in the core, or on memory
\* that the core did not write since it was cleared; it may be the rest of a scan
\* that the clear fell into.
THEOREM SpecEvaluatedIsLive == Spec => []EvaluatedIsLive
<1>1. IInv => EvaluatedIsLive
  BY DEF IInv
<1> QED BY <1>1, SpecIInv, PTL

\* An achievement that was unlocked is recorded, refused, under way or waiting to
\* be sent again, unless both rings were full.
THEOREM SpecEarnedIsKept == Spec => []EarnedIsKept
<1>1. IInv => EarnedIsKept
  BY DEF IInv
<1> QED BY <1>1, SpecIInv, PTL
=============================================================================
