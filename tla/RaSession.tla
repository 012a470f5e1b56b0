----------------------------- MODULE RaSession -----------------------------
(***************************************************************************)
(* The RetroAchievements session of one core: achievements.cpp (login, game*)
(* identification, mirror validation, evaluation) over ra_http.cpp (a curl *)
(* worker behind two rings) and the part of rcheevos' rc_client.c that     *)
(* holds a state between a request and its answer.                         *)
(*                                                                         *)
(* The main thread runs ra_poll (co_poll) and the loads and resets of the  *)
(* UI cothread, none of which yields; the worker thread interleaves with   *)
(* it everywhere, so pc says whether ra_http_poll is between two callbacks.*)
(* Timers (a retry that is due, the 700 ms of the save guard) may be found *)
(* expired or not.  Left out: popups, the list screens, leaderboards and   *)
(* rich presence pings, multi-hash games, hardcore (it is switched on only *)
(* while there is no game, so EVENT_RESET is never raised).                *)
(***************************************************************************)
EXTENDS Integers, Sequences, FiniteSets

CONSTANTS
  Rom,      \* ROM hashes
  Unlisted, \* those the server does not know
  Ach,      \* achievements
  GameOf,   \* the ROM of each achievement
  LoadId,   \* names of load attempts (rc_client_load_state_t), reused
  None,
  Cap,      \* QUEUE_CAP of both rings
  MaxUser   \* bound: what the user and the core do in a behaviour

ASSUME RaAssumption ==
  /\ Unlisted \subseteq Rom
  /\ GameOf \in [Ach -> Rom \ Unlisted]
  /\ None \notin Rom /\ None \notin LoadId /\ None \notin Ach
  /\ Cap \in Nat \ {0}
  /\ MaxUser \in Nat
  \* there is always a name that no answer still to come carries
  /\ IsFiniteSet(LoadId) /\ Cardinality(LoadId) > 2 * Cap + 1

VARIABLES
  q,       \* the rings: reqs, resps, and (ghost) the calls nobody will answer
  exec,    \* the request the worker is executing
  a,       \* the statics of achievements.cpp
  c,       \* the rc_client
  server,  \* achievements recorded by the server
  earned,  \* ghost: achievements unlocked in a behaviour, and those refused
  mirror,  \* the DDRAM mirror as the FPGA writes it: its magic, whether the frame counter
           \* has moved, the scan that has set busy, and (ghost) whether a scan has ended
           \* since Main cleared the memory that began after that, or before it
  adapted, \* detect_protocol accepts the core's protocol
  pc,      \* main thread: "idle", "poll" in ra_http_poll, "frame" and "retry" in
           \* the two halves of rc_client_do_frame
  user     \* what is left of MaxUser

vars == <<q, exec, a, c, server, earned, mirror, adapted, pc, user>>

Load == [id : LoadId, rom : Rom]
NoLoad == [id |-> None, rom |-> None]

\* A server call: its kind, what its callback data names, and retry_count,
\* which only tells none, one and more apart
Request == [kind : {"login"}, of : {None}, tries : {0}]
             \cup [kind : {"sets"}, of : Load, tries : {0}]
             \cup [kind : {"session"}, of : {l \in Load : l.rom \notin Unlisted}, tries : {0}]
             \cup [kind : {"award"}, of : Ach, tries : 0 .. 2]
NoRequest == [kind |-> "none", of |-> None, tries |-> 0]

\* A status of 0 and 5xx may be retried, another error may not; only an award
\* tells them apart
Status == {"ok", "error", "retryable"}

Statics ==
  [handler : BOOLEAN,       \* g_active_handler
   rom : Rom \cup {None},   \* g_rom_md5
   creds : BOOLEAN,         \* g_has_credentials
   loggedIn : BOOLEAN,      \* g_logged_in
   loginPending : BOOLEAN,  \* g_login_pending
   loaded : BOOLEAN,        \* g_game_loaded
   loadPending : BOOLEAN,   \* g_game_load_pending
   deferred : BOOLEAN,      \* g_game_load_deferred
   confirming : BOOLEAN,    \* g_mirror_confirming
   validated : BOOLEAN,     \* g_mirror_validated
   told : BOOLEAN]          \* ghost: the load of rom was answered

TypeOK ==
  /\ q \in [reqs : Seq(Request), resps : Seq([req : Request, status : Status]),
            lost : SUBSET Request]
  /\ Len(q.reqs) <= Cap /\ Len(q.resps) <= Cap
  /\ exec \in Request \cup {NoRequest}
  /\ a \in Statics
  /\ c \in [load : Load \cup {NoLoad}, game : Rom \cup {None},
            unlocked : SUBSET Ach, retry : SUBSET Ach, unlisted : SUBSET Unlisted]
  /\ server \subseteq Ach
  /\ earned \in [unlocked : SUBSET Ach, refused : SUBSET Ach]
  /\ mirror \in [magic : BOOLEAN, moved : BOOLEAN, live : BOOLEAN,
                 scan : {"none", "whole", "cut"}, partial : BOOLEAN]
  /\ adapted \in BOOLEAN
  /\ pc \in {"idle", "poll", "frame", "retry"}
  /\ user \in 0 .. MaxUser

Init ==
  /\ q = [reqs |-> << >>, resps |-> << >>, lost |-> {}]
  /\ exec = NoRequest
  /\ \E creds \in BOOLEAN :
       a = [handler |-> TRUE, rom |-> None, creds |-> creds, loggedIn |-> FALSE,
            loginPending |-> FALSE, loaded |-> FALSE, loadPending |-> FALSE,
            deferred |-> FALSE, confirming |-> FALSE, validated |-> FALSE,
            told |-> FALSE]
  /\ c = [load |-> NoLoad, game |-> None, unlocked |-> {}, retry |-> {}, unlisted |-> {}]
  /\ server = {}
  /\ earned = [unlocked |-> {}, refused |-> {}]
  \* the magic of the core that ran before may still be in the DDRAM
  /\ mirror \in [magic : BOOLEAN, moved : {FALSE}, live : {FALSE},
                 scan : {"none"}, partial : {FALSE}]
  /\ adapted \in BOOLEAN
  /\ pc = "idle"
  /\ user = MaxUser

-----------------------------------------------------------------------------
(* ra_http.cpp *)

Answer(r, status) == [req |-> r, status |-> status]

\* Faulty variant: the ring is not looked at before the push
RespondAnyway(p, r, status) == [p EXCEPT !.resps = Append(@, Answer(r, status))]

\* Both threads push a response that fits and drop one that does not
Respond(p, r, status) ==
  IF Len(p.resps) < Cap
    THEN [p EXCEPT !.resps = Append(@, Answer(r, status))]
    ELSE [p EXCEPT !.lost = @ \cup {r}]

\* ra_http_request: a full request ring answers itself
Send(p, r) ==
  IF Len(p.reqs) < Cap
    THEN [p EXCEPT !.reqs = Append(@, r)]
    ELSE Respond(p, r, "retryable")

\* Every request somebody will still answer
Carried ==
  {q.reqs[i] : i \in DOMAIN q.reqs} \cup {q.resps[i].req : i \in DOMAIN q.resps}
    \cup ({exec} \ {NoRequest})

WorkerTake ==
  /\ exec = NoRequest
  /\ q.reqs # << >>
  /\ exec' = Head(q.reqs)
  /\ q' = [q EXCEPT !.reqs = Tail(@)]
  /\ UNCHANGED <<a, c, server, earned, mirror, adapted, pc, user>>

\* The server answers; what it recorded is recorded although the answer is lost
WorkerDone(status) ==
  /\ exec # NoRequest
  /\ status = "retryable" => exec.kind = "award"
  /\ q' = Respond(q, exec, status)
  /\ exec' = NoRequest
  /\ IF exec.kind = "award"
       THEN \/ status # "error" /\ server' = server \cup {exec.of}
            \/ status # "ok" /\ UNCHANGED server
       ELSE UNCHANGED server
  /\ UNCHANGED <<a, c, earned, mirror, adapted, pc, user>>

-----------------------------------------------------------------------------
(* rc_client.c and the callbacks of achievements.cpp, on w = [q, a, c] *)

LoginReq == [kind |-> "login", of |-> None, tries |-> 0]
LoadReq(kind, l) == [kind |-> kind, of |-> l, tries |-> 0]
AwardReq(x, n) == [kind |-> "award", of |-> x, tries |-> n]

\* Faulty variant: every scheduled callback goes with the game, not just its ping
UnloadGameAndRetries(cl) ==
  [cl EXCEPT !.game = None, !.load = NoLoad, !.unlocked = {}, !.retry = {}]

\* rc_client_unload_game: an aborted load is freed when its answer comes
UnloadGame(cl) == [cl EXCEPT !.game = None, !.load = NoLoad, !.unlocked = {}]

\* ra_load_game_callback
LoadCallback(st, ok) ==
  [st EXCEPT !.loadPending = FALSE, !.loaded = @ \/ ok, !.told = TRUE]

\* The name of the next load is one that no answer still to come carries
NewId ==
  CHOOSE id \in LoadId :
    \A r \in Carried : r.kind \in {"sets", "session"} => r.of.id # id

\* rc_client_begin_load_game, called with g_game_load_pending set: a load in
\* progress is aborted and its callback told, a hash known to be unlisted
\* fails at once and leaves its Unknown game
BeginLoad(w, rom) ==
  LET l == [id |-> NewId, rom |-> rom]
      st == [w.a EXCEPT !.loadPending = (w.c.load = NoLoad)]
      cl == UnloadGame(w.c)
      p == [w.q EXCEPT !.lost = {r \in @ : r.kind \in {"login", "award"} \/ r.of.id # NewId}]
  IN IF rom \in cl.unlisted
       THEN [q |-> p, a |-> LoadCallback(st, FALSE), c |-> [cl EXCEPT !.game = rom]]
       ELSE [q |-> Send(p, LoadReq("sets", l)), a |-> st, c |-> [cl EXCEPT !.load = l]]

\* Faulty variant: a login that ends before the mirror is there relies on the
\* load that was deferred when it began
LoginAnsweredOnly(w, status) ==
  LET st == [w.a EXCEPT !.loginPending = FALSE, !.loggedIn = @ \/ status = "ok"]
  IN IF status = "ok" /\ st.rom # None /\ ~st.loaded /\ ~st.loadPending /\ st.validated
       THEN BeginLoad([w EXCEPT !.a = [st EXCEPT !.deferred = FALSE]], st.rom)
       ELSE [w EXCEPT !.a = st]

\* ra_login_callback
LoginAnswered(w, status) ==
  LET st == [w.a EXCEPT !.loginPending = FALSE, !.loggedIn = @ \/ status = "ok"]
      wanted == status = "ok" /\ st.rom # None /\ ~st.loaded /\ ~st.loadPending
  IN IF ~wanted THEN [w EXCEPT !.a = st]
     ELSE IF st.validated
       THEN BeginLoad([w EXCEPT !.a = [st EXCEPT !.deferred = FALSE]], st.rom)
       ELSE [w EXCEPT !.a = [st EXCEPT !.deferred = TRUE]]

\* rc_client_load_error
LoadFails(w) == [w EXCEPT !.c.load = NoLoad, !.a = LoadCallback(@, FALSE)]

\* rc_client_fetch_game_sets_callback; nothing is called for an aborted load, and an
\* unlisted hash gets an Unknown game (rc_client_process_resolved_hash)
SetsAnswered(w, l, status) ==
  IF w.c.load # l THEN w
  ELSE IF status # "ok" THEN LoadFails(w)
  ELSE IF l.rom \in Unlisted
    THEN LoadFails([w EXCEPT !.c.unlisted = @ \cup {l.rom}, !.c.game = l.rom])
    ELSE [w EXCEPT !.q = Send(@, LoadReq("session", l))]

\* Faulty variant: the answer is not compared with the load in progress
SessionAnsweredAny(w, l, status) ==
  IF status # "ok" THEN LoadFails(w)
  ELSE [w EXCEPT !.c.load = NoLoad, !.c.game = l.rom,
                 !.c.unlocked = server \cap {x \in Ach : GameOf[x] = l.rom},
                 !.a = LoadCallback(@, TRUE)]

\* rc_client_start_session_callback and rc_client_activate_game
SessionAnswered(w, l, status) ==
  IF w.c.load # l THEN w
  ELSE IF status # "ok" THEN LoadFails(w)
  ELSE [w EXCEPT !.c.load = NoLoad, !.c.game = l.rom,
                 !.c.unlocked = server \cap {x \in Ach : GameOf[x] = l.rom},
                 !.a = LoadCallback(@, TRUE)]

\* rc_client_award_achievement_callback: the first retry is immediate, the
\* later ones wait in scheduled_callbacks
AwardAnswered(w, r, status) ==
  IF status # "retryable" THEN w
  ELSE IF r.tries = 0 THEN [w EXCEPT !.q = Send(@, AwardReq(r.of, 1))]
  ELSE [w EXCEPT !.c.retry = @ \cup {r.of}]

\* The callback of one response
Dispatch(w, r, status) ==
  CASE r.kind = "login" -> LoginAnswered(w, status)
    [] r.kind = "sets" -> SetsAnswered(w, r.of, status)
    [] r.kind = "session" -> SessionAnswered(w, r.of, status)
    [] r.kind = "award" -> AwardAnswered(w, r, status)

World == [q |-> q, a |-> a, c |-> c]
Becomes(w) == q' = w.q /\ a' = w.a /\ c' = w.c

-----------------------------------------------------------------------------
(* The main thread *)

UserActs == pc = "idle" /\ a.handler /\ user > 0 /\ user' = user - 1

\* The memory is cleared, not the header; a scan in flight goes on behind the clear
Cleared(m) ==
  [m EXCEPT !.live = FALSE, !.partial = FALSE,
            !.scan = IF @ = "none" THEN "none" ELSE "cut"]

\* achievements_load_game, with the outcome of ra_has_internet_connectivity
LoadGame(rom, net) ==
  LET dropped == a.loaded \/ a.loadPending
      st == [a EXCEPT !.rom = rom, !.loaded = FALSE, !.loadPending = @ /\ ~dropped,
                      !.deferred = FALSE, !.confirming = FALSE, !.validated = FALSE,
                      !.told = FALSE]
      cl == IF dropped THEN UnloadGame(c) ELSE c
      w == [q |-> q, a |-> st, c |-> cl]
  IN /\ UserActs
     /\ IF ~st.loggedIn
          THEN IF ~st.loginPending /\ st.creds /\ net
                 THEN Becomes([w EXCEPT !.a.loginPending = TRUE, !.a.deferred = TRUE,
                                        !.q = Send(@, LoginReq)])
                 ELSE Becomes(w)
          ELSE IF st.loadPending THEN Becomes(w)
          ELSE IF mirror.magic THEN Becomes(BeginLoad(w, rom))
          ELSE Becomes([w EXCEPT !.a.deferred = TRUE])
     /\ mirror' = Cleared(mirror)
     /\ UNCHANGED <<exec, server, earned, adapted, pc>>

\* achievements_unload_game, when the SMS core ejects its ROM
Eject ==
  /\ UserActs
  /\ c' = UnloadGame(c)
  /\ a' = [a EXCEPT !.rom = None, !.loaded = FALSE, !.loadPending = FALSE,
                    !.deferred = FALSE, !.confirming = FALSE, !.validated = FALSE,
                    !.told = FALSE]
  /\ mirror' = Cleared(mirror)
  /\ UNCHANGED <<q, exec, server, earned, adapted, pc>>

\* Faulty variant: a mirror that is being confirmed stays so over the reset
CoreResetConfirming ==
  /\ UserActs
  /\ a' = [a EXCEPT !.validated = FALSE]
  /\ mirror' = Cleared(mirror)
  /\ UNCHANGED <<q, exec, c, server, earned, adapted, pc>>

\* achievements_notify_core_reset: the game stays, the mirror is validated anew
CoreReset ==
  /\ UserActs
  /\ a' = [a EXCEPT !.confirming = FALSE, !.validated = FALSE]
  /\ mirror' = Cleared(mirror)
  /\ UNCHANGED <<q, exec, c, server, earned, adapted, pc>>

PollStart ==
  /\ pc = "idle"
  /\ pc' = "poll"
  /\ UNCHANGED <<q, exec, a, c, server, earned, mirror, adapted, user>>

\* One turn of the loop of ra_http_poll
PollResponse ==
  /\ pc = "poll"
  /\ q.resps # << >>
  /\ LET r == Head(q.resps)
     IN /\ Becomes(Dispatch([World EXCEPT !.q.resps = Tail(@)], r.req, r.status))
        /\ earned' = IF r.req.kind = "award" /\ r.status = "error"
                       THEN [earned EXCEPT !.refused = @ \cup {r.req.of}] ELSE earned
  /\ UNCHANGED <<exec, server, mirror, adapted, pc, user>>

PollRest == pc = "poll" /\ q.resps = << >> /\ pc' = "idle"

\* The mirror's magic is looked for, then a frame counter that moves
PollConfirm ==
  /\ PollRest
  /\ ~a.validated
  /\ ~(a.confirming /\ mirror.magic /\ mirror.moved)
  /\ a' = [a EXCEPT !.confirming = mirror.magic]
  /\ mirror' = [mirror EXCEPT !.moved = @ /\ a.confirming]
  /\ UNCHANGED <<q, exec, c, server, earned, adapted, user>>

\* The frame counter moved: the core's protocol is detected, and a load that
\* waited for the mirror begins
PollValidate ==
  /\ PollRest
  /\ ~a.validated /\ a.confirming /\ mirror.magic /\ mirror.moved
  /\ LET st == [a EXCEPT !.confirming = FALSE, !.validated = TRUE]
     IN IF a.handler /\ ~adapted
          THEN a' = [st EXCEPT !.deferred = FALSE, !.handler = FALSE] /\ UNCHANGED <<q, c>>
        ELSE IF a.deferred /\ a.loggedIn /\ a.rom # None /\ ~a.loadPending
          THEN Becomes(BeginLoad([World EXCEPT !.a = [st EXCEPT !.deferred = FALSE,
                                                               !.loaded = FALSE]], a.rom))
        ELSE a' = st /\ UNCHANGED <<q, c>>
  /\ UNCHANGED <<exec, server, earned, mirror, adapted, user>>

\* The save guard holds the evaluation, or no frame came, or no game is loaded
PollNothing ==
  /\ PollRest
  /\ a.validated
  /\ UNCHANGED <<q, exec, a, c, server, earned, mirror, adapted, user>>

\* A frame is evaluated: a handler's poll or the default path
PollEvaluate ==
  /\ pc = "poll" /\ q.resps = << >>
  /\ a.validated /\ a.loaded
  /\ pc' = "frame"
  /\ UNCHANGED <<q, exec, a, c, server, earned, mirror, adapted, user>>

\* rc_client_do_frame, first half: an achievement triggers and is sent
FrameAward(x) ==
  /\ pc = "frame"
  /\ GameOf[x] = c.game /\ x \notin c.unlocked
  /\ q' = Send(q, AwardReq(x, 0))
  /\ c' = [c EXCEPT !.unlocked = @ \cup {x}]
  /\ earned' = [earned EXCEPT !.unlocked = @ \cup {x}]
  /\ UNCHANGED <<exec, a, server, mirror, adapted, pc, user>>

\* Second half, rc_client_idle (called from here only): a retry that is due
FrameRetry(x) ==
  /\ pc \in {"frame", "retry"}
  /\ x \in c.retry
  /\ q' = Send(q, AwardReq(x, 2))
  /\ c' = [c EXCEPT !.retry = @ \ {x}]
  /\ pc' = "retry"
  /\ UNCHANGED <<exec, a, server, earned, mirror, adapted, user>>

FrameEnd ==
  /\ pc \in {"frame", "retry"}
  /\ pc' = "idle"
  /\ UNCHANGED <<q, exec, a, c, server, earned, mirror, adapted, user>>

-----------------------------------------------------------------------------
(* The FPGA *)

\* The core begins to write its memory and sets busy, which ra_poll_impl reads and
\* does not look at
ScanBegins ==
  /\ mirror.scan = "none"
  /\ mirror' = [mirror EXCEPT !.scan = "whole"]
  /\ UNCHANGED <<q, exec, a, c, server, earned, adapted, pc, user>>

\* ... and at the end of it writes the header, with the counter moved on
ScanEnds ==
  /\ mirror.scan # "none"
  /\ mirror' = [magic |-> TRUE, moved |-> TRUE, scan |-> "none",
                live |-> (mirror.scan = "whole"), partial |-> (mirror.scan = "cut")]
  /\ UNCHANGED <<q, exec, a, c, server, earned, adapted, pc, user>>

Scan == ScanBegins \/ ScanEnds

\* The header is lost, as when the core is being replaced
MagicLost ==
  /\ mirror.magic
  /\ user > 0 /\ user' = user - 1
  /\ mirror' = [mirror EXCEPT !.magic = FALSE, !.moved = FALSE]
  /\ UNCHANGED <<q, exec, a, c, server, earned, adapted, pc>>

Worker == WorkerTake \/ \E status \in Status : WorkerDone(status)

Poll ==
  \/ PollStart
  \/ PollResponse
  \/ PollConfirm
  \/ PollValidate
  \/ PollNothing
  \/ PollEvaluate
  \/ \E x \in Ach : FrameAward(x) \/ FrameRetry(x)
  \/ FrameEnd

User ==
  \/ \E rom \in Rom, net \in BOOLEAN : LoadGame(rom, net)
  \/ Eject
  \/ CoreReset

Next == Worker \/ Poll \/ User \/ Scan \/ MagicLost

Spec == Init /\ [][Next]_vars

\* The worker and co_poll keep running and the core keeps drawing; the save guard
\* ends, so frames are evaluated again and again, a retry falls due, and a server
\* that is asked again and again answers in the end
Fairness ==
  /\ WF_vars(Worker) /\ WF_vars(Poll) /\ WF_vars(Scan)
  /\ SF_vars(WorkerDone("ok"))
  /\ SF_vars(PollEvaluate)
  /\ \A x \in Ach : SF_vars(FrameRetry(x))

FairSpec == Spec /\ Fairness

-----------------------------------------------------------------------------
(* Properties *)

\* The flags of achievements.cpp tell what rc_client is doing, for the ROM that
\* was loaded last: no late answer, abort or reset makes another game the loaded
\* one, leaves a load unknown to the flags or a flag without its load.  The Unknown
\* game of an unlisted hash, which stays in rc_client until the next load begins, is
\* never taken for a loaded one.
SessionAgrees ==
  /\ a.loaded = (c.game \in Rom \ Unlisted)
  /\ a.loadPending = (c.load # NoLoad)
  /\ a.loaded => c.game = a.rom
  /\ c.load # NoLoad => c.load.rom = a.rom /\ c.game = None

\* A frame is evaluated only for the game in the core, on memory that the core
\* wrote after the mirror was last cleared: never on the zeroes of a load or a
\* reset or on what an earlier core left.  Except: a scan was in flight when Main
\* cleared the memory; its end moves the counter, and Main validates and evaluates
\* memory of which the scan's first part is zero, until the next scan ends.
EvaluatedIsLive ==
  pc \in {"frame", "retry"} =>
    /\ a.loaded /\ c.game = a.rom
    /\ mirror.live \/ mirror.partial

\* An achievement that was unlocked is never forgotten, although its game may be
\* unloaded, reset or reloaded: the server has it or refused it, or its request is
\* under way or waits for a retry, unless both rings were full.
EarnedIsKept ==
  \A x \in earned.unlocked \ (server \cup earned.refused \cup c.retry) :
    \E n \in 0 .. 2 : AwardReq(x, n) \in Carried \cup q.lost

\* Once nothing new is loaded, ejected or reset, everything is answered: a login;
\* the load of the ROM of an adapted core whose player is logged in, be it that it
\* waited for the login, for the mirror, or for both; and, through any number of
\* failed attempts, every achievement, unless it is refused or no game is loaded
\* that would let rc_client_do_frame run the retries.  Only full rings lose any.
SessionSettles ==
  <>[]( /\ a.loginPending => LoginReq \in q.lost
        /\ a.handler /\ a.rom # None /\ a.loggedIn =>
             a.told \/ \E r \in q.lost : r.of = c.load
        /\ a.loaded =>
             \A x \in earned.unlocked \ (server \cup earned.refused) :
               \E n \in 0 .. 2 : AwardReq(x, n) \in q.lost )
=============================================================================
