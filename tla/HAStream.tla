------------------------------ MODULE HAStream ------------------------------
(***************************************************************************)
(* The live state stream of HAClient (ha/client.py): connect, authenticate *)
(* and subscribe over a WebSocket, yield state_changed events, and on a     *)
(* failure classify it, back off, and after repeated rejections open a     *)
(* circuit that only an answered REST probe closes.  request_retry() would  *)
(* close it too, but nothing in the program calls it: the Retry route       *)
(* builds a new client instead, so it and its event are left out.           *)
(* The consumer of the events (ingest/collector.py) is a module of its     *)
(* own that extends this one and moves pc on from "yielded".               *)
(***************************************************************************)
EXTENDS Naturals, Sequences

CONSTANTS Servers,      \* how Home Assistant may treat us: "up", "down", "reject" (the
                        \* token is refused) and "forbid" (403, the address is banned)
          Readings,     \* states Home Assistant can report for the grid entity
          MaxQueue      \* bound on events waiting in the socket's buffer

ASSUME StreamAssumption ==
    /\ Servers \subseteq {"up", "down", "reject", "forbid"}
    /\ MaxQueue \in Nat \ {0}

TRANSIENT_MIN == 5
TRANSIENT_MAX == 60
BANNED_MIN == 60
BANNED_MAX == 900
AUTH_INVALID_OPEN_AFTER == 2
BANNED_OPEN_AFTER == 3
CIRCUIT_PROBE_INTERVAL == 300

VARIABLES
    server,   \* how Home Assistant treats us now
    sock,     \* the WebSocket: "none", "live", closed "clean"ly by the peer, or "broken"
    queue,    \* events received on the socket and not yet yielded
    pc,       \* where the stream task stands
    ha,       \* the HAClient object's reconnect state
    streak    \* history: the failures in a row of one class since the last reset

streamVars == <<server, sock, queue, pc, ha, streak>>

WsErrorClass == {"none", "transient", "auth_invalid", "banned_or_forbidden"}
Waiting == {"wait", "circuit", "probe"}
StreamPc == {"stopped", "connect", "open", "yielded", "crashed"} \cup Waiting

NewClient == [connected |-> FALSE, errClass |-> "none", backoff |-> TRANSIENT_MIN,
              circuitOpen |-> FALSE, authFails |-> 0, bannedFails |-> 0]

NoStreak == [class |-> "none", n |-> 0]

HAStreamInit ==
    /\ server \in Servers
    /\ sock = "none" /\ queue = <<>>
    /\ pc = "connect" /\ ha = NewClient /\ streak = NoStreak

-----------------------------------------------------------------------------
(* What the client records. *)

classify_ws_error(exc) ==
    CASE exc = "auth not ok" -> "auth_invalid"
      [] exc = "status 403"  -> "banned_or_forbidden"
      [] OTHER               -> "transient"

AtMost(x, bound) == IF x < bound THEN x ELSE bound
AtLeast(x, bound) == IF x > bound THEN x ELSE bound

\* The back-off after one more failure of class cls, on the state h of before it.
NextBackoff(h, cls) ==
    CASE cls = "auth_invalid" ->
            IF h.authFails + 1 >= AUTH_INVALID_OPEN_AFTER THEN CIRCUIT_PROBE_INTERVAL
                                                          ELSE TRANSIENT_MIN
      [] cls = "banned_or_forbidden" ->
            LET b == IF h.backoff < BANNED_MIN THEN BANNED_MIN
                                               ELSE AtMost(2 * h.backoff, BANNED_MAX)
            IN  IF h.bannedFails + 1 >= BANNED_OPEN_AFTER
                THEN AtLeast(b, CIRCUIT_PROBE_INTERVAL) ELSE b
      [] OTHER ->
            IF h.errClass # "transient" THEN TRANSIENT_MIN
                                        ELSE AtMost(2 * h.backoff, TRANSIENT_MAX)

\* Mutant of _record_failure: a failure of another class leaves the counts.
_record_failure_KeepsCounts(h, cls) ==
    LET auth   == IF cls = "auth_invalid" THEN h.authFails + 1 ELSE h.authFails
        banned == IF cls = "banned_or_forbidden" THEN h.bannedFails + 1 ELSE h.bannedFails
    IN [h EXCEPT !.connected = FALSE, !.errClass = cls,
                 !.backoff = NextBackoff(h, cls),
                 !.authFails = AtMost(auth, AUTH_INVALID_OPEN_AFTER),
                 !.bannedFails = AtMost(banned, BANNED_OPEN_AFTER),
                 !.circuitOpen = @ \/ auth >= AUTH_INVALID_OPEN_AFTER
                                   \/ banned >= BANNED_OPEN_AFTER]

_record_failure(h, cls) ==
    LET auth   == IF cls = "auth_invalid" THEN h.authFails + 1 ELSE 0
        banned == IF cls = "banned_or_forbidden" THEN h.bannedFails + 1 ELSE 0
    IN [h EXCEPT !.connected = FALSE, !.errClass = cls,
                 !.backoff = NextBackoff(h, cls),
                 !.authFails = auth, !.bannedFails = banned,
                 !.circuitOpen = @ \/ auth >= AUTH_INVALID_OPEN_AFTER
                                   \/ banned >= BANNED_OPEN_AFTER]

_record_success(h) ==
    [h EXCEPT !.errClass = "none", !.backoff = TRANSIENT_MIN, !.circuitOpen = FALSE,
              !.authFails = 0, !.bannedFails = 0]

\* A soft probe of the REST interface was answered; the class of the last
\* failure is kept.
ProbeClosesCircuit(h) ==
    [h EXCEPT !.circuitOpen = FALSE, !.authFails = 0, !.bannedFails = 0,
              !.backoff = TRANSIENT_MIN]

-----------------------------------------------------------------------------
(* The stream task. *)

\* Connecting, authenticating and subscribing all succeed.
Connect ==
    /\ pc = "connect" /\ server = "up"
    /\ ha' = [_record_success(ha) EXCEPT !.connected = TRUE]
    /\ sock' = "live" /\ queue' = <<>> /\ pc' = "open" /\ streak' = NoStreak
    /\ UNCHANGED server

\* An exception of the except clause: record it, then wait, behind the circuit
\* when it is open.
FailWith(exc) ==
    LET cls == classify_ws_error(exc) IN
    /\ ha' = _record_failure(ha, cls)
    /\ pc' = IF ha'.circuitOpen THEN "circuit" ELSE "wait"
    /\ sock' = "none" /\ queue' = <<>>
    /\ streak' = [class |-> cls,
                  n |-> IF streak.class = cls THEN AtMost(streak.n + 1, BANNED_OPEN_AFTER) ELSE 1]
    /\ UNCHANGED server

ConnectFails ==
    /\ pc = "connect" /\ server # "up"
    /\ FailWith(CASE server = "reject" -> "auth not ok"
                  [] server = "forbid" -> "status 403"
                  [] OTHER             -> "unreachable")

\* The async for over the socket hands the next event to the consumer.
Yield ==
    /\ pc = "open" /\ queue # <<>>
    /\ pc' = "yielded"
    /\ UNCHANGED <<server, sock, queue, ha, streak>>

\* The peer's close frame ends the async for without an exception: the while
\* loop connects again at once, with connected still TRUE.
CloseClean ==
    /\ pc = "open" /\ queue = <<>> /\ sock = "clean"
    /\ sock' = "none" /\ pc' = "connect"
    /\ UNCHANGED <<server, queue, ha, streak>>

ConnectionBreaks ==
    /\ pc = "open" /\ queue = <<>> /\ sock = "broken"
    /\ FailWith("connection lost")

\* _wait_before_retry: the delay passes.
WaitEnds ==
    /\ pc = "wait"
    /\ pc' = "connect"
    /\ UNCHANGED <<server, sock, queue, ha, streak>>

\* _wait_while_circuit_open: the interval's end leads to a probe.
CircuitWaitEnds ==
    /\ pc = "circuit"
    /\ pc' = "probe"
    /\ UNCHANGED <<server, sock, queue, ha, streak>>

\* Mutant of ProbeAnswered: the circuit stays open, so the wait begins again.
ProbeAnswered_StaysOpen ==
    /\ pc = "probe" /\ server = "up"
    /\ pc' = "circuit"
    /\ UNCHANGED <<server, sock, queue, ha, streak>>

ProbeAnswered ==
    /\ pc = "probe" /\ server = "up"
    /\ ha' = ProbeClosesCircuit(ha) /\ streak' = NoStreak
    /\ pc' = "connect"
    /\ UNCHANGED <<server, sock, queue>>

ProbeFails ==
    /\ pc = "probe" /\ server # "up"
    /\ pc' = "circuit"
    /\ UNCHANGED <<server, sock, queue, ha, streak>>

\* run_stream_safe: anything else that run_stream raised; a pause, then a new
\* stream_states, whose first statement resets the back-off.
StreamRestarts ==
    /\ pc = "crashed"
    /\ pc' = "connect" /\ ha' = [ha EXCEPT !.backoff = TRANSIENT_MIN]
    /\ UNCHANGED <<server, sock, queue, streak>>

-----------------------------------------------------------------------------
(* Home Assistant and the network. *)

ServerChanges ==
    /\ server' \in Servers \ {server}
    /\ UNCHANGED <<sock, queue, pc, ha, streak>>

\* The peer closes the socket, the connection is lost, or its keep-alive fails.
SocketCloses ==
    /\ sock = "live"
    /\ sock' \in {"clean", "broken"}
    /\ UNCHANGED <<server, queue, pc, ha, streak>>

StreamStep ==
    \/ Connect \/ ConnectFails \/ Yield \/ CloseClean \/ ConnectionBreaks
    \/ WaitEnds \/ CircuitWaitEnds \/ ProbeAnswered \/ ProbeFails \/ StreamRestarts

\* The stream's own steps are a task of the event loop and its timers.
StreamFairness == WF_streamVars(StreamStep)

-----------------------------------------------------------------------------
HAStreamTypeOK ==
    /\ server \in Servers /\ sock \in {"none", "live", "clean", "broken"}
    /\ queue \in Seq(Readings) /\ Len(queue) <= MaxQueue
    /\ pc \in StreamPc
    /\ ha \in [connected : BOOLEAN, errClass : WsErrorClass, backoff : Nat,
               circuitOpen : BOOLEAN, authFails : 0..AUTH_INVALID_OPEN_AFTER,
               bannedFails : 0..BANNED_OPEN_AFTER]
    /\ streak \in [class : WsErrorClass, n : 0..BANNED_OPEN_AFTER]

\* The circuit is open only for rejections in a row: two of the token or three
\* 403s, with no other failure, success or answered probe in between
\* (the counters of _record_failure, which two other functions reset).
CircuitJustified ==
    ha.circuitOpen =>
        \/ streak.class = "auth_invalid" /\ streak.n >= AUTH_INVALID_OPEN_AFTER
        \/ streak.class = "banned_or_forbidden" /\ streak.n >= BANNED_OPEN_AFTER

\* A hub that answered 403 is left alone for at least a minute, and a hub that
\* is merely unreachable is asked again within a minute, whatever classes of
\* failure came before.
DelayFitsClass ==
    pc = "wait" =>
        /\ ha.errClass = "banned_or_forbidden" => ha.backoff \in BANNED_MIN..BANNED_MAX
        /\ ha.errClass = "transient" => ha.backoff \in TRANSIENT_MIN..TRANSIENT_MAX

\* The delays of the stream: the circuit opens for rejections in a row only, each
\* wait has the length of its class of failure, and no attempt is made behind an
\* open circuit, since a ban grows with every attempt.
BackoffFits ==
    /\ CircuitJustified
    /\ DelayFitsClass
    /\ pc = "connect" => ~ha.circuitOpen

\* Once Home Assistant stays up the stream is subscribed again and again,
\* whatever it was waiting for.
StreamReturns == <>[](server = "up") => []<>(pc = "open")
=============================================================================
