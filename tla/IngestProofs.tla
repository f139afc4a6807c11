---------------------------- MODULE IngestProofs ----------------------------
(***************************************************************************)
(* Proofs about the state stream and the grid events, for any states of    *)
(* the grid entity, any number of its changes, of database faults, of      *)
(* reconnections and of crashes.                                           *)
(*                                                                         *)
(* The back-off: the failures the client counts are a run of the streak    *)
(* (Circuit), and no failure is recorded while the circuit is open.        *)
(*                                                                         *)
(* The grid events: a collector that remembers another state than the one  *)
(* stored last may repeat it once, so a difference of the two counts as a  *)
(* repetition to come, and whoever holds the lock is about to settle it    *)
(* (Budget).  What is stored and what is to come never exceeds what was    *)
(* lost or overwritten.                                                    *)
(***************************************************************************)
EXTENDS GridIngest, TLAPS

Clients == [connected : BOOLEAN, errClass : WsErrorClass, backoff : Nat,
            circuitOpen : BOOLEAN, authFails : 0..AUTH_INVALID_OPEN_AFTER,
            bannedFails : 0..BANNED_OPEN_AFTER]
Streaks == [class : WsErrorClass, n : 0..BANNED_OPEN_AFTER]
Uses == [flips : 0..MaxFlips, dbFaults : 0..MaxDbFaults, resets : 0..MaxResets]

(* The counters and the streak, with the stream task wherever it is but at *)
(* its waits.                                                              *)
Counts(h, s) ==
    /\ h \in Clients /\ s \in Streaks
    /\ h.backoff >= TRANSIENT_MIN
    /\ ~h.circuitOpen => /\ h.authFails < AUTH_INVALID_OPEN_AFTER
                         /\ h.bannedFails < BANNED_OPEN_AFTER
    /\ h.authFails > 0 => s.class = "auth_invalid" /\ s.n >= h.authFails
    /\ h.bannedFails > 0 => s.class = "banned_or_forbidden" /\ s.n >= h.bannedFails
    /\ h.circuitOpen =>
          \/ s.class = "auth_invalid" /\ s.n >= AUTH_INVALID_OPEN_AFTER
          \/ s.class = "banned_or_forbidden" /\ s.n >= BANNED_OPEN_AFTER

Circuit ==
    /\ Counts(ha, streak)
    /\ ha.circuitOpen => pc \in {"circuit", "probe"}
    /\ DelayFitsClass

Lock ==
    /\ gridLock # "free" => handling[gridLock] \in Known
    /\ gridLock = "stream" => pc = "yielded"
    /\ smp # "idle" => handling["sample"] = "none"
    /\ rec # "idle" => pc = "stopped"

One(b) == IF b THEN 1 ELSE 0

Budget ==
    IF gridLock = "free"
    THEN dups + One(last # stored) <= lost + raced
    ELSE dups + One(stored = handling[gridLock]) + One(last # handling[gridLock])
           <= lost + raced

GridTypes ==
    /\ grid \in Readings /\ cache \in Readings /\ last \in Readings
    /\ primed \in Readings /\ stored \in Readings
    /\ gridLock \in Tasks \cup {"free"}
    /\ handling \in [Tasks -> Known \cup {"none"}]
    /\ smp \in {"idle", "asked"} \cup Readings
    /\ rec \in {"idle", "built", "read"}
    /\ dups \in Nat /\ lost \in Nat /\ raced \in Nat
    /\ used \in Uses

IngestInv == HAStreamTypeOK /\ GridTypes /\ Circuit /\ Lock /\ Budget

-----------------------------------------------------------------------------
(* The back-off. *)

LEMMA NewClientCounts == Counts(NewClient, NoStreak) /\ ~NewClient.circuitOpen
BY DEF Counts, Clients, Streaks, NewClient, NoStreak, WsErrorClass, TRANSIENT_MIN,
   AUTH_INVALID_OPEN_AFTER, BANNED_OPEN_AFTER

(* Field by field. *)
LEMMA ResetFields ==
    ASSUME NEW h \in Clients
    PROVE  /\ _record_success(h) \in Clients /\ ProbeClosesCircuit(h) \in Clients
           /\ [h EXCEPT !.connected = TRUE] \in Clients
           /\ \A f \in {"backoff", "circuitOpen", "authFails", "bannedFails"} :
                 [h EXCEPT !.connected = TRUE][f] = h[f]
           /\ \A g \in {_record_success(h), ProbeClosesCircuit(h)} :
                 /\ g.backoff = TRANSIENT_MIN /\ g.circuitOpen = FALSE
                 /\ g.authFails = 0 /\ g.bannedFails = 0
<1> USE DEF WsErrorClass, TRANSIENT_MIN, AUTH_INVALID_OPEN_AFTER, BANNED_OPEN_AFTER
<1>0. h.connected \in BOOLEAN /\ h.errClass \in WsErrorClass /\ "none" \in WsErrorClass
      /\ TRANSIENT_MIN \in Nat /\ 0 \in 0 .. AUTH_INVALID_OPEN_AFTER
      /\ 0 \in 0 .. BANNED_OPEN_AFTER
  BY DEF Clients
<1>2. _record_success(h) \in Clients
  <2> HIDE DEF WsErrorClass, TRANSIENT_MIN, AUTH_INVALID_OPEN_AFTER, BANNED_OPEN_AFTER
  <2> QED  BY <1>0 DEF Clients, _record_success
<1>3. ProbeClosesCircuit(h) \in Clients
  <2> HIDE DEF WsErrorClass, TRANSIENT_MIN, AUTH_INVALID_OPEN_AFTER, BANNED_OPEN_AFTER
  <2> QED  BY <1>0 DEF Clients, ProbeClosesCircuit
<1>4. LET g == _record_success(h) IN
      /\ g.backoff = TRANSIENT_MIN /\ g.circuitOpen = FALSE
      /\ g.authFails = 0 /\ g.bannedFails = 0
  BY DEF Clients, _record_success
<1>5. LET g == ProbeClosesCircuit(h) IN
      /\ g.backoff = TRANSIENT_MIN /\ g.circuitOpen = FALSE
      /\ g.authFails = 0 /\ g.bannedFails = 0
  BY DEF Clients, ProbeClosesCircuit
<1>6. [h EXCEPT !.connected = TRUE] \in Clients  BY DEF Clients
<1>7. \A f \in {"backoff", "circuitOpen", "authFails", "bannedFails"} :
         [h EXCEPT !.connected = TRUE][f] = h[f]
  BY DEF Clients
<1> QED  BY <1>2, <1>3, <1>4, <1>5, <1>6, <1>7

(* A success, an answered probe and a restarted stream begin anew. *)
LEMMA ResetsCount ==
    ASSUME NEW h, NEW s, Counts(h, s)
    PROVE  /\ LET g == [_record_success(h) EXCEPT !.connected = TRUE]
              IN  Counts(g, NoStreak) /\ ~g.circuitOpen
           /\ LET g == ProbeClosesCircuit(h) IN Counts(g, NoStreak) /\ ~g.circuitOpen
           /\ LET g == [h EXCEPT !.backoff = TRANSIENT_MIN]
              IN  Counts(g, s) /\ (g.circuitOpen => h.circuitOpen)
<1> USE DEF WsErrorClass, TRANSIENT_MIN, AUTH_INVALID_OPEN_AFTER, BANNED_OPEN_AFTER
<1>1. h \in Clients /\ s \in Streaks /\ NoStreak \in Streaks
  BY DEF Counts, Streaks, NoStreak
<1>2. ASSUME NEW g \in Clients, g.backoff = TRANSIENT_MIN, ~g.circuitOpen,
             g.authFails = 0, g.bannedFails = 0
      PROVE  Counts(g, NoStreak)
  BY <1>1, <1>2 DEF Counts
<1>3. LET g == [_record_success(h) EXCEPT !.connected = TRUE]
      IN  Counts(g, NoStreak) /\ ~g.circuitOpen
  <2> DEFINE r == _record_success(h)
             g == [r EXCEPT !.connected = TRUE]
  <2>1. /\ r \in Clients /\ r.backoff = TRANSIENT_MIN /\ r.circuitOpen = FALSE
        /\ r.authFails = 0 /\ r.bannedFails = 0
    BY <1>1, ResetFields
  <2> HIDE DEF r
  <2>2. /\ g \in Clients /\ g.backoff = TRANSIENT_MIN /\ g.circuitOpen = FALSE
        /\ g.authFails = 0 /\ g.bannedFails = 0
    BY <2>1, ResetFields
  <2> HIDE DEF g
  <2>3. Counts(g, NoStreak)  BY <1>2, <2>2
  <2> QED  BY <2>2, <2>3 DEF g, r
<1>4. LET g == ProbeClosesCircuit(h) IN Counts(g, NoStreak) /\ ~g.circuitOpen
  <2> DEFINE g == ProbeClosesCircuit(h)
  <2>1. /\ g \in Clients /\ g.backoff = TRANSIENT_MIN /\ g.circuitOpen = FALSE
        /\ g.authFails = 0 /\ g.bannedFails = 0
    BY <1>1, ResetFields
  <2> HIDE DEF g
  <2>2. Counts(g, NoStreak)  BY <1>2, <2>1
  <2> QED  BY <2>1, <2>2 DEF g
<1>5. LET g == [h EXCEPT !.backoff = TRANSIENT_MIN]
      IN  Counts(g, s) /\ (g.circuitOpen => h.circuitOpen)
  BY <1>1 DEF Counts, Clients
<1> QED  BY <1>3, <1>4, <1>5

(* The delay after one more failure. *)
LEMMA BackoffRange ==
    ASSUME NEW h \in Clients, h.backoff >= TRANSIENT_MIN,
           NEW cls \in WsErrorClass \ {"none"}
    PROVE  /\ NextBackoff(h, cls) \in Nat /\ NextBackoff(h, cls) >= TRANSIENT_MIN
           /\ cls = "banned_or_forbidden" =>
                 NextBackoff(h, cls) \in BANNED_MIN .. BANNED_MAX
           /\ cls = "transient" => NextBackoff(h, cls) \in TRANSIENT_MIN .. TRANSIENT_MAX
<1>1. h.backoff \in Nat  BY DEF Clients
<1> QED
  BY <1>1
     DEF NextBackoff, AtMost, AtLeast, WsErrorClass, TRANSIENT_MIN, TRANSIENT_MAX,
         BANNED_MIN, BANNED_MAX, CIRCUIT_PROBE_INTERVAL

(* A failure of the stream, recorded while the circuit is closed. *)
LEMMA FailureCounts ==
    ASSUME Circuit, ~ha.circuitOpen, NEW exc, FailWith(exc)
    PROVE  Circuit' /\ pc' \in {"circuit", "wait"}
<1> DEFINE cls    == classify_ws_error(exc)
           auth   == IF cls = "auth_invalid" THEN ha.authFails + 1 ELSE 0
           banned == IF cls = "banned_or_forbidden" THEN ha.bannedFails + 1 ELSE 0
<1>1. cls \in WsErrorClass \ {"none"}  BY DEF classify_ws_error, WsErrorClass
<1>2. /\ ha' = _record_failure(ha, cls)
      /\ pc' = IF ha'.circuitOpen THEN "circuit" ELSE "wait"
      /\ streak' = [class |-> cls,
                    n |-> IF streak.class = cls THEN AtMost(streak.n + 1, BANNED_OPEN_AFTER)
                                                ELSE 1]
  BY DEF FailWith
<1> HIDE DEF cls
<1>3. /\ ha \in Clients /\ ha.backoff >= TRANSIENT_MIN /\ streak \in Streaks
      /\ ha.authFails \in 0 .. 1 /\ ha.bannedFails \in 0 .. 2 /\ streak.n \in 0 .. 3
      /\ ha.authFails > 0 => streak.class = "auth_invalid" /\ streak.n >= ha.authFails
      /\ ha.bannedFails > 0 =>
            streak.class = "banned_or_forbidden" /\ streak.n >= ha.bannedFails
  BY DEF Circuit, Counts, Clients, Streaks, AUTH_INVALID_OPEN_AFTER, BANNED_OPEN_AFTER
<1>4. /\ NextBackoff(ha, cls) \in Nat /\ NextBackoff(ha, cls) >= TRANSIENT_MIN
      /\ cls = "banned_or_forbidden" =>
            NextBackoff(ha, cls) \in BANNED_MIN .. BANNED_MAX
      /\ cls = "transient" => NextBackoff(ha, cls) \in TRANSIENT_MIN .. TRANSIENT_MAX
  BY <1>1, <1>3, BackoffRange
<1>5. auth \in 0 .. 2 /\ banned \in 0 .. 3  BY <1>3
<1>6. /\ ha' \in Clients
      /\ ha'.errClass = cls /\ ha'.backoff = NextBackoff(ha, cls)
      /\ ha'.authFails = auth /\ ha'.bannedFails = banned
      /\ ha'.circuitOpen <=> (auth >= 2 \/ banned >= 3)
  BY <1>1, <1>2, <1>3, <1>4, <1>5
     DEF _record_failure, Clients, AUTH_INVALID_OPEN_AFTER, BANNED_OPEN_AFTER, Circuit
<1>7. /\ streak' \in Streaks /\ streak'.class = cls
      /\ streak.class = cls => streak'.n >= streak.n /\ (streak.n < 3 => streak'.n = streak.n + 1)
      /\ streak'.n >= 1
  BY <1>1, <1>2, <1>3 DEF Streaks, AtMost, BANNED_OPEN_AFTER
<1>8. /\ auth > 0 => cls = "auth_invalid" /\ streak'.n >= auth
      /\ banned > 0 => cls = "banned_or_forbidden" /\ streak'.n >= banned
  <2>1. streak'.n \in Nat  BY <1>7 DEF Streaks, BANNED_OPEN_AFTER
  <2> QED  BY <1>3, <1>7, <2>1
<1> HIDE DEF auth, banned
<1>9. Counts(ha', streak')
  BY <1>4, <1>5, <1>6, <1>7, <1>8
     DEF Counts, AUTH_INVALID_OPEN_AFTER, BANNED_OPEN_AFTER
<1>10. DelayFitsClass'  BY <1>4, <1>6 DEF DelayFitsClass
<1> QED  BY <1>2, <1>9, <1>10 DEF Circuit

(* The types and the circuit through the steps of the stream itself. *)
LEMMA StreamStep_Circuit ==
    ASSUME TypeOK, Circuit, StreamStep
    PROVE  HAStreamTypeOK' /\ Circuit'
<1> USE DEF HAStreamTypeOK, TypeOK, StreamPc, Waiting
<1>0. /\ <<>> \in Seq(Readings) /\ Len(<<>>) = 0 /\ MaxQueue \in Nat
      /\ Counts(ha, streak) /\ (ha.circuitOpen => pc \in {"circuit", "probe"})
  BY StreamAssumption DEF Circuit
<1>1. ASSUME Counts(ha', streak'), ha'.circuitOpen => pc' \in {"circuit", "probe"},
             DelayFitsClass', server' = server, pc' \in StreamPc,
             sock' \in {"none", "live", "clean", "broken"}, queue' \in {queue, <<>>}
      PROVE  HAStreamTypeOK' /\ Circuit'
  <2>1. ha' \in Clients /\ streak' \in Streaks /\ server' \in Servers
    BY <1>1 DEF Counts
  <2>2. queue' \in Seq(Readings) /\ Len(queue') <= MaxQueue
    <3>1. CASE queue' = queue  BY <3>1
    <3>2. CASE queue' = <<>>  BY <1>0, <3>2
    <3> QED  BY <1>1, <3>1, <3>2
  <2> QED  BY <1>1, <2>1, <2>2 DEF Circuit, Clients, Streaks
<1>2. ASSUME NEW exc, pc \in {"connect", "open"}, FailWith(exc)
      PROVE  HAStreamTypeOK' /\ Circuit'
  <2>1. Circuit' /\ pc' \in {"circuit", "wait"}  BY <1>0, <1>2, FailureCounts
  <2> QED  BY <1>1, <1>2, <2>1 DEF FailWith, Circuit
<1>3. CASE Connect
  BY <1>0, <1>1, <1>3, ResetsCount DEF Connect, DelayFitsClass
<1>4. CASE ConnectFails
  <2>1. pc \in {"connect", "open"}  BY <1>4 DEF ConnectFails
  <2>2. \E exc : FailWith(exc)  BY <1>4, Zenon DEF ConnectFails
  <2> QED  BY <1>2, <2>1, <2>2
<1>5. CASE Yield  BY <1>0, <1>1, <1>5 DEF Yield, DelayFitsClass
<1>6. CASE CloseClean  BY <1>0, <1>1, <1>6 DEF CloseClean, DelayFitsClass
<1>7. CASE ConnectionBreaks
  <2>1. pc \in {"connect", "open"} /\ \E exc : FailWith(exc)
    BY <1>7 DEF ConnectionBreaks
  <2> QED  BY <1>2, <2>1
<1>8. CASE WaitEnds  BY <1>0, <1>1, <1>8 DEF WaitEnds, DelayFitsClass
<1>9. CASE CircuitWaitEnds  BY <1>0, <1>1, <1>9 DEF CircuitWaitEnds, DelayFitsClass
<1>10. CASE ProbeAnswered
  BY <1>0, <1>1, <1>10, ResetsCount DEF ProbeAnswered, DelayFitsClass
<1>11. CASE ProbeFails  BY <1>0, <1>1, <1>11 DEF ProbeFails, DelayFitsClass
<1>12. CASE StreamRestarts
  BY <1>0, <1>1, <1>12, ResetsCount DEF StreamRestarts, DelayFitsClass
<1> QED
  BY <1>3, <1>4, <1>5, <1>6, <1>7, <1>8, <1>9, <1>10, <1>11, <1>12 DEF StreamStep
-----------------------------------------------------------------------------
(* The grid events. *)

LEMMA TypesAgree == TypeOK <=> HAStreamTypeOK /\ GridTypes
BY DEF TypeOK, GridTypes, Uses

LEMMA IngestInit_Inv == Init => IngestInv
<1> SUFFICES ASSUME Init PROVE IngestInv
  OBVIOUS
<1>1. ha = NewClient /\ streak = NoStreak /\ pc = "connect"
  BY DEF Init, HAStreamInit
<1>2. Circuit  BY <1>1, NewClientCounts DEF Circuit, DelayFitsClass
<1>3. HAStreamTypeOK
  BY <1>1, <1>2, StreamAssumption
     DEF Init, HAStreamInit, HAStreamTypeOK, StreamPc, Circuit, Counts, Clients, Streaks
<1>4. GridTypes
  BY IngestBounds, ReadingsAssumption DEF Init, GridIngestInit, GridTypes, Tasks, Known, Uses
<1> QED
  BY <1>2, <1>3, <1>4 DEF Init, GridIngestInit, IngestInv, Lock, Budget, One

LEMMA SpendUses ==
    ASSUME used \in Uses,
           \/ Spend("flips", MaxFlips)
           \/ Spend("dbFaults", MaxDbFaults)
           \/ Spend("resets", MaxResets)
    PROVE  used' \in Uses
<1>1. MaxFlips \in Nat /\ MaxDbFaults \in Nat /\ MaxResets \in Nat  BY IngestBounds
<1> QED  BY <1>1 DEF Spend, Uses

LEMMA StoreEventCounts ==
    ASSUME GridTypes, NEW v \in Known, StoreEvent(v)
    PROVE  /\ stored' = v /\ stored' \in Readings
           /\ dups' \in Nat /\ dups' = dups + One(stored = v)
BY DEF GridTypes, StoreEvent, One, Known

(* The stream task moves on with the client as it is. *)
LEMMA CircuitFrame ==
    ASSUME Circuit, UNCHANGED <<ha, streak>>,
           \/ pc' = pc
           \/ ~ha.circuitOpen /\ pc' # "wait"
    PROVE  Circuit'
BY DEF Circuit, DelayFitsClass

(* Entering, and leaving, the section under the lock. *)
LEMMA KnownInv ==
    ASSUME GridTypes, Lock, Budget, NEW t \in Tasks, HandleKnown(t),
           UNCHANGED <<grid, cache, smp, rec, primed, stored, dups, lost, raced, used>>,
           pc' = pc \/ (rec = "idle")
    PROVE  GridTypes' /\ Lock' /\ Budget'
<1>1. GridTypes'  BY DEF GridTypes, HandleKnown
<1>2. Lock'  BY DEF GridTypes, HandleKnown, Lock, Tasks
<1>3. Budget'  BY DEF HandleKnown, Budget
<1> QED  BY <1>1, <1>2, <1>3

LEMMA TransitionInv ==
    ASSUME GridTypes, Lock, Budget, NEW t \in Tasks, HandleTransition(t),
           UNCHANGED <<pc, grid, cache, smp, rec, primed, stored, dups, lost, raced, used>>,
           t = "stream" => pc = "yielded"
    PROVE  GridTypes' /\ Lock' /\ Budget'
<1>1. GridTypes'  BY DEF GridTypes, HandleTransition, Known
<1>2. Lock'  BY DEF HandleTransition, Lock, Tasks
<1>3. Budget'
  BY DEF GridTypes, HandleTransition, Budget, One, Tasks
<1> QED  BY <1>1, <1>2, <1>3

LEMMA SavedInv ==
    ASSUME GridTypes, Lock, Budget, NEW t \in Tasks, SaveEvent(t),
           UNCHANGED <<grid, cache, last, smp, rec, primed, raced, used>>,
           pc' = pc \/ (rec = "idle")
    PROVE  GridTypes' /\ Lock' /\ Budget'
<1> DEFINE v == handling[t]
<1>1. v \in Known /\ gridLock = t /\ t # "free"  BY DEF SaveEvent, Lock, Tasks
<1>2. /\ stored' = v /\ stored' \in Readings
      /\ dups' \in Nat /\ dups' = dups + One(stored = v)
  BY <1>1, StoreEventCounts DEF SaveEvent
<1>3. gridLock' = "free" /\ handling' = [handling EXCEPT ![t] = "none"] /\ lost' = lost
  BY DEF SaveEvent
<1>4. GridTypes'  BY <1>2, <1>3 DEF GridTypes
<1>5. Lock'  BY <1>3 DEF GridTypes, Lock, Tasks
<1>6. dups + One(stored = v) + One(last # v) <= lost + raced  BY <1>1 DEF Budget
<1>7. Budget'  BY <1>2, <1>3, <1>6 DEF Budget
<1> QED  BY <1>4, <1>5, <1>7

LEMMA SaveFailsInv ==
    ASSUME GridTypes, Lock, Budget, NEW t \in Tasks, SaveFails(t),
           UNCHANGED <<grid, cache, last, smp, rec, primed, raced>>,
           pc' = pc \/ (rec = "idle")
    PROVE  GridTypes' /\ Lock' /\ Budget'
<1>1. gridLock = t /\ t # "free" /\ gridLock' = "free" /\ lost' = lost + 1
      /\ handling' = [handling EXCEPT ![t] = "none"] /\ UNCHANGED <<stored, dups>>
  BY DEF SaveFails, Tasks
<1>2. used' \in Uses  BY SpendUses DEF SaveFails, GridTypes
<1>3. GridTypes'  BY <1>1, <1>2 DEF GridTypes
<1>4. Lock'  BY <1>1 DEF GridTypes, Lock, Tasks
<1>5. Budget'  BY <1>1 DEF GridTypes, Budget, One
<1> QED  BY <1>3, <1>4, <1>5

LEMMA ReconnectInv ==
    ASSUME IngestInv, ReconnectCancels
    PROVE  IngestInv'
<1> USE DEF IngestInv
<1>1. /\ gridLock' = IF gridLock = "stream" THEN "free" ELSE gridLock
      /\ handling' = [handling EXCEPT !["stream"] = "none"]
      /\ pc' = "stopped" /\ sock' = "none" /\ queue' = <<>> /\ rec' = "built"
      /\ ha' = NewClient /\ streak' = NoStreak
      /\ UNCHANGED <<server, grid, cache, last, smp, primed, raced>>
  BY DEF ReconnectCancels
<1>2. Circuit' /\ ha' \in Clients /\ streak' \in Streaks
  BY <1>1, NewClientCounts DEF Circuit, DelayFitsClass, Counts
<1>3. HAStreamTypeOK'
  <2>1. <<>> \in Seq(Readings) /\ Len(<<>>) = 0  OBVIOUS
  <2> QED
    BY <1>1, <1>2, <2>1, StreamAssumption DEF HAStreamTypeOK, Clients, Streaks, StreamPc
<1>4. used' \in Uses  BY SpendUses DEF ReconnectCancels, GridTypes
<1>5. CASE gridLock = "stream" /\ StoreEvent(handling["stream"]) /\ UNCHANGED lost
  <2> DEFINE v == handling["stream"]
  <2>1. v \in Known  BY <1>5 DEF Lock
  <2>2. /\ stored' = v /\ stored' \in Readings
        /\ dups' \in Nat /\ dups' = dups + One(stored = v)
    BY <1>5, <2>1, StoreEventCounts
  <2>3. dups + One(stored = v) + One(last # v) <= lost + raced  BY <1>5 DEF Budget
  <2>4. Budget'  BY <1>1, <1>5, <2>2, <2>3 DEF Budget
  <2>5. GridTypes'  BY <1>1, <1>4, <1>5, <2>2 DEF GridTypes
  <2>6. Lock'  BY <1>1, <1>5 DEF GridTypes, Lock, Tasks
  <2> QED  BY <1>2, <1>3, <2>4, <2>5, <2>6
<1>6. CASE gridLock = "stream" /\ lost' = lost + 1 /\ UNCHANGED <<stored, dups>>
  <2>1. Budget'  BY <1>1, <1>6 DEF GridTypes, Budget, One
  <2>2. GridTypes'  BY <1>1, <1>4, <1>6 DEF GridTypes
  <2>3. Lock'  BY <1>1, <1>6 DEF GridTypes, Lock, Tasks
  <2> QED  BY <1>2, <1>3, <2>1, <2>2, <2>3
<1>7. CASE gridLock # "stream" /\ UNCHANGED <<stored, dups, lost>>
  <2>1. GridTypes'  BY <1>1, <1>4, <1>7 DEF GridTypes
  <2>2. gridLock # "free" => handling'[gridLock] = handling[gridLock]
    BY <1>1, <1>7 DEF GridTypes
  <2>3. Budget'  BY <1>1, <1>7, <2>2 DEF Budget
  <2>4. Lock'  BY <1>1, <1>7, <2>2 DEF GridTypes, Lock, Tasks
  <2> QED  BY <1>2, <1>3, <2>1, <2>3, <2>4
<1> QED  BY <1>5, <1>6, <1>7 DEF ReconnectCancels

LEMMA PrimeAssignsInv ==
    ASSUME IngestInv, PrimeAssigns
    PROVE  IngestInv'
<1> USE DEF IngestInv
<1>1. /\ rec = "read" /\ pc = "stopped" /\ gridLock # "stream"
      /\ last' = IF primed = Unknown THEN last ELSE primed
      /\ raced' = IF primed # stored \/ gridLock # "free" THEN raced + 1 ELSE raced
      /\ primed' = Unknown /\ rec' = "idle" /\ pc' = "connect"
      /\ UNCHANGED <<server, sock, queue, ha, streak, grid, cache, gridLock, handling,
                     smp, stored, dups, lost, used>>
  BY DEF PrimeAssigns, Lock
<1>2. Circuit'
  BY <1>1, CircuitFrame DEF Circuit
<1>3. HAStreamTypeOK'  BY <1>1 DEF HAStreamTypeOK, StreamPc
<1>4. GridTypes'  BY <1>1, ReadingsAssumption DEF GridTypes
<1>5. Lock'  BY <1>1 DEF Lock
<1>6. Budget'
  <2>1. CASE gridLock = "free"  BY <1>1, <2>1 DEF GridTypes, Budget, One
  <2>2. CASE gridLock # "free"  BY <1>1, <2>2 DEF GridTypes, Budget, One
  <2> QED  BY <2>1, <2>2
<1> QED  BY <1>2, <1>3, <1>4, <1>5, <1>6

LEMMA CrashInv ==
    ASSUME IngestInv, CrashRestart
    PROVE  IngestInv'
<1> USE DEF IngestInv
<1>1. /\ last' = stored' /\ cache' = Unknown
      /\ gridLock' = "free" /\ handling' = [t \in Tasks |-> "none"]
      /\ smp' = "idle" /\ rec' = "idle" /\ primed' = Unknown
      /\ sock' = "none" /\ queue' = <<>> /\ pc' = "connect" /\ ha' = NewClient
      /\ streak' = NoStreak
      /\ UNCHANGED <<server, grid, lost, raced>>
  BY DEF CrashRestart
<1>2. Circuit' /\ ha' \in Clients /\ streak' \in Streaks
  BY <1>1, NewClientCounts DEF Circuit, DelayFitsClass, Counts
<1>3. HAStreamTypeOK'
  <2>1. <<>> \in Seq(Readings) /\ Len(<<>>) = 0  OBVIOUS
  <2> QED
    BY <1>1, <1>2, <2>1, StreamAssumption DEF HAStreamTypeOK, Clients, Streaks, StreamPc
<1>4. used' \in Uses  BY SpendUses DEF CrashRestart, GridTypes
<1>5. stored' \in Readings /\ dups' \in Nat /\ dups' <= lost + raced
  <2>1. CASE gridLock # "free" /\ StoreEvent(handling[gridLock])
    <3> DEFINE v == handling[gridLock]
    <3>1. v \in Known  BY <2>1 DEF Lock
    <3>2. /\ stored' \in Readings
          /\ dups' \in Nat /\ dups' = dups + One(stored = v)
      BY <2>1, <3>1, StoreEventCounts
    <3>3. dups + One(stored = v) + One(last # v) <= lost + raced  BY <2>1 DEF Budget
    <3>4. One(last # v) \in {0, 1} /\ One(stored = v) \in {0, 1}  BY DEF One
    <3> HIDE DEF v
    <3> QED  BY <3>2, <3>3, <3>4 DEF GridTypes
  <2>2. CASE UNCHANGED <<stored, dups>>
    BY <2>2 DEF GridTypes, Budget, One
  <2> QED  BY <2>1, <2>2 DEF CrashRestart
<1>6. GridTypes'  BY <1>1, <1>4, <1>5, ReadingsAssumption DEF GridTypes
<1>7. Lock'  BY <1>1 DEF Lock
<1>8. Budget'
  <2>1. One(last' # stored') = 0  BY <1>1 DEF One
  <2> QED  BY <1>1, <1>5, <2>1 DEF GridTypes, Budget
<1> QED  BY <1>2, <1>3, <1>6, <1>7, <1>8

LEMMA IngestStep_Inv == IngestInv /\ [Next]_vars => IngestInv'
<1> SUFFICES ASSUME IngestInv, [Next]_vars PROVE IngestInv'
  OBVIOUS
<1> USE DEF IngestInv
<1>0. /\ ha.circuitOpen => pc \in {"circuit", "probe"}
      /\ gridLock = "stream" => pc = "yielded"
      /\ rec # "idle" => pc = "stopped"
  BY DEF Circuit, Lock
<1>1. CASE StreamStep /\ UNCHANGED ingestVars
  <2>1. HAStreamTypeOK' /\ Circuit'  BY <1>1, StreamStep_Circuit, TypesAgree
  <2>2. pc \notin {"yielded", "stopped"}
    BY <1>1
       DEF StreamStep, Connect, ConnectFails, Yield, CloseClean, ConnectionBreaks,
           WaitEnds, CircuitWaitEnds, ProbeAnswered, ProbeFails, StreamRestarts
  <2>3. GridTypes'  BY <1>1 DEF GridTypes, ingestVars
  <2>4. Lock'  BY <1>0, <1>1, <2>2 DEF Lock, ingestVars
  <2>5. Budget'  BY <1>1 DEF Budget, ingestVars
  <2> QED  BY <2>1, <2>3, <2>4, <2>5
<1>2. CASE Receive
  <2>1. Circuit'  BY <1>0, <1>2, CircuitFrame DEF Receive
  <2>2. /\ Head(queue) \in Readings /\ Tail(queue) \in Seq(Readings)
        /\ Len(Tail(queue)) <= MaxQueue
    BY <1>2, StreamAssumption DEF Receive, HAStreamTypeOK
  <2>3. HAStreamTypeOK'  BY <1>2, <2>2 DEF Receive, HAStreamTypeOK, StreamPc
  <2>4. GridTypes'  BY <1>2, <2>2 DEF Receive, GridTypes, Tasks
  <2>5. gridLock # "stream" /\ gridLock' = gridLock
        /\ handling'["sample"] = handling["sample"]
        /\ (gridLock # "free" => handling'[gridLock] = handling[gridLock])
    BY <1>2, ReadingsAssumption DEF Receive, Lock, GridTypes, Tasks, Known
  <2>6. Lock'  BY <1>0, <1>2, <2>5 DEF Receive, Lock
  <2>7. Budget'  BY <1>2, <2>5 DEF Receive, Budget
  <2> QED  BY <2>1, <2>3, <2>4, <2>6, <2>7
<1>3. CASE StreamKnown
  <2>1. Circuit' /\ HAStreamTypeOK'
    BY <1>0, <1>3, CircuitFrame DEF StreamKnown, HAStreamTypeOK, StreamPc
  <2>2. GridTypes' /\ Lock' /\ Budget'
    BY <1>0, <1>3, KnownInv DEF StreamKnown, Tasks
  <2> QED  BY <2>1, <2>2
<1>4. CASE StreamTransition
  <2>1. Circuit' /\ HAStreamTypeOK'
    BY <1>4, CircuitFrame DEF StreamTransition, streamVars, HAStreamTypeOK
  <2>2. GridTypes' /\ Lock' /\ Budget'
    BY <1>4, TransitionInv DEF StreamTransition, streamVars, Tasks
  <2> QED  BY <2>1, <2>2
<1>5. CASE StreamSaved
  <2>0. pc = "yielded" /\ rec = "idle"  BY <1>0, <1>5 DEF StreamSaved, SaveEvent
  <2>1. Circuit' /\ HAStreamTypeOK'
    BY <1>0, <1>5, <2>0, CircuitFrame DEF StreamSaved, HAStreamTypeOK, StreamPc
  <2>2. GridTypes' /\ Lock' /\ Budget'
    BY <1>5, <2>0, SavedInv DEF StreamSaved, Tasks
  <2> QED  BY <2>1, <2>2
<1>6. CASE StreamSaveFails
  <2>0. pc = "yielded" /\ rec = "idle"  BY <1>0, <1>6 DEF StreamSaveFails, SaveFails
  <2>1. Circuit'  BY <1>0, <1>6, <2>0, CircuitFrame DEF StreamSaveFails
  <2>2. <<>> \in Seq(Readings) /\ Len(<<>>) = 0 /\ MaxQueue \in Nat
    BY StreamAssumption
  <2>3. HAStreamTypeOK'  BY <1>6, <2>2 DEF StreamSaveFails, HAStreamTypeOK, StreamPc
  <2>4. GridTypes' /\ Lock' /\ Budget'
    BY <1>6, <2>0, SaveFailsInv DEF StreamSaveFails, Tasks
  <2> QED  BY <2>1, <2>3, <2>4
<1>7. CASE SampleAsked \/ SampleAnswered
  <2>1. Circuit' /\ HAStreamTypeOK'
    BY <1>7, CircuitFrame DEF SampleAsked, SampleAnswered, streamVars, HAStreamTypeOK
  <2>2. GridTypes'  BY <1>7 DEF SampleAsked, SampleAnswered, GridTypes
  <2>3. Lock'  BY <1>7 DEF SampleAsked, SampleAnswered, Lock, streamVars
  <2>4. Budget'  BY <1>7 DEF SampleAsked, SampleAnswered, Budget
  <2> QED  BY <2>1, <2>2, <2>3, <2>4
<1>8. ASSUME smp # "idle", NEW reading \in Readings, NEW cached \in Readings,
             SampleUses(reading, cached)
      PROVE  IngestInv'
  <2>1. Circuit' /\ HAStreamTypeOK'
    BY <1>8, CircuitFrame DEF SampleUses, streamVars, HAStreamTypeOK
  <2>2. GridTypes'  BY <1>8 DEF SampleUses, GridTypes, Tasks
  <2>3. gridLock # "sample"
    BY <1>8, ReadingsAssumption DEF Lock, Known
  <2>4. gridLock' = gridLock /\ (gridLock # "free" => handling'[gridLock] = handling[gridLock])
    BY <1>8, <2>3 DEF SampleUses, GridTypes, Tasks
  <2>5. Lock'  BY <1>8, <2>4 DEF SampleUses, Lock, streamVars
  <2>6. Budget'  BY <1>8, <2>4 DEF SampleUses, Budget
  <2> QED  BY <2>1, <2>2, <2>5, <2>6
<1>9. CASE SampleFresh
  <2>1. smp # "idle" /\ smp \in Readings
    BY <1>9, ReadingsAssumption DEF SampleFresh
  <2> QED  BY <1>8, <1>9, <2>1 DEF SampleFresh
<1>10. CASE SampleFromCache
  BY <1>8, <1>10 DEF SampleFromCache, GridTypes
<1>11. CASE SampleNotSaved
  <2>1. Circuit' /\ HAStreamTypeOK'
    BY <1>11, CircuitFrame DEF SampleNotSaved, streamVars, HAStreamTypeOK
  <2>2. used' \in Uses  BY <1>11, SpendUses DEF SampleNotSaved, GridTypes
  <2>3. GridTypes'  BY <1>11, <2>2 DEF SampleNotSaved, GridTypes
  <2>4. Lock'  BY <1>11 DEF SampleNotSaved, Lock, streamVars
  <2>5. Budget'  BY <1>11 DEF SampleNotSaved, Budget
  <2> QED  BY <2>1, <2>3, <2>4, <2>5
<1>12. CASE SampleKnown
  <2>1. Circuit' /\ HAStreamTypeOK'
    BY <1>12, CircuitFrame DEF SampleKnown, streamVars, HAStreamTypeOK
  <2>2. GridTypes' /\ Lock' /\ Budget'
    BY <1>12, KnownInv DEF SampleKnown, streamVars, Tasks
  <2> QED  BY <2>1, <2>2
<1>13. CASE SampleTransition
  <2>1. Circuit' /\ HAStreamTypeOK'
    BY <1>13, CircuitFrame DEF SampleTransition, streamVars, HAStreamTypeOK
  <2>2. GridTypes' /\ Lock' /\ Budget'
    BY <1>13, TransitionInv DEF SampleTransition, streamVars, Tasks
  <2> QED  BY <2>1, <2>2
<1>14. CASE SampleSaved
  <2>1. Circuit' /\ HAStreamTypeOK'
    BY <1>14, CircuitFrame DEF SampleSaved, streamVars, HAStreamTypeOK
  <2>2. GridTypes' /\ Lock' /\ Budget'
    BY <1>14, SavedInv DEF SampleSaved, streamVars, Tasks
  <2> QED  BY <2>1, <2>2
<1>15. CASE SampleSaveFails
  <2>1. Circuit' /\ HAStreamTypeOK'
    BY <1>15, CircuitFrame DEF SampleSaveFails, streamVars, HAStreamTypeOK
  <2>2. GridTypes' /\ Lock' /\ Budget'
    BY <1>15, SaveFailsInv DEF SampleSaveFails, streamVars, Tasks
  <2> QED  BY <2>1, <2>2
<1>16. CASE ReconnectCancels  BY <1>16, ReconnectInv
<1>17. CASE PrimeReads
  <2>1. Circuit' /\ HAStreamTypeOK'
    BY <1>17, CircuitFrame DEF PrimeReads, streamVars, HAStreamTypeOK
  <2>2. GridTypes'  BY <1>17 DEF PrimeReads, GridTypes
  <2>3. Lock'  BY <1>17 DEF PrimeReads, Lock, streamVars
  <2>4. Budget'  BY <1>17 DEF PrimeReads, Budget
  <2> QED  BY <2>1, <2>2, <2>3, <2>4
<1>18. CASE PrimeAssigns  BY <1>18, PrimeAssignsInv
<1>19. CASE (ServerChanges \/ SocketCloses) /\ UNCHANGED ingestVars
  <2>1. Circuit' /\ HAStreamTypeOK'
    BY <1>19, CircuitFrame DEF ServerChanges, SocketCloses, HAStreamTypeOK
  <2>2. UNCHANGED <<pc, ingestVars>>  BY <1>19 DEF ServerChanges, SocketCloses
  <2>3. GridTypes' /\ Lock' /\ Budget'
    BY <2>2 DEF GridTypes, Lock, Budget, ingestVars
  <2> QED  BY <2>1, <2>3
<1>20. CASE GridChanges
  <2>1. Circuit'  BY <1>20, CircuitFrame DEF GridChanges
  <2>2. queue' \in Seq(Readings) /\ Len(queue') <= MaxQueue /\ grid' \in Readings
    <3>1. grid' \in Readings /\ queue \in Seq(Readings) /\ Len(queue) \in Nat
          /\ MaxQueue \in Nat /\ Len(queue) <= MaxQueue
      BY <1>20, StreamAssumption DEF GridChanges, HAStreamTypeOK
    <3>2. CASE sock = "live" /\ server # "down"
      <4>1. Len(queue) < MaxQueue /\ queue' = Append(queue, grid')
        BY <1>20, <3>2 DEF GridChanges
      <4> QED  BY <3>1, <4>1
    <3>3. CASE ~(sock = "live" /\ server # "down")
      BY <1>20, <3>1, <3>3 DEF GridChanges
    <3> QED  BY <3>2, <3>3
  <2>3. HAStreamTypeOK'  BY <1>20, <2>2 DEF GridChanges, HAStreamTypeOK
  <2>4. used' \in Uses  BY <1>20, SpendUses DEF GridChanges, GridTypes
  <2>5. GridTypes'  BY <1>20, <2>2, <2>4 DEF GridChanges, GridTypes
  <2>6. Lock'  BY <1>20 DEF GridChanges, Lock
  <2>7. Budget'  BY <1>20 DEF GridChanges, Budget
  <2> QED  BY <2>1, <2>3, <2>5, <2>6, <2>7
<1>21. CASE CrashRestart  BY <1>21, CrashInv
<1>22. CASE UNCHANGED vars
  <2>1. UNCHANGED <<streamVars, ingestVars>>  BY <1>22 DEF vars
  <2>2. Circuit' /\ HAStreamTypeOK'
    BY <2>1, CircuitFrame DEF streamVars, HAStreamTypeOK
  <2>3. GridTypes' /\ Lock' /\ Budget'
    BY <2>1 DEF GridTypes, Lock, Budget, streamVars, ingestVars
  <2> QED  BY <2>2, <2>3
<1> QED
  BY <1>1, <1>2, <1>3, <1>4, <1>5, <1>6, <1>7, <1>9, <1>10, <1>11, <1>12, <1>13, <1>14,
     <1>15, <1>16, <1>17, <1>18, <1>19, <1>20, <1>21, <1>22
     DEF Next, StreamTask, SampleTask, ReconnectTask

-----------------------------------------------------------------------------
(* Whatever the hub, the network, the reconnections and the crashes do,    *)
(* the circuit opens for rejections in a row only, each wait has the       *)
(* length of its class of failure and no attempt is made behind an open    *)
(* circuit (_record_failure and the waits of ha/client.py).                *)
THEOREM BackoffAlwaysFits == Spec => []BackoffFits
<1>1. Init => IngestInv  BY IngestInit_Inv
<1>2. IngestInv /\ [Next]_vars => IngestInv'  BY IngestStep_Inv
<1>3. IngestInv => BackoffFits
  BY DEF IngestInv, Circuit, Counts, BackoffFits, CircuitJustified
<1> QED  BY <1>1, <1>2, <1>3, PTL DEF Spec

(* For any states of the grid entity and any number of its changes, of     *)
(* database faults, reconnections and crashes, the table of grid events    *)
(* repeats a state at most once for each event that was lost and each      *)
(* prime that ran over a transition, and as long as there was neither, the *)
(* collector remembers the state of the latest stored event                *)
(* (_handle_grid_state and prime in ingest/collector.py).                  *)
THEOREM TheGridLogAgrees == Spec => []GridLogAgrees
<1>1. Init => IngestInv  BY IngestInit_Inv
<1>2. IngestInv /\ [Next]_vars => IngestInv'  BY IngestStep_Inv
<1>3. IngestInv => GridLogAgrees
  <2> SUFFICES ASSUME IngestInv PROVE GridLogAgrees
    OBVIOUS
  <2>1. TypeOK  BY TypesAgree DEF IngestInv
  <2>2. /\ dups \in Nat /\ lost \in Nat /\ raced \in Nat
        /\ \A b \in BOOLEAN : One(b) \in {0, 1}
    BY DEF IngestInv, GridTypes, One
  <2>3. RepeatsAreExplained
    <3>1. CASE gridLock = "free"
      <4>1. One(last # stored) \in {0, 1} /\ dups + One(last # stored) <= lost + raced
        BY <2>2, <3>1 DEF IngestInv, Budget
      <4> QED  BY <2>2, <4>1 DEF RepeatsAreExplained
    <3>2. CASE gridLock # "free"
      <4> DEFINE v == handling[gridLock]
      <4>1. /\ One(stored = v) \in {0, 1} /\ One(last # v) \in {0, 1}
            /\ dups + One(stored = v) + One(last # v) <= lost + raced
        BY <2>2, <3>2 DEF IngestInv, Budget
      <4> HIDE DEF v
      <4> QED  BY <2>2, <4>1 DEF RepeatsAreExplained
    <3> QED  BY <3>1, <3>2
  <2>4. NotedIsStored  BY <2>2 DEF IngestInv, Budget, NotedIsStored, One
  <2> QED  BY <2>1, <2>3, <2>4 DEF GridLogAgrees
<1> QED  BY <1>1, <1>2, <1>3, PTL DEF Spec
=============================================================================
