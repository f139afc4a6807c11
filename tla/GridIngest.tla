----------------------------- MODULE GridIngest -----------------------------
(***************************************************************************)
(* The collector (ingest/collector.py) on top of the state stream: the     *)
(* entity cache of adapters/ha_entity.py, the last known grid state, the   *)
(* grid events kept in the database (storage/repo.py), the sample each     *)
(* control cycle takes over REST, and the orchestrator's _reconnect_ha,    *)
(* which cancels the stream and primes the collector again.                *)
(***************************************************************************)
EXTENDS HAStream

CONSTANTS MaxFlips,       \* bound on the grid entity's changes
          MaxDbFaults,    \* bound on database writes that fail
          MaxResets       \* bound on rebuilt connections and restarts of the process

ASSUME IngestBounds ==
    {MaxFlips, MaxDbFaults, MaxResets} \subseteq Nat

Unknown == "unavailable"      \* a state _to_bool does not know
Known == Readings \ {Unknown}

\* What the model writes where there is no reading is none of them.
ASSUME ReadingsAssumption ==
    Unknown \in Readings /\ Readings \cap {"none", "idle", "asked"} = {}

VARIABLES
    grid,         \* the grid entity's state in Home Assistant
    cache,        \* the adapter's cached state of it; Unknown before the first read
    last,         \* Collector._last_grid_present; Unknown stands for None
    gridLock,     \* Collector._grid_lock: "free" or the task inside it
    handling,     \* task -> the reading its _handle_grid_state was called with
    smp,          \* where the control cycle's sample() stands
    rec,          \* where _reconnect_ha stands
    primed,       \* the event _reconnect_ha's prime has read from the database
    stored,       \* the database: the latest grid event's state (Unknown: none yet)
    dups,         \* history: stored events that repeat the one before them
    lost,         \* history: transitions noted in memory whose event was not stored
    raced,        \* history: primes that overwrote a newer transition
    used          \* how much of each bound is used up

ingestVars == <<grid, cache, last, gridLock, handling, smp, rec, primed, stored,
                dups, lost, raced, used>>
vars == <<streamVars, ingestVars>>

Tasks == {"stream", "sample"}

GridIngestInit ==
    /\ grid \in Readings /\ stored = Unknown
    /\ cache = Unknown /\ last = Unknown
    /\ gridLock = "free" /\ handling = [t \in Tasks |-> "none"]
    /\ smp = "idle" /\ rec = "idle" /\ primed = Unknown
    /\ dups = 0 /\ lost = 0 /\ raced = 0
    /\ used = [flips |-> 0, dbFaults |-> 0, resets |-> 0]

Init == HAStreamInit /\ GridIngestInit

Spend(what, bound) ==
    /\ used[what] < bound
    /\ used' = [used EXCEPT ![what] = @ + 1]

-----------------------------------------------------------------------------
(* _handle_grid_state, which both tasks call; it holds the lock from the    *)
(* comparison to the end of the database write.                             *)

\* "async with self._grid_lock", then the early return for a state already known.
\* Known already: the task t is done with the reading.  A transition: it is noted
\* first and stored after.
HandleKnown(t) ==
    /\ gridLock = "free" /\ handling[t] = last
    /\ handling' = [handling EXCEPT ![t] = "none"]
    /\ UNCHANGED <<last, gridLock>>

\* Mutant of HandleTransition: without the comparison under the lock.
HandleTransition_Always(t) ==
    /\ gridLock = "free" /\ handling[t] \in Known
    /\ last' = handling[t] /\ gridLock' = t
    /\ UNCHANGED handling

HandleTransition(t) ==
    /\ gridLock = "free" /\ handling[t] \in Known /\ handling[t] # last
    /\ last' = handling[t] /\ gridLock' = t
    /\ UNCHANGED handling

\* repo.save_grid_event commits reading v.
StoreEvent(v) ==
    /\ stored' = v
    /\ dups' = IF stored = v THEN dups + 1 ELSE dups

SaveEvent(t) ==
    /\ gridLock = t
    /\ StoreEvent(handling[t])
    /\ gridLock' = "free" /\ handling' = [handling EXCEPT ![t] = "none"]
    /\ UNCHANGED lost

\* It raises: the lock is released, the transition stays noted.
SaveFails(t) ==
    /\ gridLock = t
    /\ Spend("dbFaults", MaxDbFaults)
    /\ gridLock' = "free" /\ handling' = [handling EXCEPT ![t] = "none"]
    /\ lost' = lost + 1
    /\ UNCHANGED <<stored, dups>>

-----------------------------------------------------------------------------
(* run_stream, the consumer of the stream. *)

\* An event for the grid entity: refresh the cache, hand a known state on.
Receive ==
    /\ pc = "yielded" /\ queue # <<>> /\ handling["stream"] = "none"
    /\ cache' = Head(queue) /\ queue' = Tail(queue)
    /\ IF Head(queue) \in Known
       THEN handling' = [handling EXCEPT !["stream"] = Head(queue)] /\ UNCHANGED pc
       ELSE pc' = "open" /\ UNCHANGED handling
    /\ UNCHANGED <<server, sock, ha, streak, grid, last, gridLock, smp, rec, primed,
                   stored, dups, lost, raced, used>>

StreamKnown ==
    /\ pc = "yielded" /\ HandleKnown("stream")
    /\ pc' = "open"
    /\ UNCHANGED <<server, sock, queue, ha, streak, grid, cache, smp, rec, primed,
                   stored, dups, lost, raced, used>>

StreamTransition ==
    /\ pc = "yielded" /\ HandleTransition("stream")
    /\ UNCHANGED <<streamVars, grid, cache, smp, rec, primed, stored, dups, lost,
                   raced, used>>

\* Stored: on_grid_change follows, whose control cycle is the sample below;
\* its own exceptions are caught.
StreamSaved ==
    /\ SaveEvent("stream")
    /\ pc' = "open"
    /\ UNCHANGED <<server, sock, queue, ha, streak, grid, cache, last, smp, rec,
                   primed, raced, used>>

\* The exception leaves run_stream: run_stream_safe starts a new one, the old
\* socket and what it had buffered are gone.
StreamSaveFails ==
    /\ SaveFails("stream")
    /\ pc' = "crashed" /\ sock' = "none" /\ queue' = <<>>
    /\ UNCHANGED <<server, ha, streak, grid, cache, last, smp, rec, primed, raced>>

-----------------------------------------------------------------------------
(* sample(), called by the control cycle under its own lock. *)

\* get_states is sent; Home Assistant takes the snapshot when it answers.
SampleAsked ==
    /\ smp = "idle" /\ handling["sample"] = "none"
    /\ smp' = "asked"
    /\ UNCHANGED <<streamVars, grid, cache, last, gridLock, handling, rec, primed,
                   stored, dups, lost, raced, used>>

SampleAnswered ==
    /\ smp = "asked" /\ server = "up"
    /\ smp' = grid
    /\ UNCHANGED <<streamVars, grid, cache, last, gridLock, handling, rec, primed,
                   stored, dups, lost, raced, used>>

\* Mutant of SampleUses: the grid state of the snapshot is left to the stream.
SampleUses_CacheOnly(reading, cached) ==
    /\ cache' = cached
    /\ smp' = "idle"
    /\ UNCHANGED <<streamVars, grid, last, gridLock, handling, rec, primed, stored, dups,
                   lost, raced, used>>

\* The telemetry is built and saved, then its grid state handled without notice.
SampleUses(reading, cached) ==
    /\ cache' = cached
    /\ handling' = [handling EXCEPT !["sample"] =
                      IF reading \in Known THEN reading ELSE "none"]
    /\ smp' = "idle"
    /\ UNCHANGED <<streamVars, grid, last, gridLock, rec, primed, stored, dups, lost,
                   raced, used>>

\* read_telemetry: the snapshot also replaces the cache, which may be newer.
SampleFresh == smp \in Readings /\ SampleUses(smp, smp)

\* The request failed: telemetry_from_cache.
SampleFromCache == smp = "asked" /\ server # "up" /\ SampleUses(cache, cache)

\* save_telemetry raises: the cycle goes on with the latest telemetry it had.
SampleNotSaved ==
    /\ smp \in Readings
    /\ Spend("dbFaults", MaxDbFaults)
    /\ cache' = smp /\ smp' = "idle"
    /\ UNCHANGED <<streamVars, grid, last, gridLock, handling, rec, primed, stored,
                   dups, lost, raced>>

SampleKnown ==
    /\ HandleKnown("sample")
    /\ UNCHANGED <<streamVars, grid, cache, smp, rec, primed, stored, dups, lost,
                   raced, used>>

SampleTransition ==
    /\ HandleTransition("sample")
    /\ UNCHANGED <<streamVars, grid, cache, smp, rec, primed, stored, dups, lost,
                   raced, used>>

SampleSaved ==
    /\ SaveEvent("sample")
    /\ UNCHANGED <<streamVars, grid, cache, last, smp, rec, primed, raced, used>>

SampleSaveFails ==
    /\ SaveFails("sample")
    /\ UNCHANGED <<streamVars, grid, cache, last, smp, rec, primed, raced>>

-----------------------------------------------------------------------------
(* _reconnect_ha, from a settings route or after a token refresh. *)

\* Cancel the stream task wherever it awaits, and build a new client.  A save
\* that is cancelled may or may not have been committed.
ReconnectCancels ==
    /\ rec = "idle" /\ pc # "stopped"
    /\ Spend("resets", MaxResets)
    /\ \/ gridLock = "stream" /\ StoreEvent(handling["stream"]) /\ UNCHANGED lost
       \/ gridLock = "stream" /\ lost' = lost + 1 /\ UNCHANGED <<stored, dups>>
       \/ gridLock # "stream" /\ UNCHANGED <<stored, dups, lost>>
    /\ gridLock' = IF gridLock = "stream" THEN "free" ELSE gridLock
    /\ handling' = [handling EXCEPT !["stream"] = "none"]
    /\ pc' = "stopped" /\ sock' = "none" /\ queue' = <<>>
    /\ ha' = NewClient /\ streak' = NoStreak
    /\ rec' = "built"
    /\ UNCHANGED <<server, grid, cache, last, smp, primed, raced>>

\* prime() reads the last event without the lock ...
PrimeReads ==
    /\ rec = "built"
    /\ primed' = stored /\ rec' = "read"
    /\ UNCHANGED <<streamVars, grid, cache, last, gridLock, handling, smp, stored,
                   dups, lost, raced, used>>

\* ... and assigns it after the await; then the new stream task starts.
PrimeAssigns ==
    /\ rec = "read"
    /\ last' = IF primed = Unknown THEN last ELSE primed
    /\ raced' = IF primed # stored \/ gridLock # "free" THEN raced + 1 ELSE raced
    /\ primed' = Unknown /\ rec' = "idle" /\ pc' = "connect"
    /\ UNCHANGED <<server, sock, queue, ha, streak, grid, cache, gridLock, handling,
                   smp, stored, dups, lost, used>>

-----------------------------------------------------------------------------
(* The rest of the world. *)

\* The entity changes; a live subscription sees it unless the hub is cut off.
GridChanges ==
    /\ Spend("flips", MaxFlips)
    /\ grid' \in Readings \ {grid}
    /\ IF sock = "live" /\ server # "down"
       THEN Len(queue) < MaxQueue /\ queue' = Append(queue, grid')
       ELSE UNCHANGED queue
    /\ UNCHANGED <<server, sock, pc, ha, streak, cache, last, gridLock, handling, smp,
                   rec, primed, stored, dups, lost, raced>>

\* The process dies, at any step, and setup() primes the new one before the
\* stream starts.  A save under way may still have been committed.
CrashRestart ==
    /\ Spend("resets", MaxResets)
    /\ \/ gridLock # "free" /\ StoreEvent(handling[gridLock])
       \/ UNCHANGED <<stored, dups>>
    /\ last' = stored' /\ cache' = Unknown
    /\ gridLock' = "free" /\ handling' = [t \in Tasks |-> "none"]
    /\ smp' = "idle" /\ rec' = "idle" /\ primed' = Unknown
    /\ sock' = "none" /\ queue' = <<>> /\ pc' = "connect" /\ ha' = NewClient
    /\ streak' = NoStreak
    /\ UNCHANGED <<server, grid, lost, raced>>

StreamTask ==
    \/ StreamStep /\ UNCHANGED ingestVars
    \/ Receive \/ StreamKnown \/ StreamTransition \/ StreamSaved \/ StreamSaveFails

SampleTask ==
    \/ SampleAsked \/ SampleAnswered \/ SampleFresh \/ SampleFromCache \/ SampleNotSaved
    \/ SampleKnown \/ SampleTransition \/ SampleSaved \/ SampleSaveFails

ReconnectTask == PrimeReads \/ PrimeAssigns

Next ==
    \/ StreamTask \/ SampleTask \/ ReconnectCancels \/ ReconnectTask
    \/ (ServerChanges \/ SocketCloses) /\ UNCHANGED ingestVars
    \/ GridChanges \/ CrashRestart

\* The tasks of the event loop run, and the scheduler calls the cycle again and
\* again; nothing is assumed of the hub, the network or the administrator.
Fairness == WF_vars(StreamTask) /\ WF_vars(SampleTask) /\ WF_vars(ReconnectTask)

Spec == Init /\ [][Next]_vars /\ Fairness

-----------------------------------------------------------------------------
TypeOK ==
    /\ HAStreamTypeOK
    /\ {grid, cache, last, primed, stored} \subseteq Readings
    /\ gridLock \in Tasks \cup {"free"}
    /\ handling \in [Tasks -> Known \cup {"none"}]
    /\ smp \in {"idle", "asked"} \cup Readings
    /\ rec \in {"idle", "built", "read"}
    /\ {dups, lost, raced} \subseteq Nat
    /\ used \in [flips : 0..MaxFlips, dbFaults : 0..MaxDbFaults, resets : 0..MaxResets]

\* The table of grid events repeats a state only after an event was lost (a
\* failed or cancelled save behind a transition already noted) or prime ran over
\* a transition: one repetition for each, never another, whatever stream, sample,
\* reconnection and restart do in between.
RepeatsAreExplained == dups <= lost + raced

\* As long as nothing was lost and no prime raced, the state the collector
\* compares with is the one of the latest stored event whenever the lock is free.
NotedIsStored ==
    lost = 0 /\ raced = 0 /\ gridLock = "free" /\ last # Unknown => last = stored

\* The collector's memory and the table of grid events agree.
GridLogAgrees == TypeOK /\ RepeatsAreExplained /\ NotedIsStored

\* A grid that settles in a known state while the hub answers is what collector
\* and cache settle on, although a snapshot read before a change may be applied
\* after its event and undo it for a while (collector.py:97-116).
SettlesOnTheGrid ==
    \A v \in Known :
        <>[](grid = v /\ server = "up") => <>[](last = v /\ cache = v)
=============================================================================
