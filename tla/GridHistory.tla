----------------------------- MODULE GridHistory -----------------------------
(***************************************************************************)
(* The grid comes and goes, and is logged; the statistics that the program *)
(* derives from the log (GridOpportunity) are compared with what was the   *)
(* case in every minute.                                                   *)
(***************************************************************************)
EXTENDS GridOpportunity, FiniteSets

CONSTANTS
    G,                 \* the configuration of the grid charge
    MaxNow, MaxEvents  \* bounds on the history

ASSUME HistoryAssumption ==
    /\ G.ignore \in Nat /\ G.island \in Nat /\ G.cont \in Nat /\ G.safety \in 0..Full
    /\ MaxNow \in Nat /\ MaxEvents \in Nat

VARIABLES
    events,  \* the grid_events table, oldest first
    now      \* minutes since the program was installed

historyVars == <<events, now>>

NoHistory == events = <<>> /\ now = 0

\* save_grid_event; the program starts without knowing the grid.
LogGridEvent(present) ==
    /\ Len(events) < MaxEvents
    /\ events' = Append(events, [ts |-> now, present |-> present])
    /\ UNCHANGED now

TimePasses ==
    /\ now < MaxNow
    /\ now' = now + 1
    /\ UNCHANGED events

NextEvent == TimePasses \/ \E present \in BOOLEAN : LogGridEvent(present)

SpecHistory == NoHistory /\ [][NextEvent]_historyVars

-----------------------------------------------------------------------------
(* The reference: what was the case in each minute, [m, m + 1).             *)

WasPresent(m) ==
    LET before == UpTo(events, m) IN before # <<>> /\ Last(before).present

\* The minutes of the last n.
LastMinutes(n) == (now - n)..(now - 1)

\* _state_at looks back a month only: was the state at the start of the last n
\* minutes logged in the month before them, or never?
WithinLookback(n) ==
    \/ UpTo(events, now - n) = <<>>
    \/ Last(UpTo(events, now - n)).ts >= now - n - Month

\* The grid was absent throughout the open gap between a and b, which is tolerable.
Bridged(m) ==
    \E a \in LastMinutes(Week) :
        /\ a < m /\ WasPresent(a)
        /\ \E b \in LastMinutes(Week) : m < b /\ b - a - 1 <= G.ignore /\ WasPresent(b)

StatsNow == compute_stats(events, now, "unknown", G)

\* The uptime that the dashboard shows is the time that the grid was there, whatever
\* order and repetition of events the log has (compute_stats, _intervals, _state_at),
\* as long as the state at the start of the window was logged within the look-back.
UptimeMatchesHistory ==
    /\ WithinLookback(Week) => StatsNow.up_7d = Cardinality({m \in LastMinutes(Week) : WasPresent(m)})
    /\ WithinLookback(Day) => StatsNow.up_24h = Cardinality({m \in LastMinutes(Day) : WasPresent(m)})

\* The windows that the ramp and the risk are derived from contain exactly the minutes
\* with the grid present and the outages short enough to ignore, and two windows are
\* further apart than such an outage (merge_opportunity_windows over _intervals).
WindowsMatchHistory ==
    LET windows == merge_opportunity_windows(
            _intervals(Since(events, now - Week), now - Week, now,
                       _state_at(events, now - Week)), G.ignore)
    IN  WithinLookback(Week) =>
          /\ \A m \in LastMinutes(Week) :
                (\E i \in DOMAIN windows : windows[i].from <= m /\ m < windows[i].to)
                    <=> WasPresent(m) \/ Bridged(m)
          /\ \A i \in 1..Len(windows) - 1 : windows[i + 1].from - windows[i].to > G.ignore

\* The elapsed and the remaining time of the present window never promise more than the
\* trusted part of the longest continuous presence that is configured, and the time
\* elapsed reaches back to a minute from which on no outage was longer than ignored.
ElapsedIsUnbroken ==
    StatsNow.currently /\ Known(StatsNow.elapsed) =>
        /\ StatsNow.remaining <= Part(G.cont, G.safety)
        /\ \A a, b \in (now - StatsNow.elapsed)..(now - 1) :
              (a <= b /\ \A m \in a..b : ~WasPresent(m)) => b - a + 1 <= G.ignore

\* What the dashboard, the ramp and the risk take from the log is what happened.
StatisticsMatchHistory == UptimeMatchesHistory /\ WindowsMatchHistory /\ ElapsedIsUnbroken
=============================================================================
