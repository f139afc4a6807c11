--------------------------- MODULE GridOpportunity ---------------------------
(***************************************************************************)
(* What the log of grid events says about the grid: ReactiveGrid's         *)
(* compute_stats (grid/reactive.py) and the opportunity windows            *)
(* (grid/opportunity.py).  Time is in minutes; an event tells from when on *)
(* the grid was there or not, and the same state may be logged twice.      *)
(* Of a configuration C the fields ignore (max_outage_ignore_minutes),     *)
(* island (min_opportunity_present_minutes), cont                          *)
(* (max_continuous_present_minutes) and safety (grid_window_safety_factor) *)
(* are used.                                                               *)
(***************************************************************************)
EXTENDS Priorities, SequencesExt

CONSTANTS
    Week, Day, Month  \* the windows of the statistics and how far _state_at looks back

ASSUME OpportunityAssumption ==
    Day \in Nat /\ Week \in Nat /\ Month \in Nat /\ 0 < Day /\ Day <= Week

-----------------------------------------------------------------------------
(* Intervals and windows.                                                   *)

\* The elements of s at the positions ns, in their order.
Picked(s, ns) ==
    LET upto[n \in 0..Len(s)] ==
            IF n = 0 THEN <<>>
            ELSE IF n \in ns THEN Append(upto[n - 1], s[n]) ELSE upto[n - 1]
    IN  upto[Len(s)]

Since(evs, t) == Picked(evs, {n \in DOMAIN evs : evs[n].ts >= t})
UpTo(evs, t)  == Picked(evs, {n \in DOMAIN evs : evs[n].ts <= t})

\* The state just before a moment, by an event of the month before it; else absent.
_state_at(evs, when) ==
    LET prior == UpTo(Since(evs, when - Month), when)
    IN  prior # <<>> /\ Last(prior).present

\* Mutant of _intervals: an event closes its interval in its own state.
_intervals_Shifted(evs, start, end, initial) ==
    LET cuts == UpTo(Since(evs, start), end)
        n    == Len(cuts)
        ivs  == [i \in 1..n + 1 |->
                    [from |-> IF i = 1 THEN start ELSE cuts[i - 1].ts,
                     to |-> IF i = n + 1 THEN end ELSE cuts[i].ts,
                     present |-> IF i = n + 1 THEN initial ELSE cuts[i].present]]
    IN  Picked(ivs, {i \in DOMAIN ivs : ivs[i].from < ivs[i].to})

\* [start, end] cut at the events in it.
_intervals(evs, start, end, initial) ==
    LET cuts == UpTo(Since(evs, start), end)
        n    == Len(cuts)
        ivs  == [i \in 1..n + 1 |->
                    [from |-> IF i = 1 THEN start ELSE cuts[i - 1].ts,
                     to |-> IF i = n + 1 THEN end ELSE cuts[i].ts,
                     present |-> IF i = 1 THEN initial ELSE cuts[i - 1].present]]
    IN  Picked(ivs, {i \in DOMAIN ivs : ivs[i].from < ivs[i].to})

\* The minutes of [start, end] with the grid present (the percentage is of these).
_uptime(evs, start, end, initial) ==
    LET ivs == _intervals(evs, start, end, initial)
    IN  SumFunction([i \in DOMAIN ivs |->
                        IF ivs[i].present THEN ivs[i].to - ivs[i].from ELSE 0])

\* Present intervals, joined across outages of at most ignore minutes.
merge_opportunity_windows(intervals, ignore) ==
    LET spells == Picked(intervals, {n \in DOMAIN intervals : intervals[n].present})
        merged[n \in 0..Len(spells)] ==
            IF n = 0 THEN <<>>
            ELSE LET ws == merged[n - 1]
                     v  == spells[n]
                 IN  IF ws # <<>> /\ v.from - Last(ws).to <= ignore
                     THEN [ws EXCEPT ![Len(ws)].to = v.to]
                     ELSE Append(ws, [from |-> v.from, to |-> v.to])
    IN  merged[Len(spells)]

\* The mean length of the windows, without historical islands.
avg_opportunity_minutes(windows, island, t, currently) ==
    LET length  == [i \in DOMAIN windows |-> windows[i].to - windows[i].from]
        counted == {i \in DOMAIN windows :
                       length[i] >= island \/ (currently /\ windows[i].to >= t)}
    IN  IF counted = {} THEN 0
        ELSE SumFunctionOnSet(length, counted) \div Cardinality(counted)

\* How long the window that now lies in has lasted.
present_elapsed_minutes(windows, t) ==
    LET around == {i \in DOMAIN windows : windows[i].from <= t /\ t <= windows[i].to}
    IN  IF around = {} THEN Unknown ELSE t - windows[Min(around)].from

\* How long a window is trusted to last; without a history, the configured most.
trusted_window_minutes(avg, C) ==
    Part(IF avg > 0 THEN Least(avg, C.cont) ELSE C.cont, C.safety)

-----------------------------------------------------------------------------
(* compute_stats.  live is the presence read from telemetry, if there was one. *)

Live == {TRUE, FALSE, "unknown"}

_last_present_time(evs, t, initial, currently) ==
    LET week == Since(evs, t - Week)
        seen == Picked(week, {n \in DOMAIN week : week[n].present})
    IN  CASE currently -> t
          [] ~currently /\ seen # <<>> -> Last(seen).ts
          [] ~currently /\ seen = <<>> -> IF initial THEN t - Week ELSE Unknown

compute_stats(evs, t, live, C) ==
    LET recent  == Since(evs, t - Week)
        initial == _state_at(evs, t - Week)
        windows == merge_opportunity_windows(
                       _intervals(recent, t - Week, t, initial), C.ignore)
        currently == IF live # "unknown" THEN live
                     ELSE IF evs # <<>> THEN Last(evs).present ELSE initial
        avg     == avg_opportunity_minutes(windows, C.island, t, currently)
        elapsed == IF currently THEN present_elapsed_minutes(windows, t) ELSE Unknown
    IN  [ up_24h |-> _uptime(recent, t - Day, t, _state_at(evs, t - Day)),
          up_7d |-> _uptime(recent, t - Week, t, initial),
          transitions_24h |-> Len(Since(recent, t - Day)),
          avg |-> avg,
          last_seen |-> _last_present_time(evs, t, initial, currently),
          currently |-> currently,
          elapsed |-> elapsed,
          remaining |-> IF currently
                        THEN Most(0, trusted_window_minutes(avg, C) - Most(0, elapsed))
                        ELSE Unknown ]
=============================================================================
