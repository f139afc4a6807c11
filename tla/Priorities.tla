----------------------------- MODULE Priorities ------------------------------
(***************************************************************************)
(* engine/priorities.py: how the owner's ranking of resilience, savings    *)
(* and self-sufficiency turns into weights, and what each weight scales.   *)
(*                                                                         *)
(* Fractions are in ten-thousandths (Full is 1.0), rounded down after each *)
(* operation; watts, amps and minutes are whole numbers.  A value that the *)
(* program does not know is Unknown.                                       *)
(***************************************************************************)
EXTENDS Integers, Sequences, FiniteSets, Functions

Full == 10000
Unknown == -100000
Known(x) == x # Unknown

Least(a, b)       == IF a < b THEN a ELSE b
Most(a, b)        == IF a > b THEN a ELSE b
Clamped(x, lo, hi) == Most(lo, Least(hi, x))
Part(x, share)    == (x * share) \div Full

Priority == {"resilience", "savings", "self_sufficiency"}
Orders   == {o \in [1..3 -> Priority] : \A i, j \in 1..3 : o[i] = o[j] => i = j}
RANK_WEIGHTS == <<10000, 4000, 1500>>
DEFAULT_PRIORITY_ORDER == <<"resilience", "savings", "self_sufficiency">>

\* The configuration names each priority once.
resolve_weights(order) ==
    [p \in Priority |-> RANK_WEIGHTS[CHOOSE i \in 1..3 : order[i] = p]]

\* How far a weight lies from the last rank (0) to the first (Full).
Rise(w) == ((w - RANK_WEIGHTS[3]) * Full) \div (Full - RANK_WEIGHTS[3])

buffer_scale(w) == Clamped(9000 + Part(1000, Rise(w)), 9000, Full)

autonomy_hours_scale(w) == Clamped(8500 + Part(1500, Rise(w)), 8500, Full)

savings_buffer_relief(w) ==
    IF w <= RANK_WEIGHTS[2] THEN Full
    ELSE Most(9200, Full - (800 * (w - RANK_WEIGHTS[2])) \div (Full - RANK_WEIGHTS[2]))

adaptive_load_scale(W) ==
    LET trust == Clamped(3500 + Part(6500, Rise(W["resilience"])), 3500, Full)
        lean  == IF W["savings"] = Full THEN 8500
                 ELSE IF W["self_sufficiency"] = Full THEN 9000 ELSE Full
    IN  Clamped(Part(trust, lean), 3500, Full)

-----------------------------------------------------------------------------
(* The load that the reserve must carry.                                    *)

discharge_power_w(battery) == IF Known(battery) THEN Most(0, -battery) ELSE Unknown

\* The mean of the known samples when there are three of them, else the latest.
mean_load_power_w(samples, latest) ==
    LET known == {n \in DOMAIN samples : Known(samples[n])}
    IN  IF Cardinality(known) >= 3
        THEN SumFunctionOnSet(samples, known) \div Cardinality(known)
        ELSE latest

\* What the house has drawn lately: load or discharge, whichever is more.  A row
\* of the history and the latest telemetry both have the fields load and battery.
smoothed_adaptive_load_w(rows, latest) ==
    LET load == mean_load_power_w([i \in DOMAIN rows |-> rows[i].load], latest.load)
        discharge == mean_load_power_w(
            [i \in DOMAIN rows |-> discharge_power_w(rows[i].battery)],
            discharge_power_w(latest.battery))
    IN  Most(load, discharge)

\* The critical load and as much of the recent load above it as the ranking trusts;
\* from one cycle to the next it falls by a tenth at most, and never exceeds the cap.
effective_critical_w(R, W, smoothed, prev) ==
    LET raw == R.critical + Part(Most(0, smoothed - R.critical), adaptive_load_scale(W))
        cap == Most(R.critical, R.cap)
        low == IF Known(prev) THEN Part(prev, 9000) ELSE 0
    IN  IF ~R.adaptive \/ ~Known(smoothed) THEN R.critical
        ELSE Least(cap, Most(low, Least(raw, cap)))

-----------------------------------------------------------------------------
(* Risk and ceilings.                                                       *)

\* The discount on the blackout risk while the grid is there; it fades as the
\* time that the grid is trusted to stay (elapsed + remaining) runs out.
grid_present_risk_multiplier(W, elapsed, remaining) ==
    LET ranks == (1500 * (Full - W["resilience"])) \div (Full - RANK_WEIGHTS[3])
                 - (1000 * (W["savings"] - RANK_WEIGHTS[2])) \div (Full - RANK_WEIGHTS[2])
        mult  == Clamped(5000 + ranks, 3500, 6500)
    IN  CASE ~Known(elapsed) \/ ~Known(remaining) -> mult
          [] elapsed + remaining = 0 -> Full
          [] OTHER -> mult + ((Full - mult) * elapsed) \div (elapsed + remaining)

Factors == {"soc_gap", "grid_window", "battery_power", "remaining_solar_today",
            "next_solar_power", "load_power", "solar_bridge", "blackout_risk"}

\* The priority that a factor of the grid charge answers to.
FACTOR_BLEND ==
    [f \in Factors |->
        IF f \in {"soc_gap", "blackout_risk", "solar_bridge"} THEN "resilience"
        ELSE IF f = "grid_window" THEN "savings" ELSE "self_sufficiency"]

\* 1.0 at the default rank, more when promoted, less when demoted.
priority_scale(W, p) ==
    (W[p] * Full) \div resolve_weights(DEFAULT_PRIORITY_ORDER)[p]

\* Savings lifts a ceiling when promoted; the others weaken theirs when demoted.
blend_ceiling(raw, max, W, factor) ==
    LET p == FACTOR_BLEND[factor]
        scale == priority_scale(W, p)
    IN  IF p = "savings"
        THEN raw + Part(max - raw, Clamped(scale - Full, 0, Full))
        ELSE max - Part(max - raw, Clamped(scale, 0, Full))
=============================================================================
