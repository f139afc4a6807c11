------------------------------ MODULE ChargeRamp -----------------------------
(***************************************************************************)
(* How hard to charge from the grid: the cap chain of grid/ramp.py and the *)
(* actions that grid/reactive.py makes of it.  Each factor is a ceiling on *)
(* the current; the priorities blend it, the lowest one counts, and a ramp *)
(* limits how far the target moves from the current last applied.          *)
(*                                                                         *)
(* A context x has the fields of RampContext that are used:                *)
(*   tel: soc, load, pv, battery, grid    fc: the forecast, or NoForecast   *)
(*   stats: elapsed, remaining, avg, or NoStats                             *)
(*   target, bridge: of the reserve       score: of the blackout risk      *)
(*   max: the effective ceiling           last: the current last applied   *)
(*   C: the configuration                 W: the weights                   *)
(* State of charge is in percent; a forecast's hours count from this one.  *)
(***************************************************************************)
EXTENDS GridOpportunity, FiniteSetsExt

NoForecast == [load |-> <<>>, solar |-> <<>>, known |-> FALSE, cloudy |-> FALSE,
               degraded |-> FALSE, tomorrow |-> 0]
NoStats == [avg |-> Unknown, elapsed |-> Unknown, remaining |-> Unknown]

Percent(x) == IF Known(x) THEN x ELSE 0
MaxWatts(x) == x.max * x.C.volts

\* The planning ceiling: the inverter's, and what the site may import.
effective_max_grid_charge_a(C, site) ==
    IF Known(site) THEN Least(C.max, Most(0, site) \div Most(C.volts, 1)) ELSE C.max

-----------------------------------------------------------------------------
(* The factors.                                                             *)

_eval_soc_gap(x) ==
    LET span == Most(x.target - x.C.floor, 1)
    IN  (x.max * Clamped(x.target - Percent(x.tel.soc), 0, span)) \div span

\* The hours after this one, until midnight.
_remaining_solar_wh(x) ==
    SumFunctionOnSet(x.fc.solar, {h \in DOMAIN x.fc.solar : 0 < h /\ h <= x.C.hoursLeft})

_eval_remaining_solar_today(x) ==
    LET needed == (x.target - Percent(x.tel.soc)) * (x.C.capacity \div 100)
        coming == _remaining_solar_wh(x)
    IN  IF needed <= 0 \/ coming <= 0 \/ 10 * coming < 12 * Most(needed, 1) THEN x.max
        ELSE Part(x.max, Clamped((needed * Full) \div coming, 500, Full))

_eval_next_solar_power(x) ==
    LET near == {h \in DOMAIN x.fc.solar : 0 <= h /\ h <= x.C.horizon}
        peak == Max({0} \cup {x.fc.solar[h] : h \in near})
    IN  IF peak <= 0 \/ 2 * peak < MaxWatts(x) THEN x.max
        ELSE Part(x.max, Clamped(Full - (peak * Full) \div Most(MaxWatts(x), 1), 1000, Full))

_eval_load_power(x) ==
    LET deficit == x.tel.load - x.tel.pv
    IN  CASE ~Known(x.tel.load) \/ ~Known(x.tel.pv) -> x.max
          [] deficit <= 0 -> x.max \div 4
          [] OTHER -> Part(x.max, Clamped((deficit * Full) \div Most(MaxWatts(x), 1), 3000, Full))

_eval_battery_power(x) ==
    IF ~Known(x.tel.battery) \/ x.tel.battery <= 0 THEN x.max
    ELSE Most(0, x.max - x.tel.battery \div Most(x.C.volts, 1))

\* The less time is left, the harder; when that is unknown, the trusted prior counts.
_eval_grid_window(x) ==
    LET window == IF Known(x.stats.remaining) THEN x.stats.remaining
                  ELSE trusted_window_minutes(x.stats.avg, x.C)
    IN  CASE x.stats = NoStats \/ window <= 20 -> x.max
          [] window >= 180 -> Part(x.max, 4000)
          [] OTHER -> Part(x.max, Full - ((window - 20) * 6000) \div 160)

_eval_blackout_risk(x) == Part(x.max, 4000 + Part(6000, Clamped(x.score, 0, Full)))

_eval_solar_bridge(x) ==
    LET gap  == x.bridge - Percent(x.tel.soc)
        span == Most(x.bridge - x.C.floor, 1)
    IN  IF gap <= 0 THEN x.max
        ELSE Part(x.max, Clamped((gap * Full) \div span, 2500, Full))

-----------------------------------------------------------------------------
(* The chain.                                                               *)

_EVALUATORS(x) ==
    [f \in Factors |->
        CASE f = "soc_gap" -> _eval_soc_gap(x)
          [] f = "grid_window" -> _eval_grid_window(x)
          [] f = "battery_power" -> _eval_battery_power(x)
          [] f = "remaining_solar_today" -> _eval_remaining_solar_today(x)
          [] f = "next_solar_power" -> _eval_next_solar_power(x)
          [] f = "load_power" -> _eval_load_power(x)
          [] f = "solar_bridge" -> _eval_solar_bridge(x)
          [] f = "blackout_risk" -> _eval_blackout_risk(x)]

\* What the chain alone would charge with.
CapChain(x) ==
    LET raw == _EVALUATORS(x)
    IN  Min({x.max} \cup
            {Clamped(blend_ceiling(Clamped(raw[f], 0, x.max), x.max, x.W, f), 0, x.max)
                : f \in Factors})

Off == [enabled |-> FALSE, amps |-> 0]
On(amps) == [enabled |-> TRUE, amps |-> amps]

\* At least the minimum, and at most one step from the current last applied.
Ramped(capped, x) ==
    LET bumped == IF capped > 0 /\ capped < x.C.min THEN x.C.min ELSE capped
    IN  IF Known(x.last)
        THEN Clamped(Clamped(bumped, x.last - x.C.step, x.last + x.C.step), 0, x.max)
        ELSE bumped

compute_ramp_plan(x) ==
    IF ~x.tel.grid \/ Percent(x.tel.soc) >= x.target THEN Off
    ELSE LET capped == CapChain(x)
         IN  IF capped < x.C.off THEN Off ELSE On(Ramped(capped, x))

-----------------------------------------------------------------------------
(* ReactiveGrid: the writes that carry a plan out, the switch first.        *)

Write(cap, value) == [cap |-> cap, value |-> value]
SwitchOff == <<Write("enable", 0)>>
Charge(amps) == <<Write("enable", 1), Write("amps", amps)>>

\* An off plan of the ramp leaves the current as it is: its target is 0 already.
_plan_to_result(plan) == IF plan.enabled THEN Charge(plan.amps) ELSE SwitchOff

\* Without the ramp: all or nothing.
_legacy_actions(x) ==
    IF x.tel.grid /\ Percent(x.tel.soc) < x.target THEN On(x.max) ELSE Off

opportunistic_plan(x) ==
    IF x.C.ramp THEN compute_ramp_plan(x) ELSE _legacy_actions(x)
=============================================================================
