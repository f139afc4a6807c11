------------------------------ MODULE RuleEngine -----------------------------
(***************************************************************************)
(* What a control cycle decides: RuleEngine (engine/rules.py), the load    *)
(* shedding plan (engine/shedding.py) and the MPC engine around it         *)
(* (engine/mpc.py).  The solver of the MPC is external: of its solution    *)
(* only the unserved energy counts, and lp says how that came out.         *)
(*                                                                         *)
(* An input i of a cycle has the fields                                    *)
(*   tel: soc, load, pv, battery, grid     stale: is that telemetry stale?  *)
(*   rows: the recent telemetry            fc, stats: see ChargeRamp        *)
(*   site: the import limit in watts       lp: "served", "unserved", "error"*)
(*   ov: force "auto", "on" or "off"; shed_off; pin, a reserve              *)
(* and C is the configuration (cfg.battery, reserve, engine, ...).         *)
(***************************************************************************)
EXTENDS ChargeRamp

CONSTANT Hours  \* how far the solar bridge and the MPC look ahead

ASSUME HorizonAssumption == Hours \in Nat \ {0}

Sample    == [load : Int, battery : Int]
Telemetry == [soc : Nat \cup {Unknown}, load : Int, pv : Int, battery : Int, grid : BOOLEAN]
Override  == [force : {"auto", "on", "off"}, shed_off : BOOLEAN, pin : Nat \cup {Unknown}]
Stats     == [elapsed : Nat \cup {Unknown}, remaining : Nat \cup {Unknown},
              avg : Nat \cup {Unknown}]
Curve(f)  == IsFiniteSet(DOMAIN f) /\ DOMAIN f \subseteq Int /\ f \in [DOMAIN f -> Nat]

Input(i) ==
    /\ i \in [tel : Telemetry, stale : BOOLEAN, rows : Seq(Sample), fc : {i.fc},
              stats : Stats, site : Int, lp : {"served", "unserved", "error"}, ov : Override]
    /\ i.fc \in [known : BOOLEAN, cloudy : BOOLEAN, degraded : BOOLEAN, tomorrow : Nat,
                 load : {i.fc.load}, solar : {i.fc.solar}]
    /\ Curve(i.fc.load) /\ Curve(i.fc.solar)

-----------------------------------------------------------------------------
(* The reserve.                                                             *)

\* The forecast for an hour, or the hour before or after it, else otherwise.
_load_at(fc, h, otherwise) ==
    CASE h \in DOMAIN fc.load -> fc.load[h]
      [] h \notin DOMAIN fc.load /\ h - 1 \in DOMAIN fc.load -> fc.load[h - 1]
      [] {h, h - 1} \cap DOMAIN fc.load = {} /\ h + 1 \in DOMAIN fc.load -> fc.load[h + 1]
      [] OTHER -> otherwise

SolarAt(fc, h) == IF h \in DOMAIN fc.solar THEN fc.solar[h] ELSE 0

Ahead == 0..Hours - 1

\* What an hour takes from the battery, or puts back.
Drawn(load, sun, efficiency) ==
    Most(0, load - sun) - Part(Most(0, sun - load), efficiency)

\* The peak of the energy that loads take from the battery beyond what the sun puts
\* back, for what is drawn in each of the coming hours.
PeakDeficit(drawn) ==
    LET cum[h \in 0..Hours] == IF h = 0 THEN 0 ELSE Most(0, cum[h - 1] + drawn[h - 1])
    IN  Max({cum[h] : h \in 0..Hours})

_solar_bridge_wh(C, fc, floor) ==
    IF fc.load = <<>> THEN floor * 12
    ELSE PeakDeficit([h \in Ahead |-> Drawn(Most(_load_at(fc, h, floor), floor),
                                            SolarAt(fc, h), C.efficiency)])

\* The effective load of a cycle that saw i, after one that came to prev.
EffectiveLoad(C, i, prev) ==
    effective_critical_w(C, resolve_weights(C.order),
        IF C.adaptive THEN smoothed_adaptive_load_w(i.rows, i.tel) ELSE Unknown, prev)

Buffer(C, fc) ==
    C.buffer + (IF fc.known /\ fc.cloudy THEN C.cloudy ELSE 0)
             + (IF fc.known /\ fc.degraded THEN C.cloudy ELSE 0)

compute_reserve(C, fc, leff) ==
    LET W == resolve_weights(C.order)
        autonomy == (100 * Part(leff * C.hours, autonomy_hours_scale(W["resilience"])))
                    \div C.capacity
        buffer == Part(Part(Buffer(C, fc), buffer_scale(W["resilience"])),
                       savings_buffer_relief(W["savings"]))
        bridge == (_solar_bridge_wh(C, fc, leff) * (100 + buffer)) \div C.capacity
    IN  [ autonomy |-> Most(C.floor, autonomy),
          bridge |-> Least(C.ceiling, C.floor + bridge),
          target |-> Least(C.ceiling, Most(Most(C.floor, autonomy),
                                           Least(C.ceiling, C.floor + bridge))) ]

-----------------------------------------------------------------------------
(* The MPC's reserve: the peak deficit that its horizon expects.            *)

LastLoad(fc) == fc.load[CHOOSE h \in DOMAIN fc.load : \A k \in DOMAIN fc.load : k <= h]

_solve(C, i, leff) ==
    LET W == resolve_weights(C.order)
        peak == PeakDeficit([h \in Ahead |->
                                Drawn(Most(_load_at(i.fc, h, LastLoad(i.fc)), leff),
                                      Most(0, SolarAt(i.fc, h)), C.efficiency)])
        share == Part(Part(peak, buffer_scale(W["resilience"])),
                      savings_buffer_relief(W["savings"]))
    IN  IF i.fc.load = <<>> \/ ~Known(i.tel.soc) \/ i.lp = "error" THEN Unknown
        ELSE Least(C.ceiling, C.floor + (100 * share) \div C.capacity)

\* Mutant of TargetSoc: the MPC's reserve replaces that of the rules.
TargetSoc_Replaces(C, i, rules, mpc) ==
    CASE Known(i.ov.pin) -> Most(C.floor, Least(C.ceiling, i.ov.pin))
      [] ~Known(i.ov.pin) /\ Known(mpc) -> Most(C.floor, Least(C.ceiling, mpc))
      [] OTHER -> rules

\* The operator's reserve, else what the MPC adds to that of the rules.
TargetSoc(C, i, rules, mpc) ==
    CASE Known(i.ov.pin) -> Most(C.floor, Least(C.ceiling, i.ov.pin))
      [] ~Known(i.ov.pin) /\ Known(mpc) ->
            Most(C.floor, Least(C.ceiling, Most(mpc, rules)))
      [] OTHER -> rules

-----------------------------------------------------------------------------
(* The risk of a blackout.                                                  *)

\* The factor of the forecast: how far tomorrow falls short of a clear day.
SolarFactor(C, fc) ==
    IF fc.known THEN Full - Clamped((fc.tomorrow * Full) \div C.clear, 0, Full) ELSE 5000

_blackout_risk(C, i, target, autonomy) ==
    LET aim == Most(target, 1)
        deficit == Clamped(((aim - i.tel.soc) * Full) \div aim, 0, Full)
        score == Part(deficit, 6000) + Part(SolarFactor(C, i.fc), 4000)
        discounted == IF ~i.tel.grid THEN score
                      ELSE Part(score, grid_present_risk_multiplier(
                               resolve_weights(C.order), i.stats.elapsed, i.stats.remaining))
    IN  CASE ~Known(i.tel.soc) -> 5000
          [] Known(i.tel.soc) /\ i.tel.soc <= C.floor -> Full
          [] OTHER -> IF i.tel.soc <= autonomy THEN Most(7000, discounted) ELSE discounted

-----------------------------------------------------------------------------
(* Load shedding.  C.tiers is in the order of priority.                     *)

Switch(loads, on) == [loads |-> loads, on |-> on]
Leave == Switch({}, TRUE)

\* What one tier does; only loads that wait for it (pending) are restored.
TierPlan(C, tier, i, pending) ==
    LET back == Switch(tier.loads \cap pending, TRUE)
        soc  == i.tel.soc
    IN  CASE i.tel.grid /\ C.gridRestores -> IF tier.onGrid THEN back ELSE Leave
          [] ~(i.tel.grid /\ C.gridRestores) /\ (~Known(soc) \/ i.stale) ->
                Switch(tier.loads, FALSE)
          [] OTHER -> IF soc < tier.below THEN Switch(tier.loads, FALSE)
                      ELSE IF soc >= tier.above /\ tier.onSoc THEN back ELSE Leave

\* A plan has the actions of each tier.
shed_plan(C, i, pending) ==
    IF ~C.shed THEN <<>>
    ELSE [n \in DOMAIN C.tiers |-> TierPlan(C, C.tiers[n], i, pending)]

force_off_plan(C) ==
    IF ~C.shed THEN <<>> ELSE [n \in DOMAIN C.tiers |-> Switch(C.tiers[n].loads, FALSE)]

-----------------------------------------------------------------------------
(* The decision.                                                            *)

\* Forced on, forced off, blind, or as the ramp has it; the writes in their order.
GridChargePlan(C, i, target, bridge, score, last) ==
    LET max == effective_max_grid_charge_a(C, i.site)
        x == [tel |-> i.tel, fc |-> i.fc, stats |-> i.stats, target |-> target,
              bridge |-> bridge, score |-> score, max |-> max, last |-> last,
              C |-> C, W |-> resolve_weights(C.order)]
        plan == opportunistic_plan(x)
        none == <<Write("enable", 0), Write("amps", 0)>>
    IN  CASE i.ov.force = "on" -> [plan |-> On(max), writes |-> Charge(max)]
          [] i.ov.force = "off" -> [plan |-> Off, writes |-> none]
          [] i.ov.force = "auto" /\ i.stale -> [plan |-> Off, writes |-> none]
          [] OTHER -> [plan |-> plan, writes |-> _plan_to_result(plan)]

\* A decision without a plan for the grid charge, which is not one to charge nothing.
NoPlan == [enabled |-> FALSE, amps |-> Unknown]

\* RuleEngine.decide, called by MPCEngine.decide when the MPC is in use: leff is the
\* effective load, last the current last applied, pending the loads to be restored.
\* Without the engine nothing is planned but shedding.
decide(C, i, leff, last, pending) ==
    LET rules   == compute_reserve(C, i.fc, leff)
        mpc     == IF C.mpc THEN _solve(C, i, leff) ELSE Unknown
        target  == TargetSoc(C, i, rules.target, mpc)
        score   == _blackout_risk(C, i, target, rules.autonomy)
        charge  == IF C.engine /\ C.charge
                   THEN GridChargePlan(C, i, target, rules.bridge, score, last)
                   ELSE [plan |-> NoPlan, writes |-> <<>>]
    IN  [ plan |-> charge.plan,
          writes |-> charge.writes,
          shed |-> IF i.ov.shed_off THEN force_off_plan(C) ELSE shed_plan(C, i, pending),
          target |-> CASE C.engine -> target
                       [] ~C.engine /\ i.tel.soc \notin {0, Unknown} -> i.tel.soc
                       [] OTHER -> C.floor,
          rules |-> rules.target,
          score |-> CASE ~C.engine -> 0
                      [] C.engine /\ Known(mpc) /\ i.lp = "unserved" -> Most(score, 9000)
                      [] OTHER -> score ]
=============================================================================
