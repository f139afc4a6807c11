------------------------------ MODULE MCConfig -------------------------------
(* The configuration and the forecast service.  reload_config passes what   *)
(* the store returns to update_config; the service needs only the site and  *)
(* the provider of it, so each behaviour runs one of the two.               *)
EXTENDS ConfigStore, ForecastService, TLC

CONSTANTS a, b

VARIABLE part

allVars == <<configVars, forecastVars, part>>

One(k, v) == [x \in {k} |-> v]

ShippedYAMLs == {<<>>,
    One("site.timezone", 1) @@ One("engine.mode", 1),
    One("forecast.timezone", 1) @@ One("forecast.latitude", 1) @@ One("ha.token", 1)}
\* one file of each layout, with the keys that layout had
LegacyFiles ==
    {RuntimeFile(v, d) : v \in 0 .. 1,
        d \in {<<>>, One("battery.max_charge_a", 2) @@ One("battery.max_grid_charge_a", 1),
               One("battery.max_charge_a", 1) @@ One("inverter.work_modes", 1)}}
    \cup {RuntimeFile(2, d) : d \in {One("battery.max_grid_charge_a", 1),
               One("battery.max_grid_charge_a", 1) @@ One("grid_charge.max_grid_charge_a", 2)}}
    \cup {RuntimeFile(3, d) : d \in {One("forecast.timezone", 2) @@ One("site.latitude", 1),
               One("forecast.timezone", 2) @@ One("site.timezone", 1),
               One("forecast.timezone", NoSuchZone)}}
    \cup {RuntimeFile(4, One("forecast.latitude", 2) @@ One("site.timezone", 2))}
    \cup {RuntimeFile(v, One("grid_charge.factor_order", 1) @@ One("ha.token", 1)
             @@ One("fail_safe.heartbeat_entity", 1) @@ One("ha.base_url", 2)) : v \in 5 .. 7}
RuntimeYAMLs == {NoFile, Unreadable, RuntimeFile(9, One("site.timezone", 2) @@ One("new.key", 1)),
                 RuntimeFile(8, One("site.timezone", NoSuchZone) @@ One("engine.mode", 2))}
                \cup LegacyFiles
UIPatches == {One("site.timezone", 2), One("site.timezone", NoSuchZone),
              One("engine.mode", 2) @@ One("site.latitude", 2),
              One("ha.token", 2) @@ One("ha.base_url", 1)}

ZoneOf == [p \in Places |-> p]
Site(p, tz, prov, temp) == [place |-> p, timezone |-> tz, provider |-> prov, temperature |-> temp]
Sites == {Site(p, Automatic, OpenMeteo, TRUE) : p \in Places}
         \cup {Site(a, Automatic, Solcast, FALSE), Site(b, b, OpenMeteo, FALSE)}

Init ==
    /\ part \in {"store", "forecast"}
    /\ IF part = "store" THEN ConfigInit
       ELSE /\ base = <<>> /\ file = NoFile /\ cfg = Down /\ found = NoFile
            /\ pristine = TRUE /\ torn = FALSE /\ configFaults = 0
    /\ IF part = "forecast" THEN ForecastInit
       ELSE ForecastInit /\ config = Site(Nowhere, Automatic, OpenMeteo, TRUE)

Next ==
    /\ UNCHANGED part
    /\ \/ part = "store" /\ ConfigNext /\ UNCHANGED forecastVars
       \/ part = "forecast" /\ ForecastNext /\ UNCHANGED configVars

Spec == Init /\ [][Next]_allVars
          /\ WF_allVars(part = "forecast" /\ RefreshStep /\ UNCHANGED <<configVars, part>>)
=============================================================================
