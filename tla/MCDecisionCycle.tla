--------------------------- MODULE MCDecisionCycle ---------------------------
\* Small instances of DecisionCycle and GridHistory.  The two are explored one at a
\* time: what the statistics can come out as is the input of the cycles.
EXTENDS DecisionCycle, GridHistory

MCHours == 6

MCBase ==
    [ order |-> DEFAULT_PRIORITY_ORDER, engine |-> TRUE, mpc |-> FALSE, shed |-> TRUE,
      charge |-> TRUE, ramp |-> TRUE,
      max |-> 6, min |-> 2, step |-> 3, off |-> 1, volts |-> 250,
      horizon |-> 3, hoursLeft |-> 4,
      ignore |-> 30, island |-> 10, cont |-> 120, safety |-> 7500,
      floor |-> 20, ceiling |-> 100, capacity |-> 10000, efficiency |-> 9000,
      critical |-> 400, hours |-> 6, buffer |-> 15, cloudy |-> 15,
      adaptive |-> TRUE, cap |-> 1000, clear |-> 20000,
      gridRestores |-> TRUE,
      tiers |-> << [loads |-> {"heater"}, below |-> 50, above |-> 65,
                    onSoc |-> TRUE, onGrid |-> TRUE],
                   [loads |-> {"fridge"}, below |-> 35, above |-> 45,
                    onSoc |-> TRUE, onGrid |-> FALSE] >> ]

\* The MPC with the opposite ranking and a higher floor, charging without the ramp, and shedding alone.
MCConfigs ==
    { MCBase,
      [MCBase EXCEPT !.order = <<"savings", "self_sufficiency", "resilience">>,
                     !.mpc = TRUE, !.floor = 30, !.shed = FALSE, !.tiers = <<>>],
      [MCBase EXCEPT !.ramp = FALSE, !.adaptive = FALSE, !.shed = FALSE, !.tiers = <<>>],
      [MCBase EXCEPT !.engine = FALSE, !.charge = FALSE] }

MCGrid == [ignore |-> 1, island |-> 2, cont |-> 4, safety |-> 7500]

MCNight == [ known |-> TRUE, cloudy |-> TRUE, degraded |-> FALSE, tomorrow |-> 4000,
             load |-> [h \in 0..5 |-> 600], solar |-> [h \in 0..5 |-> 0] ]
MCDay   == [ known |-> TRUE, cloudy |-> FALSE, degraded |-> FALSE, tomorrow |-> 15000,
             load |-> [h \in 1..3 |-> 500], solar |-> [h \in 0..4 |-> 1500] ]

\* Just enough sun to carry the house until the last hour.
MCHaze  == [MCNight EXCEPT !.solar = [h \in 0..4 |-> 900]]

MCTel == [soc |-> 40, load |-> 900, pv |-> 300, battery |-> -600, grid |-> TRUE]
MCStats == [elapsed |-> 20, remaining |-> 60, avg |-> 100]
MCAuto == [force |-> "auto", shed_off |-> FALSE, pin |-> Unknown]

MCUsual == [ tel |-> MCTel, stale |-> FALSE, rows |-> <<>>, fc |-> MCNight,
             stats |-> MCStats, site |-> Unknown, lp |-> "served", ov |-> MCAuto ]

\* One thing at a time differs from the usual.
MCInputs ==
    {MCUsual}
    \cup {[MCUsual EXCEPT !.tel.soc = s] : s \in {24, 95, Unknown}}
    \cup {[MCUsual EXCEPT !.tel.grid = FALSE], [MCUsual EXCEPT !.stale = TRUE]}
    \cup {[MCUsual EXCEPT !.tel.load = 700, !.tel.battery = 500, !.fc = MCDay,
                         !.rows = [n \in 1..3 |-> [load |-> 600 + 50 * n, battery |-> 0]]]}
    \cup {[MCUsual EXCEPT !.site = 600], [MCUsual EXCEPT !.lp = "unserved"]}
    \cup {[MCUsual EXCEPT !.ov.force = "on"], [MCUsual EXCEPT !.ov.force = "off"]}
    \cup {[MCUsual EXCEPT !.ov.pin = 70, !.ov.shed_off = TRUE, !.tel.load = Unknown,
                         !.fc = MCHaze]}
    \cup {[MCUsual EXCEPT !.tel.load = Unknown, !.tel.battery = Unknown, !.fc = NoForecast]}

NothingDone ==
    /\ cur = Nothing /\ latest = NoPlan /\ prev = Unknown /\ shed = {} /\ faults = 0
    /\ reg = [enable |-> 0, amps |-> C.max]

MCInit == Init /\ NoHistory
MCNext ==
    \/ events = <<>> /\ now = 0 /\ NextCycle /\ UNCHANGED historyVars
    \/ C = MCBase /\ NothingDone /\ NextEvent /\ UNCHANGED vars
MCSpec == MCInit /\ [][MCNext]_<<vars, historyVars>>
=============================================================================
