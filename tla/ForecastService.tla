--------------------------- MODULE ForecastService ---------------------------
(***************************************************************************)
(* The forecast service (forecast/service.py, solar.py, temperature.py,    *)
(* ml_load.py, tz.py) with the routes and the cycle that drive it.  A      *)
(* refresh awaits the database, then the zone lookup, then the temperature *)
(* and the solar provider together; refreshes, imports and retrains take   *)
(* its lock, a change of the configuration does not and may land at any    *)
(* await.  The two providers remember a zone of their own, which outlives  *)
(* the configuration it was asked for.                                     *)
(*                                                                         *)
(* The curves are abstracted to where they come from: the place the        *)
(* irradiance was asked for or the rooftop Solcast knows, the model that   *)
(* predicts the load.  What the bias factors learn is left out; the option *)
(* ML_LOAD_ENABLED is set.                                                 *)
(***************************************************************************)
EXTENDS Naturals, FiniteSets

CONSTANTS
    Places,          \* coordinates a site may have, Nowhere (0, 0) among them
    Nowhere,
    Zone,            \* the zone Open-Meteo answers for each place
    Automatic,       \* site.timezone = "auto"
    Unknown,         \* no zone resolved: UTC is used
    OpenMeteo, Solcast,  \* the providers
    Nothing,         \* no curve, no file
    Torn,            \* a model file whose write did not finish
    Configs,         \* site and forecast configurations
    SolcastKeys,     \* solcast_api_key and the resource are set
    MaxChanges,      \* bound of the model: configuration changes
    MaxModelSteps,   \* bound of the model: imports, retrains and restarts
    MaxFetchFaults   \* bound of the model: fetches and saves that fail

ASSUME ForecastAssumption ==
    /\ Nowhere \in Places
    /\ \A c \in Configs : /\ c.place \in Places
                          /\ c.timezone \in {Automatic} \cup {Zone[p] : p \in Places}
                          /\ c.provider \in {OpenMeteo, Solcast}
                          /\ c.temperature \in BOOLEAN
    /\ SolcastKeys \in BOOLEAN

VARIABLES
    config,       \* the service's _cfg
    resolved,     \* _resolved_timezone
    solarHint,    \* the solar forecaster's own _resolved_timezone
    tempHint,     \* the temperature service's
    loadZone,     \* the zone the load profile is kept in
    bundle,       \* _current
    ref,          \* the refresh or retrain that holds the lock
    ml,           \* the ML load model: untrained, trained here, or imported
    locked,       \* _ml_import_locked
    model,        \* model.json
    during,       \* history: places configured while the refresh ran
    kept,         \* history: a model was imported, no Retrain was asked since, and
                  \*   no restart found another file
    changes, modelSteps, fetchFaults

zoneVars == <<resolved, solarHint, tempHint, loadZone>>
learnedVars == <<ml, locked, model, kept>>
boundVars == <<changes, modelSteps, fetchFaults>>
forecastVars == <<config, zoneVars, bundle, ref, learnedVars, during, boundVars>>

Zones == {Zone[p] : p \in Places}
Idle == [pc |-> "idle"]
NoBundle == [solar |-> Nothing, load |-> Nothing, degraded |-> TRUE, placed |-> {}]

(* resolve_site_tz *)
SiteZone(c, hint) == IF c.timezone # Automatic THEN c.timezone ELSE hint
site_tz == SiteZone(config, resolved)

(* What save_model writes and load_model reads. *)
export_model(m, l) == [ml |-> m, locked |-> l]

MayFail == fetchFaults < MaxFetchFaults /\ fetchFaults' = fetchFaults + 1

(* save_model: an error is only logged, and may leave a torn file. *)
save_model(m) ==
    \/ model' = m /\ UNCHANGED fetchFaults
    \/ model' \in {model, Torn} /\ MayFail

ForecastInit ==
    /\ config \in Configs
    /\ resolved = Unknown /\ solarHint = Unknown /\ tempHint = Unknown
    /\ loadZone = SiteZone(config, Unknown)
    /\ bundle = NoBundle
    /\ ref = Idle
    /\ ml = "untrained" /\ locked = FALSE
    /\ model = Nothing
    /\ during = {} /\ kept = FALSE
    /\ changes = 0 /\ modelSteps = 0 /\ fetchFaults = 0

-----------------------------------------------------------------------------
(* A refresh.                                                              *)

(* The site, the temperature settings and the reasons that already degrade *)
(* the result are read; then the history is awaited.  The refresh of a     *)
(* start is not followed by a save, the ones of forecast_cycle are.        *)
Begun(c, saves) ==
    [pc |-> "history", saves |-> saves, site |-> c.place, temp |-> c.temperature,
     degraded |-> c.place = Nowhere \/ (c.provider = Solcast /\ ~SolcastKeys)]

RefreshBegins ==
    /\ ref = Idle
    /\ ref' = Begun(config, TRUE)
    /\ during' = {config.place}
    /\ UNCHANGED <<config, zoneVars, bundle, learnedVars, boundVars>>

(* Without a place nothing is fetched, and the previous curve is kept. *)
HistoryRead ==
    /\ ref.pc = "history"
    /\ ref' = IF ref.site = Nowhere
                THEN [pc |-> "fetched", saves |-> ref.saves, solar |-> bundle.solar,
                      degraded |-> ref.degraded, sync |-> FALSE]
                ELSE [ref EXCEPT !.pc = "zone"]
    /\ UNCHANGED <<config, zoneVars, bundle, learnedVars, during, boundVars>>

(* The database does not answer: refresh and retrain raise. *)
HistoryFails ==
    /\ ref.pc \in {"history", "retrain"}
    /\ MayFail
    /\ ref' = Idle
    /\ UNCHANGED <<config, zoneVars, bundle, learnedVars, during, changes, modelSteps>>

(* ensure_resolved_timezone, from its conditions to its request. *)
NeedsZone == config.timezone = Automatic /\ resolved = Unknown /\ config.place # Nowhere

AskZone ==
    /\ ref.pc = "zone"
    /\ NeedsZone
    /\ ref' = [pc |-> "asked", saves |-> ref.saves, temp |-> ref.temp,
               degraded |-> ref.degraded, asked |-> config.place]
    /\ UNCHANGED <<config, zoneVars, bundle, learnedVars, during, boundVars>>

(* The requests to the two providers, with the coordinates and the zone    *)
(* setting of this moment; Solcast is asked for a rooftop.                 *)
Fetch(zone) ==
    /\ resolved' = zone
    /\ loadZone' = SiteZone(config, zone)
    /\ ref' = [pc |-> "fetch", saves |-> ref.saves, degraded |-> ref.degraded, sync |-> TRUE,
               place |-> config.place, zone |-> SiteZone(config, Zone[config.place]),
               solcast |-> config.provider = Solcast /\ SolcastKeys,
               solarDone |-> FALSE, tempDone |-> ~ref.temp, solar |-> Nothing,
               tempZone |-> SiteZone(config, Zone[config.place])]

ZoneKnown ==
    /\ ref.pc = "zone"
    /\ ~NeedsZone
    /\ Fetch(resolved)
    /\ UNCHANGED <<config, solarHint, tempHint, bundle, learnedVars, during, boundVars>>

ZoneAnswered ==
    /\ ref.pc = "asked"
    /\ Fetch(Zone[ref.asked])
    /\ UNCHANGED <<config, solarHint, tempHint, bundle, learnedVars, during, boundVars>>

ZoneFails ==
    /\ ref.pc = "asked"
    /\ MayFail
    /\ Fetch(resolved)
    /\ UNCHANGED <<config, solarHint, tempHint, bundle, learnedVars, during, changes,
                   modelSteps>>

(* A temperature series; Open-Meteo names the zone it used. *)
TempArrives ==
    /\ ref.pc = "fetch" /\ ~ref.tempDone
    /\ tempHint' = ref.tempZone
    /\ ref' = [ref EXCEPT !.tempDone = TRUE]
    /\ UNCHANGED <<config, resolved, solarHint, loadZone, bundle, learnedVars, during,
                   boundVars>>

TempFails ==
    /\ ref.pc = "fetch" /\ ~ref.tempDone
    /\ MayFail
    /\ ref' = [ref EXCEPT !.tempDone = TRUE, !.degraded = TRUE]
    /\ UNCHANGED <<config, zoneVars, bundle, learnedVars, during, changes, modelSteps>>

(* The solar curve: of the rooftop, without a zone, or of the place that   *)
(* was asked for.                                                          *)
SolarArrives ==
    /\ ref.pc = "fetch" /\ ~ref.solarDone
    /\ IF ref.solcast
         THEN /\ ref' = [ref EXCEPT !.solarDone = TRUE, !.solar = Solcast]
              /\ UNCHANGED solarHint
         ELSE /\ ref' = [ref EXCEPT !.solarDone = TRUE, !.solar = ref.place]
              /\ solarHint' = ref.zone
    /\ UNCHANGED <<config, resolved, tempHint, loadZone, bundle, learnedVars, during, boundVars>>

(* Solcast fails: Open-Meteo is asked instead, for the place of now. *)
SolcastFails ==
    /\ ref.pc = "fetch" /\ ~ref.solarDone /\ ref.solcast
    /\ MayFail
    /\ ref' = [ref EXCEPT !.solcast = FALSE, !.place = config.place,
                          !.zone = SiteZone(config, Zone[config.place])]
    /\ UNCHANGED <<config, zoneVars, bundle, learnedVars, during, changes, modelSteps>>

(* Mutant of KeepCurve: an old curve is presented as this refresh's own. *)
KeepCurve_AsFresh(r) == [r EXCEPT !.solarDone = TRUE, !.solar = bundle.solar]

(* The previous curve stays, and the result says so. *)
KeepCurve(r) == [r EXCEPT !.solarDone = TRUE, !.solar = bundle.solar, !.degraded = TRUE]

(* One array's request fails; another's answer may have named the zone. *)
SolarFails ==
    /\ ref.pc = "fetch" /\ ~ref.solarDone /\ ~ref.solcast
    /\ MayFail
    /\ ref' = KeepCurve(ref)
    /\ solarHint' \in {solarHint, ref.zone}
    /\ UNCHANGED <<config, resolved, tempHint, loadZone, bundle, learnedVars, during,
                   changes, modelSteps>>

(* _sync_resolved_timezone: the solar forecaster's zone, or else the       *)
(* temperature service's, replaces the resolved one.                       *)
Hint == IF solarHint # Unknown THEN solarHint ELSE tempHint

(* Mutant of Synced: a zone that is already resolved stays. *)
Synced_Keeps == IF resolved # Unknown \/ Hint = Unknown THEN resolved ELSE Hint
Synced == IF Hint # Unknown THEN Hint ELSE resolved

Fetched ==
    /\ ref.pc = "fetch" /\ ref.solarDone /\ ref.tempDone
    /\ ref' = [pc |-> "fetched", saves |-> ref.saves, solar |-> ref.solar,
               degraded |-> ref.degraded, sync |-> TRUE]
    /\ UNCHANGED <<config, zoneVars, bundle, learnedVars, during, boundVars>>

(* An imported model predicts while it is locked; otherwise one is trained *)
(* on the history, if there is enough of it.  The profile steps in for a   *)
(* model that is missing or raises.                                        *)
Predictions == {"profile"} \cup IF locked /\ ml # "untrained" THEN {ml} ELSE {"own"}

RefreshEnds ==
    /\ ref.pc = "fetched"
    /\ resolved' = IF ref.sync THEN Synced ELSE resolved
    /\ loadZone' = SiteZone(config, resolved')
    /\ \E by \in Predictions :
          /\ ml' = IF by = "profile" THEN ml ELSE by
          /\ bundle' = [solar |-> ref.solar, load |-> by, degraded |-> ref.degraded,
                        placed |-> during]
    /\ ref' = Idle
    /\ IF ref.saves THEN save_model(export_model(ml', locked))
                    ELSE UNCHANGED <<model, fetchFaults>>
    /\ UNCHANGED <<config, solarHint, tempHint, locked, during, kept, changes,
                   modelSteps>>

-----------------------------------------------------------------------------
(* Configuration.                                                          *)

(* update_config: another site forgets the service's zone, and not the     *)
(* zones of the providers.                                                 *)
Reconfigure(c) ==
    /\ changes < MaxChanges /\ changes' = changes + 1
    /\ c # config
    /\ config' = c
    /\ resolved' = IF c.timezone # config.timezone \/ c.place # config.place
                     THEN Unknown ELSE resolved
    /\ loadZone' = SiteZone(c, resolved')
    /\ during' = IF ref = Idle THEN during ELSE during \cup {c.place}
    /\ UNCHANGED <<solarHint, tempHint, bundle, ref, learnedVars, modelSteps, fetchFaults>>

-----------------------------------------------------------------------------
(* The learned model.                                                      *)

ModelStep == modelSteps < MaxModelSteps /\ modelSteps' = modelSteps + 1

(* import_model, for an export that holds a trained model or not: the lock *)
(* follows the blob whether or not it can be loaded.                       *)
ImportModel(withBlob, loads, wasLocked) ==
    /\ ref = Idle
    /\ ModelStep
    /\ ml' = IF withBlob /\ loads THEN "imported" ELSE ml
    /\ locked' = (withBlob \/ wasLocked)
    /\ kept' = ((withBlob /\ loads) \/ (kept /\ locked'))
    /\ save_model(export_model(ml', locked'))
    /\ UNCHANGED <<config, zoneVars, bundle, ref, during, changes>>

(* retrain_ml_load unlocks, awaits the history, trains if there is enough. *)
RetrainBegins ==
    /\ ref = Idle
    /\ ModelStep
    /\ locked' = FALSE
    /\ kept' = FALSE
    /\ ref' = [pc |-> "retrain"]
    /\ UNCHANGED <<config, zoneVars, bundle, ml, model, during, changes, fetchFaults>>

RetrainEnds ==
    /\ ref.pc = "retrain"
    /\ ml' \in {ml, "own"}
    /\ save_model(export_model(ml', locked))
    /\ ref' = Idle
    /\ UNCHANGED <<config, zoneVars, bundle, locked, kept, during, changes, modelSteps>>

(* A new process: load_model imports the file, and so locks any model it   *)
(* holds; setup refreshes once.                                            *)
Restart ==
    /\ ModelStep
    /\ resolved' = Unknown /\ solarHint' = Unknown /\ tempHint' = Unknown
    /\ loadZone' = SiteZone(config, Unknown)
    /\ bundle' = NoBundle
    /\ ref' = Begun(config, FALSE)
    /\ during' = {config.place}
    /\ IF model \in {Nothing, Torn}
         THEN ml' = "untrained" /\ locked' = FALSE /\ kept' = FALSE
         ELSE /\ ml' = model.ml
              /\ locked' = (model.locked \/ model.ml # "untrained")
              /\ kept' = (kept /\ model.ml = "imported")
    /\ UNCHANGED <<config, model, changes, fetchFaults>>

-----------------------------------------------------------------------------
RefreshStep ==
    RefreshBegins \/ HistoryRead \/ AskZone \/ ZoneKnown \/ ZoneAnswered
        \/ TempArrives \/ SolarArrives \/ Fetched \/ RefreshEnds \/ RetrainEnds

ForecastNext ==
    \/ RefreshStep
    \/ HistoryFails \/ ZoneFails \/ TempFails \/ SolcastFails \/ SolarFails
    \/ \E c \in Configs : Reconfigure(c)
    \/ \E b, l, w \in BOOLEAN : ImportModel(b, l, w)
    \/ RetrainBegins \/ Restart

ForecastSpec == ForecastInit /\ [][ForecastNext]_forecastVars

-----------------------------------------------------------------------------
(* Properties.                                                             *)

ForecastTypeOK ==
    /\ config \in Configs
    /\ {resolved, solarHint, tempHint, loadZone} \subseteq Zones \cup {Unknown}
    /\ bundle.solar \in Places \cup {Solcast, Nothing}
    /\ bundle.load \in {"untrained", "own", "imported", "profile", Nothing}
    /\ ref.pc \in {"idle", "history", "zone", "asked", "fetch", "fetched", "retrain"}
    /\ ml \in {"untrained", "own", "imported"}
    /\ <<locked, kept>> \in BOOLEAN \X BOOLEAN

(* A forecast that does not call itself degraded has a solar curve of this   *)
(* refresh: of the rooftop, or of a place that was configured while it ran,  *)
(* never one kept from an earlier site.  The load profile is bucketed in the *)
(* zone the rest of the service computes in, however the zone came about.    *)
(* And an imported model goes on predicting, through refreshes, changes of   *)
(* the configuration and restarts, until someone asks for a Retrain.         *)
ForecastTrusted ==
    /\ ForecastTypeOK
    /\ ~bundle.degraded => bundle.solar \in bundle.placed \cup {Solcast}
    /\ loadZone = site_tz
    /\ kept => ml = "imported" /\ locked

(* Once the configuration is left alone and Open-Meteo answers, the zone of  *)
(* an automatic site becomes and stays the one of its coordinates, whichever *)
(* answers for earlier coordinates were still under way.  It is asked of     *)
(* sites forecast by Open-Meteo only: with Solcast the solar forecaster's    *)
(* old zone is never replaced.                                               *)
ZoneSettles ==
    <>[](config.timezone = Automatic /\ config.place # Nowhere /\ config.provider = OpenMeteo
            => resolved = Zone[config.place])
=============================================================================
