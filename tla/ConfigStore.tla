----------------------------- MODULE ConfigStore -----------------------------
(***************************************************************************)
(* The configuration (config_store.py, config_migration.py, config.py and  *)
(* the orchestrator's reload and reset).  The effective configuration is   *)
(* the shipped base YAML with the overrides of a runtime file merged over  *)
(* it.  The runtime file carries the version of its layout; reading an     *)
(* older one migrates and rewrites it.  The write is not atomic, an        *)
(* unreadable file counts as no overrides, and an invalid result as the    *)
(* base alone.                                                             *)
(*                                                                         *)
(* A dictionary of sections is a function from the dotted names of its     *)
(* leaves.  One name stands for each thing the migrations do: move a key,  *)
(* join two keys, drop a key, leave a key alone.  A leaf set to null is    *)
(* the same as an absent one and is left out.                              *)
(***************************************************************************)
EXTENDS Naturals, FiniteSets, Functions, FiniteSetsExt

CONSTANTS
    Bases,           \* shipped YAML files: dictionaries
    RuntimeFiles,    \* runtime files a first start may find
    Patches,         \* what the settings page may send
    Down,            \* the configuration of a process that does not run
    MaxConfigFaults  \* bound of the model: failed reads and writes

CURRENT_SCHEMA_VERSION == 8

(* The leaves AppConfig reads; it ignores every other one. *)
Fields == {"site.timezone", "site.latitude", "grid_charge.max_grid_charge_a",
           "ha.base_url", "engine.mode"}
Default == 0
NoSuchZone == 9      \* a time zone ZoneInfo does not know

(* A runtime file: the version of its layout and its overrides. *)
RuntimeFile(v, d) == [kind |-> "yaml", version |-> v, overrides |-> d]
NoFile == [kind |-> "none"]
Unreadable == [kind |-> "unreadable"]   \* no YAML mapping, such as an empty file
Readable(f) == f.kind = "yaml"

(* A file has the keys of its own layout: those that migrations 3 and 4 moved *)
(* are gone from the layouts after them.                                      *)
FileLayout(f) ==
    Readable(f) => /\ f.version \in 0 .. 9
                   /\ f.version >= 4 => "forecast.timezone" \notin DOMAIN f.overrides
                   /\ f.version >= 5 => "forecast.latitude" \notin DOMAIN f.overrides

(* Values are numbers, the ordered ones and the others alike.  The base is a *)
(* valid file, and the settings page sends fields by their current names.    *)
ASSUME ConfigAssumption ==
    /\ \A b \in Bases :
          /\ \A k \in DOMAIN b : b[k] \in Nat
          /\ "site.timezone" \in DOMAIN b => b["site.timezone"] # NoSuchZone
    /\ \A f \in RuntimeFiles :
          /\ FileLayout(f)
          /\ Readable(f) => \A k \in DOMAIN f.overrides : f.overrides[k] \in Nat
    /\ \A p \in Patches : DOMAIN p \cap {"forecast.timezone", "forecast.latitude"} = {}
    /\ MaxConfigFaults \in Nat

VARIABLES
    base,        \* config/config.yaml
    file,        \* config.runtime.yaml
    cfg,         \* the orchestrator's cfg
    found,       \* history: the runtime file of the first start
    pristine,    \* history: no update, reset or fault so far
    torn,        \* history: the running process failed a read or a write, and no
                 \*   update or start succeeded since
    configFaults

configVars == <<base, file, cfg, found, pristine, torn, configFaults>>

-----------------------------------------------------------------------------
(* Migrations, on dictionaries.                                            *)

Has(d, k) == k \in DOMAIN d
Drop(d, ks) == Restrict(d, DOMAIN d \ ks)
deep_merge(d, over) ==
    [k \in DOMAIN d \cup DOMAIN over |-> IF Has(over, k) THEN over[k] ELSE d[k]]

(* Mutant of Move: the legacy key wins over the one that replaced it. *)
Move_Overwrites(d, old, new) ==
    IF Has(d, old) THEN deep_merge(Drop(d, {old}), [k \in {new} |-> d[old]]) ELSE d

(* A legacy key gives way to the key that replaced it. *)
Move(d, old, new) ==
    IF Has(d, old) THEN deep_merge([k \in {new} |-> d[old]], Drop(d, {old})) ELSE d

Largest(d, ks) == Max({d[k] : k \in ks})

(* The larger of the two charge limits survives; work modes are dropped. *)
migrate_v1_to_v2(d) ==
    LET limits == {"battery.max_charge_a", "battery.max_grid_charge_a"} \cap DOMAIN d
        kept   == Drop(d, {"battery.max_charge_a", "inverter.work_modes"})
    IN  IF Has(d, "battery.max_charge_a")
          THEN deep_merge(kept, [k \in {"battery.max_grid_charge_a"} |-> Largest(d, limits)])
          ELSE kept
migrate_v2_to_v3(d) == Move(d, "battery.max_grid_charge_a", "grid_charge.max_grid_charge_a")
migrate_v3_to_v4(d) == Move(d, "forecast.timezone", "site.timezone")
migrate_v4_to_v5(d) == Move(d, "forecast.latitude", "site.latitude")
migrate_v5_to_v6(d) == Drop(d, {"grid_charge.factor_order"})
migrate_v6_to_v7(d) == Drop(d, {"ha.token"})
migrate_v7_to_v8(d) == Drop(d, {"fail_safe.heartbeat_entity", "fail_safe.heartbeat_enabled"})

From7(d, v) == IF v <= 7 THEN migrate_v7_to_v8(d) ELSE d
From6(d, v) == From7(IF v <= 6 THEN migrate_v6_to_v7(d) ELSE d, v)
From5(d, v) == From6(IF v <= 5 THEN migrate_v5_to_v6(d) ELSE d, v)
From4(d, v) == From5(IF v <= 4 THEN migrate_v4_to_v5(d) ELSE d, v)
From3(d, v) == From4(IF v <= 3 THEN migrate_v3_to_v4(d) ELSE d, v)
From2(d, v) == From3(IF v <= 2 THEN migrate_v2_to_v3(d) ELSE d, v)

(* MIGRATIONS from version v on; the step from 0 to 1 only rewraps. *)
migrate_overrides(d, v) == From2(IF v <= 1 THEN migrate_v1_to_v2(d) ELSE d, v)

(* The base and the merged result never have the layouts before 3. *)
migrate_config_data(d) == From3(d, 3)

-----------------------------------------------------------------------------
(* Reading.                                                                *)

NoOverrides == <<>>

Overrides(f) == IF Readable(f) THEN migrate_overrides(f.overrides, f.version) ELSE NoOverrides

(* load_runtime_file's migrated: the file is to be rewritten.  An unversioned *)
(* file that is empty counts as current.                                      *)
Migrated(f) ==
    /\ Readable(f)
    /\ f.version < CURRENT_SCHEMA_VERSION
    /\ f.version = 0 => f.overrides # NoOverrides
Rewritten(f) == IF Migrated(f) THEN RuntimeFile(CURRENT_SCHEMA_VERSION, Overrides(f)) ELSE f

Valid(d) == Has(d, "site.timezone") => d["site.timezone"] # NoSuchZone
AppConfig(d) == [k \in Fields |-> IF Has(d, k) THEN d[k] ELSE Default]
load_app_config == AppConfig(migrate_config_data(base))
Effective(over) == migrate_config_data(deep_merge(base, over))

load(over) == IF Valid(Effective(over)) THEN AppConfig(Effective(over)) ELSE load_app_config

(* What a write that did not finish may leave: nothing that can be read, or *)
(* some of the new file.                                                    *)
TornFiles(f) == IF ~Readable(f) THEN {} ELSE {Unreadable} \cup {RuntimeFile(f.version, Restrict(f.overrides, ks)) :
                                       ks \in SUBSET DOMAIN f.overrides}

ConfigFault ==
    /\ configFaults < MaxConfigFaults
    /\ configFaults' = configFaults + 1
    /\ pristine' = FALSE

-----------------------------------------------------------------------------
(* The process starts and stops.                                           *)

ConfigInit ==
    /\ base \in Bases
    /\ file \in RuntimeFiles
    /\ cfg = Down
    /\ found = file
    /\ pristine = TRUE
    /\ torn = FALSE
    /\ configFaults = 0

(* ConfigStore.load in the orchestrator's constructor. *)
Start ==
    /\ cfg = Down
    /\ cfg' = load(Overrides(file))
    /\ file' = Rewritten(file)
    /\ torn' = FALSE
    /\ UNCHANGED <<base, found, pristine, configFaults>>

StartCannotRead ==
    /\ cfg = Down
    /\ Readable(file)
    /\ ConfigFault
    /\ cfg' = load(NoOverrides)
    /\ torn' = TRUE
    /\ UNCHANGED <<base, file, found>>

(* A rewrite that fails falls back to the base, as an invalid file does. *)
StartCannotRewrite ==
    /\ cfg = Down
    /\ Migrated(file)
    /\ ConfigFault
    /\ cfg' = load_app_config
    /\ \E f \in TornFiles(Rewritten(file)) \cup {file} : file' = f
    /\ torn' = TRUE
    /\ UNCHANGED <<base, found>>

ConfigCrash ==
    /\ cfg # Down
    /\ cfg' = Down
    /\ UNCHANGED <<base, file, found, pristine, torn, configFaults>>

-----------------------------------------------------------------------------
(* The settings page.                                                      *)

(* _sanitize_config_patch: a token is never stored. *)
_sanitize_config_patch(p) == Drop(p, {"ha.token"})

Patched(over, p) == deep_merge(over, _sanitize_config_patch(p))

(* Mutant of UpdateFrom: only the patch is stored, not the merged overrides. *)
UpdateFrom_PatchOnly(over, p) ==
    /\ Valid(deep_merge(base, Patched(over, p)))
    /\ cfg' = AppConfig(deep_merge(base, Patched(over, p)))
    /\ file' = RuntimeFile(CURRENT_SCHEMA_VERSION, _sanitize_config_patch(p))
    /\ torn' = FALSE

(* update, having read over: a patch that makes the result invalid is       *)
(* refused.  The candidate is not passed through migrate_config_data.       *)
UpdateFrom(over, p) ==
    LET new == Patched(over, p)
    IN  /\ Valid(deep_merge(base, new))
        /\ cfg' = AppConfig(deep_merge(base, new))
        /\ file' = RuntimeFile(CURRENT_SCHEMA_VERSION, new)
        /\ torn' = FALSE

Update(p) ==
    /\ cfg # Down
    /\ UpdateFrom(Overrides(file), p)
    /\ pristine' = FALSE
    /\ UNCHANGED <<base, found, configFaults>>

(* The file is there and cannot be read: its overrides are given up. *)
UpdateCannotRead(p) ==
    /\ cfg # Down
    /\ Readable(file)
    /\ ConfigFault
    /\ UpdateFrom(NoOverrides, p)
    /\ UNCHANGED <<base, found>>

(* A refused patch changes nothing but a file still to be migrated. *)
UpdateRefused(p) ==
    /\ cfg # Down
    /\ ~Valid(deep_merge(base, Patched(Overrides(file), p)))
    /\ file' = Rewritten(file)
    /\ UNCHANGED <<base, cfg, found, pristine, torn, configFaults>>

(* The write fails: the program goes on with the configuration it had, over *)
(* a file that is neither; or the process dies with it.                     *)
UpdateCannotWrite(p) ==
    LET new == Patched(Overrides(file), p)
    IN  /\ cfg # Down
        /\ Valid(deep_merge(base, new))
        /\ ConfigFault
        /\ \E f \in TornFiles(RuntimeFile(CURRENT_SCHEMA_VERSION, new))
                    \cup TornFiles(Rewritten(file)) : file' = f
        /\ \/ cfg' = cfg /\ torn' = TRUE
           \/ cfg' = Down /\ UNCHANGED torn
        /\ UNCHANGED <<base, found>>

Reset ==
    /\ cfg # Down
    /\ file' = NoFile
    /\ cfg' = load(NoOverrides)
    /\ pristine' = FALSE
    /\ torn' = FALSE
    /\ UNCHANGED <<base, found, configFaults>>

ConfigNext ==
    \/ Start \/ StartCannotRead \/ StartCannotRewrite \/ ConfigCrash \/ Reset
    \/ \E p \in Patches : Update(p) \/ UpdateCannotRead(p) \/ UpdateRefused(p)
                          \/ UpdateCannotWrite(p)

ConfigSpec == ConfigInit /\ [][ConfigNext]_configVars

-----------------------------------------------------------------------------
(* Properties.                                                             *)

ConfigTypeOK ==
    /\ base \in Bases
    /\ Readable(file) => file.version \in 0 .. 9
    /\ cfg = Down \/ DOMAIN cfg = Fields
    /\ <<pristine, torn>> \in BOOLEAN \X BOOLEAN
    /\ configFaults \in 0 .. MaxConfigFaults

CurrentLayout(d) == DOMAIN d \subseteq Fields

(* The configuration that runs is the one a restart would load: no answer    *)
(* of the settings page is undone by the next start.  A failed write is the  *)
(* exception until the next one that succeeds, and so is a base in an old    *)
(* layout, which update, unlike load, does not migrate.                      *)
RunningIsReloadable ==
    /\ ConfigTypeOK
    /\ cfg # Down /\ ~torn /\ CurrentLayout(base) => cfg = load(Overrides(file))

(* The keys of layout v that a field took the place of. *)
Replaced(v, k) ==
    CASE k = "grid_charge.max_grid_charge_a" ->
           IF v <= 1 THEN {"battery.max_charge_a", "battery.max_grid_charge_a"}
           ELSE IF v = 2 THEN {"battery.max_grid_charge_a"} ELSE {}
      [] k = "site.timezone" -> IF v <= 3 THEN {"forecast.timezone"} ELSE {}
      [] k = "site.latitude" -> IF v <= 4 THEN {"forecast.latitude"} ELSE {}
      [] OTHER -> {}

(* What a runtime file of layout v says of each field, by the documents of   *)
(* that layout: the field's own key, or else the keys it replaced.           *)
Says(d, v, k) ==
    LET older == Replaced(v, k) \cap DOMAIN d
    IN  IF Has(d, k) THEN {d[k]}
        ELSE IF older = {} THEN {} ELSE {Largest(d, older)}

(* An upgrade over any number of layouts, and any number of crashes and      *)
(* restarts after it, keeps what the runtime file said: each field has the   *)
(* value the file gave it in its own layout, or else what the base says.  A  *)
(* file whose values are invalid yields to the base as a whole.              *)
UpgradeKeepsMeaning ==
    LET over == IF Readable(found) THEN found ELSE RuntimeFile(CURRENT_SCHEMA_VERSION, <<>>)
        said == [k \in Fields |-> IF Says(over.overrides, over.version, k) # {}
                                    THEN Says(over.overrides, over.version, k)
                                    ELSE Says(base, 3, k)]
        wanted == [k \in Fields |-> IF said[k] = {} THEN Default ELSE CHOOSE x \in said[k] : TRUE]
    IN  pristine /\ cfg # Down =>
            cfg = IF wanted["site.timezone"] # NoSuchZone THEN wanted ELSE load_app_config
=============================================================================
