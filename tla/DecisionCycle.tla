---------------------------- MODULE DecisionCycle ----------------------------
(***************************************************************************)
(* The control cycle with its numbers: what the RuleEngine decides from    *)
(* the telemetry of a cycle, what the Executor makes of it, and what both  *)
(* remember for the next one.  ControlLoop has who runs a cycle and when;  *)
(* WriteGuard and ShedExecutor have how one write fares.  Here a write has *)
(* an outcome, and the memory that the ramp (_last_grid_charge_amps) and   *)
(* the adaptive load (_prev_effective_critical_w) keep between cycles is   *)
(* what can go wrong.                                                      *)
(***************************************************************************)
EXTENDS RuleEngine

CONSTANTS
    Configs,   \* the configurations
    Inputs,    \* what a cycle may see (see RuleEngine)
    Loads,     \* the loads of the tiers
    MaxFaults  \* bound on writes that fail, lie or are cut short, and on decisions
               \* that the database does not take

Tier == [loads : SUBSET Loads, below : Nat, above : Nat, onSoc : BOOLEAN, onGrid : BOOLEAN]

Configuration ==
    [ order : Orders, engine : BOOLEAN, mpc : BOOLEAN, shed : BOOLEAN, charge : BOOLEAN,
      ramp : BOOLEAN, adaptive : BOOLEAN, gridRestores : BOOLEAN,
      max : Nat, min : Nat, step : Nat, off : Nat, volts : Nat, horizon : Nat,
      hoursLeft : Nat, ignore : Nat, island : Nat, cont : Nat, safety : Nat,
      floor : Nat, ceiling : Nat, capacity : Nat \ {0}, efficiency : Nat,
      critical : Nat, hours : Nat, buffer : Nat, cloudy : Nat, cap : Nat,
      clear : Nat \ {0}, tiers : Seq(Tier) ]

ASSUME CycleAssumption ==
    /\ MaxFaults \in Nat
    /\ \A c \in Configs : c \in Configuration /\ c.floor <= c.ceiling
    /\ \A i \in Inputs : Input(i)

VARIABLES
    C,        \* cfg
    prev,     \* the engine's _prev_effective_critical_w
    last,     \* _last_grid_charge_amps
    latest,   \* the grid charge plan of latest_decision, or NoPlan
    reg,      \* the registers of the inverter
    shed,     \* the loads that are off and wait to be restored
    cur,      \* the decision being carried out
    faults,
    \* history:
    before,   \* the effective load of the last cycle, if it saw a load
    offs,     \* how many live cycles in a row have planned to charge nothing and
              \* left latest_decision saying so, up to 2
    astray    \* last may not be what the inverter was told

memory == <<prev, last, latest>>
plant  == <<reg, shed>>
past   == <<before, offs, astray>>
vars   == <<C, memory, plant, cur, faults, past>>

Nothing == [pc |-> "idle"]

Init ==
    /\ C \in Configs
    /\ prev = Unknown /\ last = Unknown /\ latest = NoPlan
    /\ reg = [enable |-> 0, amps |-> C.max] /\ shed = {}
    /\ cur = Nothing /\ faults = 0
    /\ before = Unknown /\ offs = 0 /\ astray = FALSE

-----------------------------------------------------------------------------
(* Deciding.                                                                *)

\* compute_reserve remembers the effective load, unless the decision is a dry run.
Remembered(leff, update) == IF update THEN leff ELSE prev

Sees(i) == Known(smoothed_adaptive_load_w(i.rows, i.tel))

\* The telemetry and statistics of the cycle are in, and _decide runs.
Decide(i) ==
    /\ cur = Nothing
    /\ LET leff == EffectiveLoad(C, i, prev)
       IN  /\ cur' = [pc |-> "write", i |-> i, leff |-> leff,
                      d |-> decide(C, i, leff, last, shed)]
           /\ prev' = IF C.engine THEN Remembered(leff, TRUE) ELSE prev
           /\ before' = IF C.engine /\ C.adaptive /\ Sees(i) THEN leff ELSE Unknown
    /\ UNCHANGED <<C, last, latest, plant, faults, offs, astray>>

\* simulate_decision: from the latest telemetry, without history or consequences.
simulate_decision ==
    /\ prev' \in {IF C.engine THEN Remembered(EffectiveLoad(C, i, prev), FALSE) ELSE prev :
                     i \in {j \in Inputs : j.rows = <<>>}}
    /\ UNCHANGED <<C, last, latest, plant, cur, faults, past>>

-----------------------------------------------------------------------------
(* Carrying out.  An outcome is what _apply_action reports.                 *)

Outcomes == {"applied", "ignored", "already", "skipped", "error"}
IsFault(o) == o \in {"ignored", "error"}

\* The value asked of a register, if the decision writes to it.
Asked(cap) == {cur.d.writes[n].value : n \in {m \in DOMAIN cur.d.writes : cur.d.writes[m].cap = cap}}

\* A register after a write with the outcome o; one that raised may have arrived.
After(cap, o) ==
    CASE Asked(cap) = {} \/ o \in {"skipped", "ignored"} -> {reg[cap]}
      [] Asked(cap) # {} /\ o \in {"applied", "already"} -> Asked(cap)
      [] OTHER -> {reg[cap]} \cup Asked(cap)

\* should_skip finds a register that has the value; the rate limit and the watchdog
\* skip others.
Possible(cap) ==
    {"skipped"} \cup (CASE Asked(cap) = {} -> {}
                       [] reg[cap] \in Asked(cap) -> {"already"}
                       [] OTHER -> Outcomes \ {"already"})

\* Mutant of _update_last_grid_charge_amps: what was asked for counts, written or not.
_update_last_grid_charge_amps_Asked(amps, shadow) ==
    IF Asked("amps") # {} THEN CHOOSE v \in Asked("amps") : TRUE
    ELSE CASE latest # NoPlan /\ shadow -> latest.amps
           [] latest # NoPlan /\ ~shadow /\ ~latest.enabled -> 0
           [] OTHER -> last

\* What the ramp starts from next: the current applied or found; else it falls back on
\* latest_decision, which still is the decision of the cycle before or, when that could
\* not be saved, of one before it; and which may be without a plan.
_update_last_grid_charge_amps(amps, shadow) ==
    CASE Asked("amps") # {} /\ amps \in {"applied", "ignored", "already"} ->
            CHOOSE v \in Asked("amps") : TRUE
      [] ~(Asked("amps") # {} /\ amps \in {"applied", "ignored", "already"}) ->
            CASE latest # NoPlan /\ shadow -> latest.amps
              [] latest # NoPlan /\ ~shadow /\ ~latest.enabled -> 0
              [] OTHER -> last

\* The end of the cycle, after so many faults in its writes: the decision is saved and
\* becomes latest_decision, or save_decision raises and latest_decision stays.  It is
\* saved if it says something new or was written; if not, the two say the same.
Close(met) ==
    /\ cur' = Nothing
    /\ \/ latest' = cur.d.plan /\ faults' = faults + met
       \/ latest' = latest /\ faults' = faults + met + 1
    /\ faults' <= MaxFaults
    /\ UNCHANGED <<C, prev, before>>

\* The loads after the shed actions, in order, when the writes arrive.
Switched ==
    {l \in Loads :
        LET mine == {n \in DOMAIN cur.d.shed : l \in cur.d.shed[n].loads}
        IN  IF mine = {} THEN l \in shed ELSE ~cur.d.shed[Max(mine)].on}

ShedWrites == shed' \in {shed, Switched}

\* In control: the switch is written before the current.
InControl(enable, amps) ==
    /\ cur # Nothing
    /\ Close((IF IsFault(enable) THEN 1 ELSE 0) + (IF IsFault(amps) THEN 1 ELSE 0))
    /\ \E e \in After("enable", enable), a \in After("amps", amps) :
          reg' = [enable |-> e, amps |-> a]
    /\ offs' = IF cur.d.plan = Off /\ latest' = Off THEN Least(2, offs + 1) ELSE 0
    /\ IF cur.d.writes = <<>> THEN UNCHANGED <<last, astray>>
       ELSE /\ last' = _update_last_grid_charge_amps(amps, FALSE)
            /\ astray' = IF Asked("amps") = {} \/ amps = "skipped" THEN astray
                         ELSE IsFault(amps)
    /\ ShedWrites

\* In shadow mode the registers are read, and the ramp follows the plans.
InShadow ==
    /\ cur # Nothing
    /\ IF cur.d.writes = <<>> THEN UNCHANGED <<last, astray>>
       ELSE /\ last' = _update_last_grid_charge_amps(
                           IF reg.amps \in Asked("amps") THEN "already" ELSE "skipped", TRUE)
            /\ astray' = (last' # reg.amps)
    /\ offs' = 0
    /\ Close(0) /\ UNCHANGED plant

\* Grid charge is paused: its writes are left out and nothing is remembered of them.
Paused ==
    /\ cur # Nothing
    /\ ShedWrites
    /\ offs' = 0
    /\ Close(0) /\ UNCHANGED <<last, reg, astray>>

\* The executor raises, with the switch written or both: the results are dropped.
ExecutorFails ==
    /\ cur # Nothing /\ cur.d.writes # <<>>
    /\ Close(1)
    /\ \E e \in After("enable", "error"), a \in After("amps", "error") :
          reg' = [enable |-> e, amps |-> a]
    /\ astray' = TRUE /\ offs' = 0
    /\ UNCHANGED <<last, shed>>

-----------------------------------------------------------------------------
(* Between cycles.                                                          *)

\* reload_config rebuilds the engine; the orchestrator's own memory stays.
Reload(c) ==
    /\ cur = Nothing /\ c # C
    /\ C' = c /\ prev' = Unknown /\ before' = Unknown
    /\ shed' = shed \cap UNION {c.tiers[n].loads : n \in DOMAIN c.tiers}
    /\ UNCHANGED <<last, latest, reg, cur, faults, offs, astray>>

\* A restart, in the middle of a decision or between two.
Restart ==
    /\ prev' = Unknown /\ last' = Unknown /\ latest' = NoPlan
    /\ cur' = Nothing /\ before' = Unknown /\ offs' = 0 /\ astray' = FALSE
    /\ UNCHANGED <<C, plant, faults>>

NextCycle ==
    \/ \E i \in Inputs : Decide(i)
    \/ simulate_decision
    \/ /\ cur # Nothing
       /\ \E enable \in Possible("enable"), amps \in Possible("amps") :
             InControl(enable, amps)
    \/ InShadow \/ Paused \/ ExecutorFails \/ Restart
    \/ \E c \in Configs : Reload(c)

SpecCycle == Init /\ [][NextCycle]_vars

-----------------------------------------------------------------------------
(* Properties.                                                              *)

TypeOK ==
    /\ C \in Configs
    /\ prev \in Nat \cup {Unknown} /\ before \in Nat \cup {Unknown}
    /\ last \in Nat \cup {Unknown}
    /\ latest.enabled \in BOOLEAN /\ latest.amps \in Nat \cup {Unknown}
    /\ reg.enable \in {0, 1} /\ reg.amps \in Nat
    /\ shed \subseteq Loads
    /\ cur = Nothing \/ (cur.i \in Inputs /\ cur.leff \in Nat)
    /\ faults \in 0..MaxFaults /\ offs \in 0..2 /\ astray \in BOOLEAN

SheddingOf(d) == UNION {d.shed[n].loads : n \in {m \in DOMAIN d.shed : ~d.shed[m].on}}

\* With less in the battery and everything else the same, the program never takes the
\* risk to be lower, never leaves more loads on, and never charges less: the eight
\* ceilings, the blending, the ramp and the tiers all move the same way (decide).  With
\* one exception: the ceiling of the solar bridge has no limit from the bridge up, and
\* close below it a quarter of the current (_eval_solar_bridge).
NeedIsMonotone ==
    cur # Nothing /\ Known(cur.i.tel.soc) =>
        LET bridge == compute_reserve(C, cur.i.fc, cur.leff).bridge
        IN  \A other \in {j.tel.soc : j \in Inputs} :
                Known(other) /\ other < cur.i.tel.soc =>
                    LET d == decide(C, [cur.i EXCEPT !.tel.soc = other], cur.leff, last, shed)
                    IN  /\ ~(other < bridge /\ bridge <= cur.i.tel.soc)
                              => d.plan.amps >= cur.d.plan.amps
                        /\ d.score >= cur.d.score
                        /\ SheddingOf(cur.d) \subseteq SheddingOf(d)

\* Whatever the solver makes of the horizon, a decision with the MPC is never less
\* careful than that of the rules alone: not in its reserve, its risk, or the current it
\* charges with (MPCEngine.decide, and the reserve in RuleEngine.decide).
MpcOnlyAdds ==
    cur # Nothing /\ C.mpc =>
        LET d == decide([C EXCEPT !.mpc = FALSE], cur.i, cur.leff, last, shed)
        IN  /\ cur.d.target >= d.target
            /\ cur.d.score >= d.score
            /\ cur.d.plan.amps >= d.plan.amps

\* A ramp that can climb from nothing to min_grid_charge_a in one step never charges
\* with less, wherever it starts from: the memory may come from before a reload, from a
\* lower import limit, from a pause or from shadow mode (compute_ramp_plan).
MinimumKept ==
    cur # Nothing /\ C.ramp /\ cur.i.ov.force = "auto" /\ cur.d.plan.enabled
    /\ C.step >= C.min /\ C.off > 0
        => cur.d.plan.amps >= Least(C.min, effective_max_grid_charge_a(C, cur.i.site))

\* After two live cycles in a row that planned to charge nothing, the first of which
\* left latest_decision saying so, the ramp starts from zero.  After one it may not: the
\* fallback of _update_last_grid_charge_amps reads latest_decision, which is the decision
\* of the cycle before, or an older one when save_decision raised; and a decision without
\* a plan for the grid charge takes nothing back.
RestartsFromZero == offs = 2 => last = 0

\* A decision is sound in itself: monotone, with an MPC that only adds, a minimum that
\* holds, and a memory that returns to zero.
DecisionSound ==
    TypeOK /\ NeedIsMonotone /\ MpcOnlyAdds /\ MinimumKept /\ RestartsFromZero

\* From one cycle to the next nothing jumps.  Unless the operator forces it, or the
\* memory was lost, unverified or taken from shadow plans, a cycle sets the inverter at
\* most one ramp step above the current it was set to, however many cycles were skipped,
\* paused or planned off in between.  And between two cycles that saw a load, the load
\* that the reserve is made for falls by a tenth at most, dry runs in between or not, and
\* never exceeds its cap.
StepsAreBounded ==
    [][ /\ (cur # Nothing /\ cur.i.ov.force = "auto" /\ C.ramp /\ Known(last) /\ ~astray)
              => reg'.amps <= reg.amps + C.step
        /\ (Known(before) /\ Known(before')) =>
              /\ before' >= Part(before, 9000)
              /\ before' <= Most(C.critical, C.cap) ]_vars
=============================================================================
