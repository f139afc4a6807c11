------------------------------ MODULE WriteGuard ------------------------------
(***************************************************************************)
(* How a grid-charge decision reaches the inverter: Executor._apply_action *)
(* and _apply_emergency_writes, screened by SafetyGuard, for the two       *)
(* capabilities of a decision, over an HA that may fail at every call.     *)
(*                                                                         *)
(* Time is kept as ages that stop counting at Interval, which is           *)
(* min_write_interval_seconds: nothing in the code tells older from        *)
(* younger beyond it.  pc names the await a call has reached:              *)
(*                                                                         *)
(*   gate -> write -> record -> verify            for a decision           *)
(*           write -> record -> verify            for an emergency         *)
(*                                                                         *)
(* and then the same for the next capability.  Calls do not overlap, but   *)
(* _reconnect_ha can replace the Executor, and with it the SafetyGuard,    *)
(* while a call of the old one is in progress.  In shadow mode nothing is  *)
(* written or recorded and there is nothing to model.                      *)
(***************************************************************************)
EXTENDS Integers

CONSTANTS
  Amps,      \* charge currents that may be planned, in units of 0.25 A
  Limits,    \* the values max_grid_charge_a may take
  Interval,  \* min_write_interval_seconds
  Faults, MaxFaults

FaultKinds == { "read",    \* read_capability fails
                "error",   \* apply raises and nothing was written
                "lost",    \* apply raises although the inverter was written
                "ignored", \* apply returns although nothing was written
                "db",      \* the audit row cannot be saved
                "owner",   \* somebody else sets the register
                "stale",   \* HA has not been heard of for too long
                "rebuild"} \* the Executor is replaced

ASSUME AmpsAssumption == Amps \subseteq Nat /\ 0 \in Amps
ASSUME LimitsAssumption == Limits \subseteq Amps
ASSUME IntervalAssumption == Interval \in Nat \ {0}
ASSUME GuardFaultsAssumption ==
  Faults \subseteq FaultKinds /\ MaxFaults \in Nat

Caps    == {"enable", "amps"}
Values  == Amps \union {0, 1}
Unknown == -1
Settings(c) == IF c = "enable" THEN {0, 1} ELSE Amps
Plans   == {p \in [Caps -> Values] : \A c \in Caps : p[c] \in Settings(c)}

VARIABLES
  reg,      \* the registers of the inverter
  plan,     \* the values the current decision asks for
  limit,    \* max_grid_charge_a
  enforce,  \* control.enforce_hard_bounds
  since,    \* SafetyGuard._last_write: the age of the entry; its value only
            \* tells which of two reasons for the same refusal is given
  old,      \* the same in the guard of a replaced Executor whose call goes on
  stale,    \* HAClient.is_stale
  pc, kind, cur, want, \* the call in progress, and the value it writes
  own,      \* whether the call still belongs to the live Executor
  faults,
  age,      \* history: the time since the register was really written by us
  forgot    \* history: the registers written less than Interval ago of whose
            \* last write the guard in use holds no entry

call == <<pc, kind, cur, want, own>>
conf == <<limit, enforce>>
past == <<age, forgot>>
vars == <<reg, plan, limit, enforce, since, old, stale, pc, kind, cur, want,
          own, faults, age, forgot>>

TypeOK ==
  /\ reg \in Plans
  /\ plan \in Plans
  /\ limit \in Limits
  /\ enforce \in BOOLEAN
  /\ since \in [Caps -> 0..Interval]
  /\ old \in [Caps -> 0..Interval]
  /\ stale \in BOOLEAN
  /\ pc \in {"idle", "gate", "write", "record", "verify"}
  /\ kind \in {"decision", "emergency"}
  /\ cur \in Caps
  /\ want \in Settings(cur)
  /\ own \in BOOLEAN
  /\ faults \in 0..MaxFaults
  /\ age \in [Caps -> 0..Interval]
  /\ forgot \subseteq Caps

Off  == [c \in Caps |-> 0]
Done == [c \in Caps |-> Interval]

Init ==
  /\ reg \in Plans
  /\ plan = Off
  /\ limit \in Limits /\ enforce \in BOOLEAN
  /\ since = Done /\ old = Done
  /\ stale = FALSE
  /\ pc = "idle" /\ kind = "decision" /\ cur = "enable" /\ want = 0
  /\ own = TRUE
  /\ faults = 0
  /\ age = Done /\ forgot = {}

Strike(f) == f \in Faults /\ faults < MaxFaults /\ faults' = faults + 1
Keeps     == UNCHANGED faults

-----------------------------------------------------------------------------
(* SafetyGuard.                                                            *)

(* _equal: amps within half an amp of each other are the same.             *)
Equal(c, a, b) == IF c = "enable" THEN a = b ELSE -2 < a - b /\ a - b < 2

(* Mutant of Violates: out of bounds is never a reason to refuse.          *)
Violates_Never(c, v) == FALSE

Violates(c, v) == enforce /\ c = "amps" /\ v > limit

(* Mutant of Clamp: the value goes through as it is.                       *)
Clamp_Identity(c, v) == v

Clamp(c, v) == IF c = "amps" /\ v > limit THEN limit ELSE v

(* The guard the call in progress asks.                                    *)
Mine == IF own THEN since ELSE old

(* Mutant of Skip: an interval that has just passed still counts.          *)
Skip_OffByOne(c, v, now) ==
  \/ now # Unknown /\ Equal(c, v, now)
  \/ Mine[c] <= Interval

(* should_skip on what was read (Unknown: the read failed).                *)
Skip(c, v, now) ==
  \/ now # Unknown /\ Equal(c, v, now)
  \/ Mine[c] < Interval

-----------------------------------------------------------------------------
(* A call, capability by capability.                                       *)

Others == <<reg, plan, conf, since, old, stale, past>>

(* A cycle carries out its decision, the current after the switch; the     *)
(* kill switch and the shutdown ask for charging at the limit.             *)
Begin(k) ==
  /\ pc = "idle"
  /\ kind' = k /\ cur' = "enable" /\ own' = TRUE /\ old' = Done
  /\ IF k = "decision"
     THEN pc' = "gate" /\ want' = plan["enable"]
     ELSE pc' = "write" /\ want' = 1
  /\ Keeps /\ UNCHANGED <<reg, plan, conf, since, stale, past>>

(* On to the next capability, or to the end of the call.                   *)
Proceed ==
  IF cur = "amps"
  THEN pc' = "idle" /\ UNCHANGED <<kind, cur, want, own>>
  ELSE /\ cur' = "amps"
       /\ IF kind = "decision"
          THEN pc' = "gate" /\ want' = plan["amps"]
          ELSE pc' = "write" /\ want' = limit
       /\ UNCHANGED <<kind, own>>

(* The audit row of the result is saved; when that fails, the rest of the  *)
(* call is given up.                                                       *)
Report ==
  \/ Proceed /\ Keeps
  \/ Strike("db") /\ pc' = "idle" /\ UNCHANGED <<kind, cur, want, own>>

(* Rejected, refused by the watchdog, or skipped.                          *)
Refuse ==
  /\ pc = "gate"
  /\ Violates(cur, want) \/ stale
  /\ Report
  /\ UNCHANGED Others

SkipWrite ==
  /\ pc = "gate" /\ ~Violates(cur, want) /\ ~stale
  /\ Skip(cur, Clamp(cur, want), reg[cur])
  /\ Report
  /\ UNCHANGED Others

Pass ==
  /\ pc = "gate" /\ ~Violates(cur, want) /\ ~stale
  /\ \/ ~Skip(cur, Clamp(cur, want), reg[cur]) /\ Keeps
     \/ ~Skip(cur, Clamp(cur, want), Unknown) /\ Strike("read")
  /\ pc' = "write" /\ want' = Clamp(cur, want)
  /\ UNCHANGED <<Others, kind, cur, own>>

Land == /\ reg' = [reg EXCEPT ![cur] = want]
        /\ age' = [age EXCEPT ![cur] = 0]

Write ==
  /\ pc = "write"
  /\ \/ Land /\ Keeps
     \/ Strike("ignored") /\ UNCHANGED <<reg, age>>
  /\ pc' = "record"
  /\ UNCHANGED <<forgot, plan, conf, since, old, stale, kind, cur, want, own>>

(* Mutant of Record: emergency writes are not recorded.                    *)
Record_DecisionOnly ==
  /\ pc = "record"
  /\ since' = IF kind = "decision" THEN [since EXCEPT ![cur] = 0] ELSE since
  /\ forgot' = forgot \ {cur} /\ UNCHANGED old
  /\ pc' = "verify"
  /\ Keeps /\ UNCHANGED <<reg, plan, conf, stale, kind, cur, want, own, age>>

(* record_write, in the guard of the Executor that made the call.          *)
Record ==
  /\ pc = "record"
  /\ IF own
     THEN /\ since' = [since EXCEPT ![cur] = 0] /\ UNCHANGED old
          /\ forgot' = forgot \ {cur}
     ELSE /\ old' = [old EXCEPT ![cur] = 0] /\ UNCHANGED since
          /\ forgot' = forgot \union {cur}
  /\ pc' = "verify"
  /\ Keeps /\ UNCHANGED <<reg, plan, conf, stale, kind, cur, want, own, age>>

WriteFails ==
  /\ pc = "write"
  /\ \/ Strike("error") /\ UNCHANGED <<reg, past>>
     \/ Strike("lost") /\ Land /\ forgot' = forgot \union {cur}
  /\ pc' = "verify"
  /\ UNCHANGED <<plan, conf, since, old, stale, kind, cur, want, own>>

(* The read-back only decides what is reported.                            *)
Verify ==
  /\ pc = "verify"
  /\ Report
  /\ UNCHANGED Others

-----------------------------------------------------------------------------
(* The surroundings.                                                       *)

Replan(p) ==
  /\ pc = "idle"
  /\ plan' = p
  /\ Keeps /\ UNCHANGED <<reg, conf, since, old, stale, call, past>>

Older(a) == [c \in Caps |-> IF a[c] < Interval THEN a[c] + 1 ELSE a[c]]

Tick ==
  /\ since' = Older(since) /\ old' = Older(old) /\ age' = Older(age)
  /\ forgot' = {c \in forgot : age'[c] < Interval}
  /\ Keeps /\ UNCHANGED <<reg, plan, conf, stale, call>>

Owner(r) ==
  /\ Strike("owner")
  /\ reg' = r
  /\ UNCHANGED <<plan, conf, since, old, stale, call, past>>

GoStale ==
  /\ Strike("stale")
  /\ stale' = TRUE
  /\ UNCHANGED <<reg, plan, conf, since, old, call, past>>

HeardAgain ==
  /\ stale
  /\ stale' = FALSE
  /\ Keeps /\ UNCHANGED <<reg, plan, conf, since, old, call, past>>

(* _build_engine_components: a new Executor with a new SafetyGuard.  From  *)
(* reload_config between calls, with a new configuration; from             *)
(* _reconnect_ha at any moment, with the configuration as it is.           *)
Rebuild(l, e) ==
  /\ Strike("rebuild")
  /\ pc = "idle" \/ <<l, e>> = conf
  /\ limit' = l /\ enforce' = e
  /\ since' = Done
  /\ old' = IF own /\ pc # "idle" THEN since ELSE old
  /\ own' = FALSE
  /\ forgot' = {c \in Caps : age[c] < Interval}
  /\ UNCHANGED <<reg, plan, stale, pc, kind, cur, want, age>>

Step == Refuse \/ SkipWrite \/ Pass \/ Write \/ Record \/ WriteFails \/ Verify

Next ==
  \/ Step
  \/ Begin("decision") \/ Begin("emergency")
  \/ \E p \in Plans : Replan(p)
  \/ \E r \in Plans : Owner(r)
  \/ Tick \/ GoStale \/ HeardAgain
  \/ \E l \in Limits, e \in BOOLEAN : Rebuild(l, e)

Spec == Init /\ [][Next]_vars

(* Cycles go on, their awaits end, time passes, HA comes back.             *)
Fairness ==
  /\ WF_vars(Step) /\ WF_vars(Begin("decision"))
  /\ WF_vars(Tick) /\ WF_vars(HeardAgain)

FairSpec == Spec /\ Fairness

-----------------------------------------------------------------------------
(* Properties.                                                             *)

(* "EEPROM write-rate limiting": a decision comes to a write only when the *)
(* inverter has not been written for min_write_interval_seconds, by        *)
(* another decision or by an emergency, as far as the guard in use can     *)
(* know: excepted are the writes whose response was lost and those entered *)
(* in a guard since replaced.                                              *)
SpacedWrites ==
  pc = "write" /\ kind = "decision" /\ cur \notin forgot => age[cur] = Interval

(* No call, emergencies included, is about to write a current above the    *)
(* configured maximum, whichever of rejecting and clamping is in force.    *)
BoundedWrites == pc = "write" /\ cur = "amps" => want <= limit

(* "When in doubt, it refuses to write": with hard bounds enforced, what   *)
(* is written is what was decided, never a value bent to fit.              *)
RefusesRatherThanBends ==
  pc = "write" /\ kind = "decision" /\ enforce => want = plan[cur]

(* Whatever finitely many faults did, a decision that stands is in the     *)
(* end what the inverter holds: no refusal is for good.                    *)
Settles ==
  \A p \in Plans :
    <>[](plan = p /\ kind = "decision" /\ ~Violates("amps", p["amps"]))
      => <>[](\A c \in Caps : Equal(c, reg[c], Clamp(c, p[c])))
=============================================================================
