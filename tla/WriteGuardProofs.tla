--------------------------- MODULE WriteGuardProofs ---------------------------
(***************************************************************************)
(* Theorems about WriteGuard, for any currents, limits, interval, faults   *)
(* and any bound on their number.                                          *)
(***************************************************************************)
EXTENDS WriteGuard, TLAPS

LEMMA LimitIsPlannable ==
  /\ \A l \in Limits : l \in Settings("amps")
  /\ \A c \in Caps : 0 \in Settings(c) /\ Settings(c) \subseteq Values
  BY LimitsAssumption, AmpsAssumption DEF Values, Settings, Caps

LEMMA StrikeBound ==
  ASSUME faults \in 0..MaxFaults
  PROVE  /\ \A f : Strike(f) => faults' \in 0..MaxFaults
         /\ Keeps => faults' \in 0..MaxFaults
  BY GuardFaultsAssumption DEF Strike, Keeps

LEMMA NextCall ==
  ASSUME TypeOK, Report
  PROVE  /\ pc' \in {"idle", "gate", "write"}
         /\ kind' = kind
         /\ cur' \in Caps
         /\ want' \in Settings(cur')
         /\ own' = own
         /\ faults' \in 0..MaxFaults
<1>1. plan["amps"] \in Settings("amps") /\ limit \in Settings("amps")
  BY LimitIsPlannable DEF TypeOK, Plans, Caps
<1>2. QED
  BY <1>1, StrikeBound DEF Report, Proceed, TypeOK, Caps

(* A write puts a plannable value into its register.                       *)
LEMMA LandType ==
  ASSUME TypeOK, Land
  PROVE  reg' \in Plans /\ age' \in [Caps -> 0..Interval]
<1>1. want \in Values /\ cur \in Caps
  BY LimitIsPlannable DEF TypeOK
<1>2. reg' \in [Caps -> Values]
  BY <1>1 DEF TypeOK, Land, Plans
<1>3. \A c \in Caps : reg'[c] \in Settings(c)
  BY <1>1 DEF TypeOK, Land, Plans
<1>4. age' \in [Caps -> 0..Interval]
  BY IntervalAssumption DEF TypeOK, Land
<1>5. QED BY <1>2, <1>3, <1>4 DEF Plans

LEMMA DoneType == Done \in [Caps -> 0..Interval]
  BY IntervalAssumption DEF Done

LEMMA OlderType ==
  ASSUME NEW a \in [Caps -> 0..Interval]
  PROVE  /\ Older(a) \in [Caps -> 0..Interval]
         /\ \A c \in Caps : Older(a)[c] = IF a[c] < Interval THEN a[c] + 1 ELSE Interval
  BY IntervalAssumption DEF Older

(* Every variable keeps its type.                                          *)
THEOREM TypeCorrect == Spec => []TypeOK
<1>1. Init => TypeOK
  <2> SUFFICES ASSUME Init PROVE TypeOK
    OBVIOUS
  <2>1. plan \in Plans
    BY LimitIsPlannable DEF Init, Off, Plans
  <2>2. since \in [Caps -> 0..Interval] /\ old \in [Caps -> 0..Interval]
        /\ age \in [Caps -> 0..Interval]
    BY DoneType DEF Init
  <2>3. faults \in 0..MaxFaults
    BY GuardFaultsAssumption DEF Init
  <2>4. cur \in Caps /\ want \in Settings(cur)
    BY DEF Init, Caps, Settings
  <2>5. QED BY <2>1, <2>2, <2>3, <2>4 DEF Init, TypeOK
<1>2. TypeOK /\ [Next]_vars => TypeOK'
  <2> SUFFICES ASSUME TypeOK, [Next]_vars PROVE TypeOK'
    OBVIOUS
  <2> USE StrikeBound DEF TypeOK, Others, call, conf, past
  <2>1. ASSUME NEW k \in {"decision", "emergency"}, Begin(k) PROVE TypeOK'
    <3>1. plan["enable"] \in Settings("enable") /\ 1 \in Settings("enable")
          /\ "enable" \in Caps
      BY DEF Plans, Caps, Settings
    <3>2. QED BY <2>1, <3>1, DoneType DEF Begin
  <2>2. CASE Refuse \/ SkipWrite \/ Verify
    BY <2>2, NextCall DEF Refuse, SkipWrite, Verify
  <2>3. CASE Pass
    <3>1. Clamp(cur, want) \in Settings(cur)
      BY LimitIsPlannable DEF Clamp
    <3>2. QED BY <2>3, <3>1 DEF Pass
  <2>4. CASE Write \/ WriteFails
    BY <2>4, LandType DEF Write, WriteFails
  <2>5. CASE Record
    BY <2>5, IntervalAssumption DEF Record
  <2>6. ASSUME NEW p \in Plans, Replan(p) \/ Owner(p) PROVE TypeOK'
    BY <2>6 DEF Replan, Owner
  <2>7. CASE Tick
    BY <2>7, OlderType DEF Tick
  <2>8. CASE GoStale \/ HeardAgain
    BY <2>8 DEF GoStale, HeardAgain
  <2>9. ASSUME NEW l \in Limits, NEW e \in BOOLEAN, Rebuild(l, e) PROVE TypeOK'
    BY <2>9, DoneType DEF Rebuild
  <2>10. CASE UNCHANGED vars
    BY <2>10 DEF vars
  <2>11. QED
    BY <2>1, <2>2, <2>3, <2>4, <2>5, <2>6, <2>7, <2>8, <2>9, <2>10 DEF Next, Step
<1>3. QED
  BY <1>1, <1>2, PTL DEF Spec

-----------------------------------------------------------------------------
(* Whatever the inverter, HA and the database do, and whether or not hard  *)
(* bounds are enforced, no call is about to write a current above          *)
(* max_grid_charge_a: every way to a write clamps or asks for the limit,   *)
(* and a call that is under way keeps the limit it was begun with.         *)
THEOREM NeverAboveTheLimit == Spec => []BoundedWrites
<1>1. Init => BoundedWrites
  BY DEF Init, BoundedWrites
<1>2. TypeOK /\ BoundedWrites /\ [Next]_vars => BoundedWrites'
  <2> SUFFICES ASSUME TypeOK, BoundedWrites, [Next]_vars PROVE BoundedWrites'
    OBVIOUS
  <2>0. limit \in Nat /\ (cur = "amps" => want \in Nat)
    BY AmpsAssumption, LimitsAssumption DEF TypeOK, Settings
  <2> USE DEF BoundedWrites, Others, call, conf, past
  <2>1. ASSUME NEW k \in {"decision", "emergency"}, Begin(k) PROVE BoundedWrites'
    BY <2>1 DEF Begin
  <2>2. CASE Refuse \/ SkipWrite \/ Verify
    <3>1. Report /\ limit' = limit
      BY <2>2 DEF Refuse, SkipWrite, Verify
    <3>2. QED BY <3>1, <2>0 DEF Report, Proceed
  <2>3. CASE Pass
    BY <2>3, <2>0 DEF Pass, Clamp
  <2>4. CASE Write \/ WriteFails \/ Record
    BY <2>4 DEF Write, WriteFails, Record
  <2>5. ASSUME NEW p \in Plans, Replan(p) \/ Owner(p) PROVE BoundedWrites'
    BY <2>5 DEF Replan, Owner
  <2>6. CASE Tick \/ GoStale \/ HeardAgain
    BY <2>6 DEF Tick, GoStale, HeardAgain
  <2>7. ASSUME NEW l \in Limits, NEW e \in BOOLEAN, Rebuild(l, e)
        PROVE  BoundedWrites'
    BY <2>7 DEF Rebuild
  <2>8. CASE UNCHANGED vars
    BY <2>8 DEF vars
  <2>9. QED
    BY <2>1, <2>2, <2>3, <2>4, <2>5, <2>6, <2>7, <2>8 DEF Next, Step
<1>3. QED
  BY <1>1, <1>2, TypeCorrect, PTL DEF Spec

-----------------------------------------------------------------------------
(* Of a register that is not forgotten, the entry in the guard in use is   *)
(* no older than the write it stands for, except between a write and its   *)
(* record_write; a call that outlives its Executor goes by the old guard,  *)
(* so what it may write has not been written for long.                     *)
Recorded ==
  \A c \in Caps \ forgot :
    \/ pc = "record" /\ c = cur
    \/ own /\ since[c] <= age[c]
    \/ ~own /\ age[c] = Interval

(* Decisions leave min_write_interval_seconds between the writes of a      *)
(* register, through failed reads, errors, ignored writes, emergencies and *)
(* calls that outlive their Executor; only a write whose response was lost *)
(* or whose entry went with a replaced guard can be followed too soon.     *)
THEOREM WritesAreSpaced == Spec => []SpacedWrites
<1> DEFINE IInv == Recorded /\ SpacedWrites
<1>1. Init => IInv
  BY IntervalAssumption DEF Init, Recorded, SpacedWrites, Done
<1>2. TypeOK /\ IInv /\ [Next]_vars => IInv'
  <2> SUFFICES ASSUME TypeOK, IInv, [Next]_vars PROVE IInv'
    OBVIOUS
  <2>0. /\ cur \in Caps
        /\ \A c \in Caps : since[c] \in 0..Interval /\ age[c] \in 0..Interval
        /\ Interval \in Nat \ {0}
    BY IntervalAssumption DEF TypeOK
  <2> USE DEF Recorded, SpacedWrites, Others, call, conf, past
  <2>1. ASSUME NEW k \in {"decision", "emergency"}, Begin(k) PROVE IInv'
    BY <2>1, <2>0 DEF Begin
  <2>2. CASE Refuse \/ SkipWrite \/ Verify
    <3>1. /\ Report /\ pc \in {"gate", "verify"}
          /\ UNCHANGED <<since, age, forgot>>
      BY <2>2 DEF Refuse, SkipWrite, Verify
    <3>2. own' = own /\ pc' # "record" /\ (pc' = "write" => kind' # "decision")
      BY <3>1 DEF Report, Proceed
    <3>3. QED BY <3>1, <3>2
  <2>3. CASE Pass
    <3>1. own => ~(since[cur] < Interval)
      BY <2>3 DEF Pass, Skip, Mine
    <3>2. cur \notin forgot => age[cur] = Interval
      BY <2>3, <3>1, <2>0 DEF Pass
    <3>3. QED BY <2>3, <3>2 DEF Pass
  <2>4. CASE Write
    <3>1. \A c \in Caps \ {cur} : age'[c] = age[c]
      BY <2>4 DEF Write, Land, TypeOK
    <3>2. QED BY <2>4, <3>1 DEF Write
  <2>5. CASE WriteFails
    <3>1. \A c \in Caps \ {cur} : age'[c] = age[c]
      BY <2>5 DEF WriteFails, Land, TypeOK
    <3>2. age' = age \/ cur \in forgot'
      BY <2>5 DEF WriteFails
    <3>3. forgot \subseteq forgot' /\ UNCHANGED <<since, own, cur>>
      BY <2>5 DEF WriteFails
    <3>4. pc = "write" /\ pc' = "verify"
      BY <2>5 DEF WriteFails
    <3>5. QED BY <3>1, <3>2, <3>3, <3>4
  <2>6. CASE Record
    <3>1. CASE own
      <4>1. since' = [since EXCEPT ![cur] = 0] /\ forgot' = forgot \ {cur}
        BY <2>6, <3>1 DEF Record
      <4>2. \A c \in Caps \ forgot' : since'[c] <= age[c]
        BY <3>1, <4>1, <2>0 DEF TypeOK
      <4>3. QED BY <2>6, <3>1, <4>2 DEF Record
    <3>2. CASE ~own
      BY <2>6, <3>2 DEF Record
    <3>3. QED BY <3>1, <3>2
  <2>7. ASSUME NEW p \in Plans, Replan(p) \/ Owner(p) PROVE IInv'
    BY <2>7 DEF Replan, Owner
  <2>8. CASE Tick
    <3>1. \A c \in Caps :
            /\ since'[c] = IF since[c] < Interval THEN since[c] + 1 ELSE Interval
            /\ age'[c] = IF age[c] < Interval THEN age[c] + 1 ELSE Interval
      BY <2>8, OlderType DEF Tick, TypeOK
    <3>2. \A c \in Caps \ forgot' : c \notin forgot \/ age'[c] = Interval
      BY <2>8, <3>1, <2>0 DEF Tick
    <3>3. UNCHANGED call
      BY <2>8 DEF Tick
    <3>4. \A c \in Caps : since'[c] <= Interval
      BY <3>1, <2>0
    <3>5. Recorded'
      BY <3>1, <3>2, <3>3, <3>4, <2>0
    <3>6. SpacedWrites'
      BY <3>1, <3>2, <3>3, <2>0
    <3>7. QED BY <3>5, <3>6
  <2>9. CASE GoStale \/ HeardAgain
    BY <2>9 DEF GoStale, HeardAgain
  <2>10. ASSUME NEW l \in Limits, NEW e \in BOOLEAN, Rebuild(l, e) PROVE IInv'
    BY <2>10, <2>0 DEF Rebuild
  <2>11. CASE UNCHANGED vars
    BY <2>11 DEF vars
  <2>12. QED
    BY <2>1, <2>2, <2>3, <2>4, <2>5, <2>6, <2>7, <2>8, <2>9, <2>10, <2>11
       DEF Next, Step
<1>3. IInv => SpacedWrites
  OBVIOUS
<1>4. QED
  BY <1>1, <1>2, <1>3, TypeCorrect, PTL DEF Spec

-----------------------------------------------------------------------------
(* A call asks its guard for what was decided: the plan does not change    *)
(* under it.                                                               *)
Asked == pc = "gate" => want = plan[cur]

(* With hard bounds enforced a decision is written as decided or not at    *)
(* all: what passes violates no bound, so the clamp leaves it alone, and a *)
(* configuration that starts to enforce them only replaces the guard       *)
(* between calls (Executor._apply_action, _build_engine_components).       *)
THEOREM RefusedNotBent == Spec => []RefusesRatherThanBends
<1> DEFINE IInv == Asked /\ RefusesRatherThanBends
<1>1. Init => IInv
  BY DEF Init, Asked, RefusesRatherThanBends
<1>2. IInv /\ [Next]_vars => IInv'
  <2> SUFFICES ASSUME IInv, [Next]_vars PROVE IInv'
    OBVIOUS
  <2> USE DEF Asked, RefusesRatherThanBends, Others, call, conf, past
  <2>1. ASSUME NEW k \in {"decision", "emergency"}, Begin(k) PROVE IInv'
    BY <2>1 DEF Begin
  <2>2. CASE Refuse \/ SkipWrite \/ Verify
    <3>1. Report /\ pc \in {"gate", "verify"} /\ UNCHANGED <<plan, conf>>
      BY <2>2 DEF Refuse, SkipWrite, Verify
    <3>2. QED BY <3>1 DEF Report, Proceed
  <2>3. CASE Pass
    <3>1. enforce => Clamp(cur, want) = want
      BY <2>3 DEF Pass, Violates, Clamp
    <3>2. QED BY <2>3, <3>1 DEF Pass
  <2>4. CASE Write \/ WriteFails \/ Record
    BY <2>4 DEF Write, WriteFails, Record
  <2>5. ASSUME NEW p \in Plans, Replan(p) \/ Owner(p) PROVE IInv'
    BY <2>5 DEF Replan, Owner
  <2>6. CASE Tick \/ GoStale \/ HeardAgain
    BY <2>6 DEF Tick, GoStale, HeardAgain
  <2>7. ASSUME NEW l \in Limits, NEW e \in BOOLEAN, Rebuild(l, e) PROVE IInv'
    BY <2>7 DEF Rebuild
  <2>8. CASE UNCHANGED vars
    BY <2>8 DEF vars
  <2>9. QED
    BY <2>1, <2>2, <2>3, <2>4, <2>5, <2>6, <2>7, <2>8 DEF Next, Step
<1>3. IInv => RefusesRatherThanBends
  OBVIOUS
<1>4. QED
  BY <1>1, <1>2, <1>3, PTL DEF Spec
=============================================================================
