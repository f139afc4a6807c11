------------------------- MODULE ShedExecutorProofs -------------------------
(***************************************************************************)
(* Theorems about ShedExecutor, for every set of loads, every choice of    *)
(* faults and every bound on their number.                                 *)
(***************************************************************************)
EXTENDS ShedExecutor, TLAPS

(* A step of the specification, action by action.  Each preservation proof *)
(* below splits on these disjuncts.                                        *)
LEMMA NextSplit ==
  ASSUME Next
  PROVE  \/ \E l \in Loads : BeginShed(l)
         \/ \E l \in Loads : BeginRestore(l)
         \/ \E l \in Loads : ForgetWasOff(l)
         \/ KeepSnapshot \/ ReadForSnapshot \/ StoreSnapshot
         \/ RefuseStale \/ Check
         \/ Write \/ WriteError \/ WriteResponseLost \/ WriteIgnored
         \/ RestoreCompanions \/ ClearSnapshot
         \/ \E plan \in SUBSET Loads : Replan(plan)
         \/ \E l \in Loads, to \in Switch : OwnerSwitch(l, to)
         \/ \E l \in Loads : Expire(l)
         \/ GoStale \/ HeardAgain \/ Restart
         \/ \E kept \in SUBSET Loads : Reload(kept)
  BY DEF Next, Step

(* A fault leaves the count of faults within its bound. *)
LEMMA StrikeBound ==
  ASSUME NEW f, faults \in 0..MaxFaults, Strike(f)
  PROVE  faults' \in 0..MaxFaults
  BY MaxFaultsAssumption DEF Strike

(* Saving a well-typed map leaves a well-typed store. *)
LEMMA SaveType ==
  ASSUME NEW new \in [Loads -> Snapshot], TypeOK, Save(new)
  PROVE  /\ snap' \in [Loads -> Snapshot]
         /\ disk' \in [Loads -> Snapshot]
         /\ faults' \in 0..MaxFaults
         /\ doubt' \subseteq Loads
  BY StrikeBound DEF Save, Deceives, luck, TypeOK

(* Every variable keeps its type, whatever fails. *)
THEOREM TypeCorrect == Spec => []TypeOK
<1>1. Init => TypeOK
  <2> SUFFICES ASSUME Init PROVE TypeOK
    OBVIOUS
  <2>1. 0 \in 0..MaxFaults
    BY MaxFaultsAssumption
  <2>2. NoneSaved \in [Loads -> {"none"}]
    BY DEF NoneSaved
  <2>3. QED BY <2>1, <2>2 DEF Init, TypeOK, Switch, Snapshot, PC
<1>2. TypeOK /\ [Next]_vars => TypeOK'
  <2> SUFFICES ASSUME TypeOK, [Next]_vars PROVE TypeOK'
    OBVIOUS
  <2> USE DEF TypeOK, house, store, call, luck, Harmless, Deceives, Switch,
              Snapshot, PC
  <2>1. CASE \E l \in Loads : BeginShed(l) \/ BeginRestore(l)
    BY <2>1 DEF BeginShed, BeginRestore
  <2>2. ASSUME NEW l \in Loads, ForgetWasOff(l) PROVE TypeOK'
    <3>1. [snap EXCEPT ![l] = "none"] \in [Loads -> Snapshot]
      OBVIOUS
    <3>2. QED BY <2>2, <3>1, SaveType DEF ForgetWasOff
  <2>3. CASE KeepSnapshot \/ RefuseStale
    BY <2>3 DEF KeepSnapshot, RefuseStale
  <2>4. CASE ReadForSnapshot
    BY <2>4, StrikeBound DEF ReadForSnapshot
  <2>5. CASE StoreSnapshot
    <3>1. [snap EXCEPT ![cur] = seen] \in [Loads -> Snapshot]
      OBVIOUS
    <3>2. QED BY <2>5, <3>1, SaveType DEF StoreSnapshot
  <2>6. CASE Check
    <3>1. pc' \in PC
      BY <2>6 DEF Check
    <3>2. faults' \in 0..MaxFaults
      BY <2>6, StrikeBound DEF Check
    <3>3. QED BY <2>6, <3>1, <3>2 DEF Check
  <2>7. CASE Write
    BY <2>7 DEF Write, AfterWrite, Move, Owe
  <2>8. CASE WriteError
    BY <2>8, StrikeBound DEF WriteError
  <2>9. CASE WriteResponseLost
    BY <2>9, StrikeBound DEF WriteResponseLost, Move, Owe
  <2>10. CASE WriteIgnored
    BY <2>10, StrikeBound DEF WriteIgnored, AfterWrite
  <2>11. CASE RestoreCompanions
    BY <2>11, StrikeBound DEF RestoreCompanions
  <2>12. CASE ClearSnapshot
    <3>1. [snap EXCEPT ![cur] = "none"] \in [Loads -> Snapshot]
      OBVIOUS
    <3>2. QED BY <2>12, <3>1, SaveType DEF ClearSnapshot
  <2>13. ASSUME NEW plan \in SUBSET Loads, Replan(plan) PROVE TypeOK'
    BY <2>13 DEF Replan
  <2>14. ASSUME NEW l \in Loads, NEW to \in Switch, OwnerSwitch(l, to)
         PROVE TypeOK'
    BY <2>14, StrikeBound DEF OwnerSwitch, Move
  <2>15. ASSUME NEW l \in Loads, Expire(l) PROVE TypeOK'
    BY <2>15 DEF Expire
  <2>16. CASE GoStale \/ HeardAgain
    BY <2>16, StrikeBound DEF GoStale, HeardAgain
  <2>17. CASE Restart
    BY <2>17, StrikeBound DEF Restart, NoneSaved
  <2>18. ASSUME NEW kept \in SUBSET Loads, Reload(kept) PROVE TypeOK'
    BY <2>18, StrikeBound DEF Reload, NoneSaved
  <2>19. CASE UNCHANGED vars
    BY <2>19 DEF vars
  <2>20. QED
    BY <2>1, <2>2, <2>3, <2>4, <2>5, <2>6, <2>7, <2>8, <2>9, <2>10, <2>11,
       <2>12, <2>13, <2>14, <2>15, <2>16, <2>17, <2>18, <2>19, NextSplit
<1>3. QED
  BY <1>1, <1>2, PTL DEF Spec
-----------------------------------------------------------------------------
(* What the program counter knows whatever fails: a restore under way has  *)
(* its snapshot, and a snapshot being stored replaces none.                *)
CallInv ==
  /\ pc \in {"capture", "store"} => goal = "off"
  /\ pc = "store" => snap[cur] = "none"
  /\ pc \in {"gate", "write"} /\ goal = "on" => WasOn(snap[cur])

LEMMA CallInvInit == Init => CallInv
  BY DEF Init, CallInv

LEMMA CallInvStep ==
  ASSUME TypeOK, CallInv, [Next]_vars
  PROVE  CallInv'
<1> USE DEF CallInv, house, store, call, luck
<1>1. CASE \E l \in Loads : BeginShed(l) \/ BeginRestore(l) \/ ForgetWasOff(l)
  BY <1>1 DEF BeginShed, BeginRestore, ForgetWasOff
<1>2. CASE KeepSnapshot \/ RefuseStale
  BY <1>2 DEF KeepSnapshot, RefuseStale
<1>3. CASE ReadForSnapshot
  BY <1>3 DEF ReadForSnapshot
<1>4. CASE StoreSnapshot
  BY <1>4 DEF StoreSnapshot
<1>5. CASE Check
  BY <1>5 DEF Check
<1>6. CASE Write \/ WriteIgnored
  BY <1>6 DEF Write, WriteIgnored, AfterWrite
<1>7. CASE WriteError \/ WriteResponseLost
  BY <1>7 DEF WriteError, WriteResponseLost
<1>8. CASE RestoreCompanions
  BY <1>8 DEF RestoreCompanions
<1>9. CASE ClearSnapshot
  BY <1>9 DEF ClearSnapshot
<1>10. CASE \E plan \in SUBSET Loads : Replan(plan)
  BY <1>10 DEF Replan
<1>11. CASE \/ \E l \in Loads, to \in Switch : OwnerSwitch(l, to)
            \/ \E l \in Loads : Expire(l)
            \/ GoStale \/ HeardAgain
  BY <1>11 DEF OwnerSwitch, Expire, GoStale, HeardAgain
<1>12. CASE Restart \/ \E kept \in SUBSET Loads : Reload(kept)
  BY <1>12 DEF Restart, Reload
<1>13. CASE UNCHANGED vars
  BY <1>13 DEF vars
<1>14. QED
  BY <1>1, <1>2, <1>3, <1>4, <1>5, <1>6, <1>7, <1>8, <1>9, <1>10, <1>11,
     <1>12, <1>13, NextSplit

LEMMA CallInvHolds == Spec => [](TypeOK /\ CallInv)
<1>1. Init => CallInv
  BY CallInvInit
<1>2. TypeOK /\ CallInv /\ [Next]_vars => CallInv'
  BY CallInvStep
<1>3. QED
  BY <1>1, <1>2, TypeCorrect, PTL DEF Spec

(* Whatever fails, the executor switches a load on only while it holds a   *)
(* snapshot taken when that load was on.                                   *)
THEOREM RestoresOnlyRecordedLoads == Spec => RestoreNeedsSnapshot
<1>1. TypeOK /\ CallInv /\ [Next]_vars
      => [\A l \in Loads : SwitchesOn(l) => WasOn(snap[l])]_vars
  <2> SUFFICES ASSUME TypeOK, CallInv, Next,
                      NEW l \in Loads, SwitchesOn(l)
               PROVE  WasOn(snap[l])
    OBVIOUS
  <2>1. CASE Write \/ WriteResponseLost
    <3>1. power' = [power EXCEPT ![cur] = goal] /\ pc = "write"
      BY <2>1 DEF Write, WriteResponseLost, Move
    <3>2. l = cur /\ goal = "on"
      BY <3>1 DEF SwitchesOn, TypeOK, Switch
    <3>3. QED BY <3>1, <3>2 DEF CallInv
  <2>2. CASE \E m \in Loads, to \in Switch : OwnerSwitch(m, to)
    BY <2>2 DEF OwnerSwitch, call, SwitchesOn
  <2>3. CASE ~(Write \/ WriteResponseLost)
             /\ ~(\E m \in Loads, to \in Switch : OwnerSwitch(m, to))
    <3>1. UNCHANGED power
      BY <2>3, NextSplit
         DEF house, BeginShed, BeginRestore, ForgetWasOff, KeepSnapshot,
             ReadForSnapshot, StoreSnapshot, RefuseStale, Check, WriteError,
             WriteIgnored, RestoreCompanions, ClearSnapshot, Replan, Expire,
             GoStale, HeardAgain, Restart, Reload
    <3>2. QED BY <3>1 DEF SwitchesOn
  <2>4. QED BY <2>1, <2>2, <2>3
<1>2. QED
  BY <1>1, CallInvHolds, PTL DEF Spec, RestoreNeedsSnapshot

(* Whatever fails, a pending snapshot is kept until it is cleared or       *)
(* pruned, or a restart goes back to the file: what a shed stores replaces *)
(* nothing, although it was read two awaits earlier.                       *)
THEOREM SnapshotsCapturedOnce == Spec => CaptureOnce
<1> DEFINE Kept(l) == snap[l] # "none" /\ snap'[l] # snap[l]
                        => snap'[l] = "none" \/ snap' = disk
<1>1. TypeOK /\ CallInv /\ [Next]_vars => [\A l \in Loads : Kept(l)]_vars
  <2> SUFFICES ASSUME TypeOK, CallInv, Next, NEW l \in Loads PROVE Kept(l)
    OBVIOUS
  <2>1. ASSUME NEW m \in Loads, NEW s \in Snapshot, snap' = [snap EXCEPT ![m] = s]
        PROVE  snap'[l] = IF l = m THEN s ELSE snap[l]
    BY <2>1 DEF TypeOK
  <2>2. ASSUME NEW m \in Loads, ForgetWasOff(m) PROVE Kept(l)
    BY <2>1, <2>2 DEF ForgetWasOff, Save, Snapshot
  <2>3. CASE StoreSnapshot
    <3>1. snap' = [snap EXCEPT ![cur] = seen] /\ snap[cur] = "none"
      BY <2>3 DEF StoreSnapshot, Save, CallInv
    <3>2. snap'[l] = IF l = cur THEN seen ELSE snap[l]
      BY <2>1, <3>1 DEF TypeOK
    <3>3. QED BY <3>1, <3>2
  <2>4. CASE ClearSnapshot
    <3>1. snap'[l] = IF l = cur THEN "none" ELSE snap[l]
      BY <2>1, <2>4 DEF ClearSnapshot, Save, TypeOK, Snapshot
    <3>2. QED BY <3>1
  <2>5. CASE Restart \/ \E kept \in SUBSET Loads : Reload(kept)
    BY <2>5 DEF Restart, Reload, TypeOK
  <2>6. CASE /\ ~(\E m \in Loads : ForgetWasOff(m))
             /\ ~StoreSnapshot /\ ~ClearSnapshot /\ ~Restart
             /\ ~(\E kept \in SUBSET Loads : Reload(kept))
    <3>1. UNCHANGED snap
      BY <2>6, NextSplit
         DEF store, BeginShed, BeginRestore, KeepSnapshot, ReadForSnapshot,
             RefuseStale, Check, Write, WriteError, WriteResponseLost,
             WriteIgnored, RestoreCompanions, Replan, OwnerSwitch, Expire,
             GoStale, HeardAgain
    <3>2. QED BY <3>1
  <2>7. QED BY <2>2, <2>3, <2>4, <2>5, <2>6
<1>2. QED
  BY <1>1, CallInvHolds, PTL DEF Spec, CaptureOnce

-----------------------------------------------------------------------------
(* Of a load nothing is doubted about: memory and file agree, the record   *)
(* of the last write tells where the switch is, a snapshot never           *)
(* understates a load that is on, a load is recorded as on and is off      *)
(* exactly when it is owed, and a call knows the switch it is about to     *)
(* move or to forget.                                                      *)
Sure(l) ==
  /\ snap[l] = disk[l]
  /\ snap[l] = "off" => power[l] = "off"
  /\ recent[l] # "none" => recent[l] = power[l]
  /\ l \in owed => WasOn(snap[l])
  /\ WasOn(snap[l]) /\ power[l] = "off" => l \in owed
  /\ l = cur =>
       /\ pc = "store" => seen # "none" /\ (seen = "off" <=> power[cur] = "off")
       /\ pc \in {"gate", "write"} /\ goal = "off" => snap[cur] # "none"
       /\ pc \in {"companions", "clear"} => goal = "on" /\ power[cur] = "on"

RecoveryInv ==
  /\ \A l \in owed : power[l] = "off"
  /\ \A l \in Loads \ doubt : Sure(l)

LEMMA RecoveryInit == Init => RecoveryInv
  BY DEF Init, RecoveryInv, Sure, NoneSaved, Switch, WasOn

(* An owed load is off: this needs no exception.                           *)
LEMMA OwedOff ==
  ASSUME TypeOK, \A l \in owed : power[l] = "off", [Next]_vars
  PROVE  \A l \in owed' : power'[l] = "off"
<1> USE DEF house, TypeOK
<1>1. CASE Write \/ WriteResponseLost
  BY <1>1 DEF Write, WriteResponseLost, Move, Owe, Switch
<1>2. CASE \E l \in Loads, to \in Switch : OwnerSwitch(l, to)
  BY <1>2 DEF OwnerSwitch, Move, Switch
<1>3. CASE \E kept \in SUBSET Loads : Reload(kept)
  BY <1>3 DEF Reload
<1>4. CASE ~(Write \/ WriteResponseLost)
           /\ ~(\E l \in Loads, to \in Switch : OwnerSwitch(l, to))
           /\ ~(\E kept \in SUBSET Loads : Reload(kept))
  <2>1. UNCHANGED <<power, owed>>
    BY <1>4, NextSplit
       DEF BeginShed, BeginRestore, ForgetWasOff, KeepSnapshot,
           ReadForSnapshot, StoreSnapshot, RefuseStale, Check, WriteError,
           WriteIgnored, RestoreCompanions, ClearSnapshot, Replan, Expire,
           GoStale, HeardAgain, Restart, vars
  <2>2. QED BY <2>1
<1>5. QED BY <1>1, <1>2, <1>3, <1>4

(* A load is put beyond doubt only by a shed that finds it plain.          *)
LEMMA RecoveryStep ==
  ASSUME TypeOK, CallInv, RecoveryInv, [Next]_vars
  PROVE  RecoveryInv'
<1> USE DEF house, store, call, luck, WasOn, Sure, Harmless
<1>0. SUFFICES ASSUME NEW l \in Loads, l \notin doubt' PROVE Sure(l)'
  BY OwedOff DEF RecoveryInv
<1>o. \A m \in owed : power[m] = "off"
  BY DEF RecoveryInv
<1>1. CASE \E m \in Loads : BeginShed(m)
  <2>1. CASE l \in doubt
    BY <1>0, <1>1, <2>1 DEF BeginShed, Plain
  <2>2. CASE l \notin doubt
    BY <1>1, <2>2 DEF BeginShed, RecoveryInv
  <2>3. QED BY <2>1, <2>2
<1>2. CASE ~\E m \in Loads : BeginShed(m)
  <2>1. l \notin doubt
    BY <1>0, <1>2, NextSplit
       DEF BeginRestore, ForgetWasOff, KeepSnapshot, ReadForSnapshot,
           StoreSnapshot, RefuseStale, Check, Write, WriteError,
           WriteResponseLost, WriteIgnored, RestoreCompanions, ClearSnapshot,
           Replan, OwnerSwitch, Expire, GoStale, HeardAgain, Restart, Reload,
           Save, Deceives, vars
  <2>2. Sure(l)
    BY <2>1 DEF RecoveryInv
  <2>3. ASSUME NEW new \in [Loads -> Snapshot], Save(new)
        PROVE  snap'[l] = new[l] /\ disk'[l] = new[l]
    BY <1>0, <2>3 DEF Save, Deceives
  <2>4. CASE \E m \in Loads : BeginRestore(m)
    BY <2>2, <2>4 DEF BeginRestore
  <2>5. ASSUME NEW m \in Loads, ForgetWasOff(m) PROVE Sure(l)'
    <3>1. [snap EXCEPT ![m] = "none"] \in [Loads -> Snapshot]
      BY DEF TypeOK, Snapshot
    <3>a. snap'[l] = [snap EXCEPT ![m] = "none"][l] /\ disk'[l] = snap'[l]
      BY <2>3, <2>5, <3>1 DEF ForgetWasOff
    <3>2. snap'[l] = disk'[l] /\ snap'[l] = IF l = m THEN "none" ELSE snap[l]
      BY <3>a DEF TypeOK
    <3>3. QED BY <2>2, <2>5, <3>2 DEF ForgetWasOff
  <2>6. CASE KeepSnapshot \/ RefuseStale
    BY <2>2, <2>6 DEF KeepSnapshot, RefuseStale
  <2>7. CASE ReadForSnapshot
    BY <1>0, <2>2, <2>7 DEF ReadForSnapshot, Deceives, TypeOK, Switch
  <2>8. CASE StoreSnapshot
    <3>1. [snap EXCEPT ![cur] = seen] \in [Loads -> Snapshot]
      BY DEF TypeOK
    <3>s. Save([snap EXCEPT ![cur] = seen])
      BY <2>8 DEF StoreSnapshot
    <3>a. /\ snap'[l] = [snap EXCEPT ![cur] = seen][l]
          /\ disk'[l] = [snap EXCEPT ![cur] = seen][l]
      BY ONLY <2>3, <3>s, <3>1
    <3>2. snap'[l] = disk'[l] /\ snap'[l] = IF l = cur THEN seen ELSE snap[l]
      BY <3>a DEF TypeOK
    <3>3. l = cur => l \notin owed
      BY <2>2, <2>8 DEF StoreSnapshot, CallInv
    <3>4. QED
      BY <2>2, <2>8, <3>2, <3>3 DEF StoreSnapshot, TypeOK, Snapshot
  <2>9. CASE Check
    BY <2>2, <2>9 DEF Check, TypeOK, Switch
  <2>10. CASE Write
    <3>1. /\ power'[l] = IF l = cur THEN goal ELSE power[l]
          /\ recent'[l] = IF l = cur THEN goal ELSE recent[l]
          /\ owed' = IF goal = "on" THEN owed \ {cur}
                     ELSE IF power[cur] = "on" THEN owed \union {cur} ELSE owed
          /\ pc = "write" /\ pc' = AfterWrite
          /\ UNCHANGED <<snap, disk, cur, goal, seen>>
      BY <2>10 DEF Write, Move, Owe, TypeOK
    <3>2. CASE l = cur /\ goal = "on"
      BY <2>2, <3>1, <3>2 DEF CallInv, AfterWrite
    <3>3. CASE l = cur /\ goal = "off"
      <4>1. snap[l] # "none"
        BY <2>2, <3>1, <3>3
      <4>2. power[l] = "on" => WasOn(snap[l])
        BY <2>2, <4>1 DEF TypeOK, Snapshot
      <4>3. QED BY <2>2, <3>1, <3>3, <4>2 DEF AfterWrite, TypeOK, Switch
    <3>4. CASE l # cur
      BY <2>2, <3>1, <3>4
    <3>5. QED BY <3>2, <3>3, <3>4 DEF TypeOK, Switch
  <2>11. CASE WriteError
    BY <2>2, <2>11 DEF WriteError
  <2>12. CASE WriteResponseLost \/ WriteIgnored
    <3>1. l # cur
      BY <1>0, <2>12 DEF WriteResponseLost, WriteIgnored, Deceives
    <3>2. QED
      BY <2>2, <2>12, <3>1
         DEF WriteResponseLost, WriteIgnored, Move, Owe, TypeOK
  <2>13. CASE RestoreCompanions
    BY <2>2, <2>13 DEF RestoreCompanions
  <2>14. CASE ClearSnapshot
    <3>1. [snap EXCEPT ![cur] = "none"] \in [Loads -> Snapshot]
      BY DEF TypeOK, Snapshot
    <3>s. Save([snap EXCEPT ![cur] = "none"])
      BY <2>14 DEF ClearSnapshot
    <3>a. /\ snap'[l] = [snap EXCEPT ![cur] = "none"][l]
          /\ disk'[l] = [snap EXCEPT ![cur] = "none"][l]
      BY ONLY <2>3, <3>s, <3>1
    <3>2. snap'[l] = disk'[l] /\ snap'[l] = IF l = cur THEN "none" ELSE snap[l]
      BY <3>a DEF TypeOK
    <3>3. l = cur => l \notin owed
      BY <1>o, <2>2, <2>14 DEF ClearSnapshot
    <3>4. QED BY <2>2, <2>14, <3>2, <3>3 DEF ClearSnapshot
  <2>15. ASSUME NEW p \in SUBSET Loads, Replan(p) PROVE Sure(l)'
    BY <2>2, <2>15 DEF Replan
  <2>16. ASSUME NEW m \in Loads, NEW to \in Switch, OwnerSwitch(m, to)
         PROVE  Sure(l)'
    <3>1. l # m
      BY <1>0, <2>16 DEF OwnerSwitch, Deceives
    <3>2. QED
      BY <2>2, <2>16, <3>1 DEF OwnerSwitch, Move, CallInv, TypeOK
  <2>17. ASSUME NEW m \in Loads, Expire(m) PROVE Sure(l)'
    BY <2>2, <2>17 DEF Expire, TypeOK
  <2>18. CASE GoStale \/ HeardAgain
    BY <2>2, <2>18 DEF GoStale, HeardAgain
  <2>19. CASE Restart
    BY <2>2, <2>19 DEF Restart, NoneSaved
  <2>20. ASSUME NEW kept \in SUBSET Loads, Reload(kept) PROVE Sure(l)'
    BY <2>2, <2>20 DEF Reload, NoneSaved, TypeOK
  <2>21. CASE UNCHANGED vars
    BY <2>2, <2>21 DEF vars
  <2>22. QED
    BY <1>2, <2>4, <2>5, <2>6, <2>7, <2>8, <2>9, <2>10, <2>11, <2>12, <2>13,
       <2>14, <2>15, <2>16, <2>17, <2>18, <2>19, <2>20, <2>21, NextSplit
<1>3. QED BY <1>1, <1>2

(* A load that shedding took off can be restored at any time, a restart    *)
(* included, whatever happens to other loads, as long as the executor was  *)
(* not deceived about this one; an answer of "unavailable" to the read for *)
(* its snapshot deceives it.                                               *)
THEOREM ShedLoadsRecoverable == Spec => []Recoverable
<1>1. Init => RecoveryInv
  BY RecoveryInit
<1>2. TypeOK /\ CallInv /\ RecoveryInv /\ [Next]_vars => RecoveryInv'
  BY RecoveryStep
<1>3. TypeOK /\ RecoveryInv => Recoverable
  BY DEF RecoveryInv, Sure, Recoverable, TypeOK
<1>4. QED
  BY <1>1, <1>2, <1>3, CallInvHolds, PTL DEF Spec
-----------------------------------------------------------------------------
(* The contract, step by step.                                             *)

(* What happens to loads the executor is deceived about, and to none else, *)
(* is a loss the contract names; with no such load it is no step at all.   *)
LEMMA DeceptionIsLoss ==
  ASSUME doubt \subseteq doubt', doubt' \subseteq Loads,
         \A l \in Loads \ doubt' :
           power'[l] = power[l] /\ (l \in owed' <=> l \in owed)
  PROVE  Contract!Next
<1>1. Contract!Lose(doubt')
  BY DEF Contract!Lose, Contract!Become, Standing
<1>2. QED BY <1>1 DEF Contract!Next

(* A write that goes through moves a load along the contract: off only     *)
(* from on, and back on only when it is owed.                              *)
LEMMA WriteKeepsContract ==
  ASSUME TypeOK, CallInv, RecoveryInv, Write
  PROVE  Contract!Next
<1>1. /\ power' = [power EXCEPT ![cur] = goal]
      /\ doubt' = doubt /\ pc = "write"
      /\ owed' = IF goal = "on" THEN owed \ {cur}
                 ELSE IF power[cur] = "on" THEN owed \union {cur} ELSE owed
  BY DEF Write, Move, Owe, luck
<1>2. \A l \in Loads \ {cur} :
        power'[l] = power[l] /\ (l \in owed' <=> l \in owed)
  BY <1>1 DEF TypeOK
<1>3. CASE cur \in doubt \/ power[cur] = goal
  <2>1. cur \in doubt \/ (power'[cur] = power[cur] /\ (cur \in owed' <=> cur \in owed))
    BY <1>1, <1>3 DEF RecoveryInv, TypeOK
  <2>2. QED BY <1>1, <1>2, <2>1, DeceptionIsLoss DEF TypeOK
<1>4. CASE cur \notin doubt /\ power[cur] = "on" /\ goal = "off"
  <2>1. cur \notin owed /\ cur \in owed'
    BY <1>1, <1>4 DEF RecoveryInv
  <2>2. Contract!Shed(cur)
    BY <1>1, <1>2, <1>4, <2>1
       DEF Contract!Shed, Contract!In, Contract!Become, Standing, TypeOK
  <2>3. QED BY <2>2 DEF Contract!Next, TypeOK
<1>5. CASE cur \notin doubt /\ power[cur] = "off" /\ goal = "on"
  <2>1. cur \in owed /\ cur \notin owed' /\ power'[cur] = "on"
    BY <1>1, <1>5 DEF CallInv, RecoveryInv, Sure, TypeOK
  <2>2. Contract!Restore(cur)
    BY <1>1, <1>2, <1>5, <2>1
       DEF Contract!Restore, Contract!In, Contract!Become, Standing, TypeOK
  <2>3. QED BY <2>2 DEF Contract!Next, TypeOK
<1>6. QED BY <1>3, <1>4, <1>5 DEF TypeOK, Switch

(* A shed that finds a load plain knows again where it is.                 *)
LEMMA BeginShedKeepsContract ==
  ASSUME TypeOK, NEW l \in Loads, BeginShed(l)
  PROVE  Contract!Next
<1>1. /\ UNCHANGED <<power, owed>>
      /\ doubt' = IF Plain(l) THEN doubt \ {l} ELSE doubt
  BY DEF BeginShed, house
<1>2. CASE Plain(l) /\ l \in doubt
  <2>1. Contract!Regain(l, power[l])
    BY <1>1, <1>2
       DEF Contract!Regain, Contract!In, Contract!Become, Standing, Plain
  <2>2. power[l] \in {"on", "off"}
    BY DEF TypeOK, Switch
  <2>3. QED BY <2>1, <2>2 DEF Contract!Next
<1>3. CASE ~(Plain(l) /\ l \in doubt)
  <2>1. doubt' = doubt
    BY <1>1, <1>3
  <2>2. QED BY <1>1, <2>1, DeceptionIsLoss DEF TypeOK
<1>4. QED BY <1>2, <1>3

(* A reload gives up what it prunes, and nothing else.                     *)
LEMMA ReloadKeepsContract ==
  ASSUME TypeOK, RecoveryInv, NEW kept \in SUBSET Loads, Reload(kept)
  PROVE  Contract!Next
<1> DEFINE Dropped == (owed \ kept) \ doubt
<1>1. doubt' = doubt /\ power' = power /\ owed' = owed \intersect kept
  BY DEF Reload, Harmless
<1>2. Contract!Release(Dropped)
  <2>1. \A l \in Dropped : Contract!In(l, "owed")
    BY DEF Contract!In, Standing, TypeOK
  <2>2. Contract!Become(Dropped, "off")
    BY <1>1 DEF Contract!Become, Standing, RecoveryInv
  <2>3. QED BY <2>1, <2>2 DEF Contract!Release
<1>3. QED BY <1>2 DEF Contract!Next, TypeOK

LEMMA StepKeepsContract ==
  ASSUME TypeOK, TypeOK', CallInv, RecoveryInv, [Next]_vars
  PROVE  [Contract!Next]_[l \in Loads |-> Standing(l)]
<1>1. CASE \E l \in Loads : BeginShed(l)
  BY <1>1, BeginShedKeepsContract
<1>2. CASE Write
  BY <1>2, WriteKeepsContract
<1>3. CASE \E kept \in SUBSET Loads : Reload(kept)
  BY <1>3, ReloadKeepsContract
<1>4. CASE WriteResponseLost \/ \E l \in Loads, to \in Switch : OwnerSwitch(l, to)
  <2>1. PICK l \in Loads, to \in Switch :
          /\ power' = [power EXCEPT ![l] = to]
          /\ doubt' = doubt \union {l}
          /\ \A m \in Loads \ {l} : m \in owed' <=> m \in owed
    BY <1>4 DEF WriteResponseLost, OwnerSwitch, Deceives, Move, Owe, TypeOK
  <2>2. \A m \in Loads \ {l} : power'[m] = power[m]
    BY <2>1 DEF TypeOK
  <2>3. QED BY <2>1, <2>2, DeceptionIsLoss DEF TypeOK
<1>5. CASE /\ ~(\E l \in Loads : BeginShed(l))
           /\ ~Write /\ ~WriteResponseLost
           /\ ~(\E l \in Loads, to \in Switch : OwnerSwitch(l, to))
           /\ ~(\E kept \in SUBSET Loads : Reload(kept))
  <2>1. UNCHANGED <<power, owed>> /\ doubt \subseteq doubt'
    BY <1>5, NextSplit
       DEF BeginRestore, ForgetWasOff, KeepSnapshot, ReadForSnapshot,
           StoreSnapshot, RefuseStale, Check, WriteError, WriteIgnored,
           RestoreCompanions, ClearSnapshot, Replan, Expire, GoStale,
           HeardAgain, Restart, Save, Harmless, Deceives, house, luck, vars
  <2>2. QED BY <2>1, DeceptionIsLoss DEF TypeOK
<1>6. QED BY <1>1, <1>2, <1>3, <1>4, <1>5

(* Shedding implements its contract, whatever fails and for any number of  *)
(* loads: at the switches the executor is not deceived about it takes off  *)
(* only what is on and owes it, switches on only what it owes, and gives   *)
(* up only what a reload drops.                                            *)
THEOREM SheddingKeepsContract == Spec => KeepsContract
<1>1. Init => Contract!Init
  BY DEF Init, Contract!Init, Standing, Switch
<1>2. Init => RecoveryInv
  BY RecoveryInit
<1>3. TypeOK /\ CallInv /\ RecoveryInv /\ [Next]_vars => RecoveryInv'
  BY RecoveryStep
<1>4. TypeOK /\ TypeOK' /\ CallInv /\ RecoveryInv /\ [Next]_vars
      => [Contract!Next]_[l \in Loads |-> Standing(l)]
  BY StepKeepsContract
<1>5. QED
  BY <1>1, <1>2, <1>3, <1>4, CallInvHolds, PTL
     DEF Spec, KeepsContract, Contract!Spec
=============================================================================
