---------------------------- MODULE ShedExecutor ----------------------------
(***************************************************************************)
(* Load shedding as Executor._apply_shed carries it out, one load at a     *)
(* time, over a Home Assistant (HA) that may fail at every call, with the  *)
(* snapshots that ShedSnapshotStore keeps so that a load that was on       *)
(* before it was shed can be switched on again.                            *)
(*                                                                         *)
(* A call of _apply_shed awaits HA several times; between two awaits the   *)
(* owner may operate the switch, time passes, the watchdog may go stale    *)
(* and the process may crash.  pc names the await the call has reached:    *)
(*                                                                         *)
(*   off:  capture -> store -> gate -> write                               *)
(*   on:                       gate -> write -> companions -> clear        *)
(*                                                                         *)
(* Calls do not overlap: every caller holds the orchestrator's cycle lock. *)
(* In shadow mode _apply_shed changes nothing and is not represented.  The *)
(* read-back after a write only fills ShedResult.verified; no decision     *)
(* depends on it, so it is not a step either.                              *)
(***************************************************************************)
EXTENDS Naturals

CONSTANTS
  Loads,      \* the power entities of all tiers
  Faults,     \* the kinds of fault the environment may inject
  MaxFaults   \* how many faults it may inject in one behaviour

FaultKinds ==
  { "read",      \* get_state fails, or returns nothing
    "unavailable", \* get_state answers, but neither "on" nor "off"
    "error",     \* toggle_entity raises and the switch did not move
    "lost",      \* toggle_entity raises although HA carried it out
    "ignored",   \* toggle_entity returns although the switch did not move
    "companion", \* a companion entity cannot be read or written
    "save",      \* the snapshot file cannot be written (logged only)
    "owner",     \* somebody else operates the switch
    "stale",     \* HA has not been heard for ha_stale_after_seconds
    "crash",     \* the process dies and is started again
    "reload" }   \* a configuration reload rebuilds the Executor

ASSUME FaultsAssumption == Faults \subseteq FaultKinds
ASSUME MaxFaultsAssumption == MaxFaults \in Nat

VARIABLES
  power,    \* the switch of each load as HA reports it: "on" or "off"
  settings, \* the loads whose companions hold the settings of their owner
  snap,     \* ShedSnapshotStore._snapshots
  disk,     \* shed_snapshots.json
  recent,   \* Executor._switch_last_write, while the entry is recent
  stale,    \* HAClient.is_stale
  wanted,   \* the loads the current plan wants off
  pc, cur, goal, seen, \* the call of _apply_shed in progress
  faults,   \* how many faults have been injected
  owed,     \* history: the loads the executor took from on to off and that
            \* nobody has switched on since
  doubt     \* history: the loads to which something has happened that the
            \* executor cannot see, since they were last plain to it

call  == <<pc, cur, goal, seen>>
house == <<power, settings, owed>>
store == <<snap, disk>>
luck  == <<faults, doubt>>
vars  == <<power, settings, snap, disk, recent, stale, wanted, pc, cur, goal,
           seen, faults, owed, doubt>>

Switch == {"on", "off"}

(* "off" and "on" are PowerEntitySnapshot.was_on; "full" is a snapshot with *)
(* was_on = True that also holds the settings of the companions.            *)
Snapshot  == {"none", "off", "on", "full"}
WasOn(s)  == s \in {"on", "full"}
NoneSaved == [l \in Loads |-> "none"]

PC == {"idle", "capture", "store", "gate", "write", "companions", "clear"}

TypeOK ==
  /\ power \in [Loads -> Switch]
  /\ settings \subseteq Loads
  /\ snap \in [Loads -> Snapshot]
  /\ disk \in [Loads -> Snapshot]
  /\ recent \in [Loads -> Switch \union {"none"}]
  /\ stale \in BOOLEAN
  /\ wanted \subseteq Loads
  /\ pc \in PC
  /\ cur \in Loads
  /\ goal \in Switch
  /\ seen \in Snapshot
  /\ faults \in 0..MaxFaults
  /\ owed \subseteq Loads
  /\ doubt \subseteq Loads

Init ==
  /\ power \in [Loads -> Switch]
  /\ settings = Loads
  /\ snap = NoneSaved
  /\ disk = NoneSaved
  /\ recent = NoneSaved
  /\ stale = FALSE
  /\ wanted = {}
  /\ pc = "idle"
  /\ cur \in Loads
  /\ goal = "on"
  /\ seen = "none"
  /\ faults = 0
  /\ owed = {}
  /\ doubt = {}

Strike(f) ==
  /\ f \in Faults
  /\ faults < MaxFaults
  /\ faults' = faults + 1

(* A fault the executor is told of, and one that deceives it about ls.     *)
Harmless(f)   == Strike(f) /\ UNCHANGED doubt
Deceives(f, ls) == Strike(f) /\ doubt' = doubt \union ls

(* Mutant of Save: the change stays in memory. *)
Save_MemoryOnly(new) == snap' = new /\ UNCHANGED <<disk, luck>>

(* The store writes its whole map after every change; a failed write is    *)
(* logged and the change stays in memory only.                             *)
Save(new) ==
  /\ snap' = new
  /\ \/ disk' = new /\ UNCHANGED luck
     \/ Deceives("save", {l \in Loads : new[l] # disk[l]}) /\ UNCHANGED disk

(* HA moves the switch of l; cutting the power loses companion settings.   *)
Move(l, to) ==
  /\ power' = [power EXCEPT ![l] = to]
  /\ settings' = IF to = "off" THEN settings \ {l} ELSE settings

-----------------------------------------------------------------------------
(* The call of _apply_shed.                                                *)

(* Nothing is pending for l and nothing about it is misremembered.         *)
Plain(l) == /\ l \notin owed
            /\ snap[l] = "none" /\ disk[l] = "none"
            /\ recent[l] \in {"none", power[l]}

BeginShed(l) ==
  /\ pc = "idle"
  /\ l \in wanted
  /\ pc' = "capture" /\ cur' = l /\ goal' = "off" /\ seen' = "none"
  /\ doubt' = IF Plain(l) THEN doubt \ {l} ELSE doubt
  /\ UNCHANGED <<house, store, recent, stale, wanted, faults>>


(* Mutant of BeginRestore: any snapshot will do. *)
BeginRestore_AnySnapshot(l) ==
  /\ pc = "idle" /\ l \notin wanted /\ snap[l] # "none"
  /\ pc' = "gate" /\ cur' = l /\ goal' = "on" /\ seen' = "none"
  /\ UNCHANGED <<house, store, recent, stale, wanted, luck>>

(* Mutant of BeginRestore: a snapshot without companions is passed over. *)
BeginRestore_OnlyFull(l) ==
  /\ pc = "idle" /\ l \notin wanted /\ snap[l] = "full"
  /\ pc' = "gate" /\ cur' = l /\ goal' = "on" /\ seen' = "none"
  /\ UNCHANGED <<house, store, recent, stale, wanted, luck>>

(* Without a snapshot a restore returns at once (SKIP_NO_SHED_SNAPSHOT).   *)
BeginRestore(l) ==
  /\ pc = "idle"
  /\ l \notin wanted
  /\ WasOn(snap[l])
  /\ pc' = "gate" /\ cur' = l /\ goal' = "on" /\ seen' = "none"
  /\ UNCHANGED <<house, store, recent, stale, wanted, luck>>

ForgetWasOff(l) ==
  /\ pc = "idle"
  /\ l \notin wanted
  /\ snap[l] = "off"
  /\ Save([snap EXCEPT ![l] = "none"])
  /\ UNCHANGED <<house, recent, stale, wanted, call>>

(* _capture_shed_snapshot: a pending snapshot is kept; otherwise the load  *)
(* and, when it is on, its companions are read.  A read that fails leaves  *)
(* the load without a snapshot; one that is answered with "unavailable" or *)
(* "unknown" counts as off (power_entity_was_on), whatever the load is.    *)
KeepSnapshot ==
  /\ pc = "capture"
  /\ snap[cur] # "none"
  /\ pc' = "gate"
  /\ UNCHANGED <<house, store, recent, stale, wanted, cur, goal, seen, luck>>


(* Mutant of ReadForSnapshot: a load that answers is recorded as on. *)
ReadForSnapshot_Blind ==
  /\ pc = "capture"
  /\ snap[cur] = "none"
  /\ pc' = "store" /\ seen' = "on"
  /\ UNCHANGED <<house, store, recent, stale, wanted, cur, goal, luck>>

ReadForSnapshot ==
  /\ pc = "capture"
  /\ snap[cur] = "none"
  /\ \/ /\ power[cur] = "off" /\ seen' = "off" /\ pc' = "store"
        /\ UNCHANGED luck
     \/ /\ power[cur] = "on" /\ pc' = "store"
        /\ seen' = IF cur \in settings THEN "full" ELSE "on"
        /\ UNCHANGED luck
     \/ /\ power[cur] = "on" /\ pc' = "store" /\ seen' = "on"
        /\ Harmless("companion")
     \/ /\ pc' = "gate" /\ seen' = "none"
        /\ Deceives("read", {cur})
     \/ /\ power[cur] = "on" /\ pc' = "store" /\ seen' = "off"
        /\ Deceives("unavailable", {cur})
  /\ UNCHANGED <<house, store, recent, stale, wanted, cur, goal>>

StoreSnapshot ==
  /\ pc = "store"
  /\ Save([snap EXCEPT ![cur] = seen])
  /\ pc' = "gate"
  /\ UNCHANGED <<house, recent, stale, wanted, cur, goal, seen>>

(* The write watchdog (SKIP_HA_STALE).                                     *)
RefuseStale ==
  /\ pc = "gate"
  /\ stale
  /\ pc' = "idle"
  /\ UNCHANGED <<house, store, recent, stale, wanted, cur, goal, seen, luck>>

(* The load is read and compared with the goal.  A load that already is    *)
(* where it should be, and one that was sent there a moment ago            *)
(* (SKIP_RECENTLY_WRITTEN), is not written; on the restore path both go on *)
(* to the companions and drop the snapshot.                                *)
Check ==
  /\ pc = "gate"
  /\ ~stale
  /\ \E now \in Switch \union {"none"} :
       /\ \/ now = power[cur] /\ UNCHANGED luck
          \/ now = "none" /\ (Harmless("read") \/ Harmless("unavailable"))
       /\ pc' = IF goal \in {now, recent[cur]}
                THEN IF goal = "on" THEN "companions" ELSE "idle"
                ELSE "write"
  /\ UNCHANGED <<house, store, recent, stale, wanted, cur, goal, seen>>

AfterWrite == IF goal = "on" THEN "companions" ELSE "idle"

Owe ==
  owed' = IF goal = "on" THEN owed \ {cur}
          ELSE IF power[cur] = "on" THEN owed \union {cur} ELSE owed

Write ==
  /\ pc = "write"
  /\ Move(cur, goal)
  /\ Owe
  /\ recent' = [recent EXCEPT ![cur] = goal]
  /\ pc' = AfterWrite
  /\ UNCHANGED <<store, stale, wanted, cur, goal, seen, luck>>

WriteError ==
  /\ pc = "write"
  /\ Harmless("error")
  /\ pc' = "idle"
  /\ UNCHANGED <<house, store, recent, stale, wanted, cur, goal, seen>>

WriteResponseLost ==
  /\ pc = "write"
  /\ Deceives("lost", {cur})
  /\ Move(cur, goal)
  /\ Owe
  /\ pc' = "idle"
  /\ UNCHANGED <<store, recent, stale, wanted, cur, goal, seen>>

WriteIgnored ==
  /\ pc = "write"
  /\ Deceives("ignored", {cur})
  /\ recent' = [recent EXCEPT ![cur] = goal]
  /\ pc' = AfterWrite
  /\ UNCHANGED <<house, store, stale, wanted, cur, goal, seen>>

(* _restore_companions logs what fails and goes on.                        *)
RestoreCompanions ==
  /\ pc = "companions"
  /\ \/ /\ settings' = IF snap[cur] = "full" /\ power[cur] = "on"
                       THEN settings \union {cur} ELSE settings
        /\ UNCHANGED luck
     \/ /\ snap[cur] = "full"
        /\ Harmless("companion")
        /\ UNCHANGED settings
  /\ pc' = "clear"
  /\ UNCHANGED <<power, owed, store, recent, stale, wanted, cur, goal, seen>>

ClearSnapshot ==
  /\ pc = "clear"
  /\ Save([snap EXCEPT ![cur] = "none"])
  /\ pc' = "idle"
  /\ UNCHANGED <<house, recent, stale, wanted, cur, goal, seen>>

-----------------------------------------------------------------------------
(* The surroundings.                                                       *)

(* The next control cycle plans anew; the kill switch and the shutdown ask *)
(* for every load to be restored, which is wanted = {}.                    *)
Replan(plan) ==
  /\ pc = "idle"
  /\ wanted' = plan
  /\ UNCHANGED <<house, store, recent, stale, call, luck>>

OwnerSwitch(l, to) ==
  /\ Deceives("owner", {l})
  /\ power[l] # to
  /\ Move(l, to)
  /\ owed' = IF to = "on" THEN owed \ {l} ELSE owed
  /\ UNCHANGED <<store, recent, stale, wanted, call>>

(* min_write_interval_seconds have passed since the last write of l.       *)
Expire(l) ==
  /\ recent[l] # "none"
  /\ recent' = [recent EXCEPT ![l] = "none"]
  /\ UNCHANGED <<house, store, stale, wanted, call, luck>>

GoStale ==
  /\ Harmless("stale")
  /\ ~stale
  /\ stale' = TRUE
  /\ UNCHANGED <<house, store, recent, wanted, call>>

HeardAgain ==
  /\ stale
  /\ stale' = FALSE
  /\ UNCHANGED <<house, store, recent, wanted, call, luck>>

(* The process dies at any point and comes back with what is on disk.      *)
Restart ==
  /\ Harmless("crash")
  /\ snap' = disk
  /\ recent' = NoneSaved
  /\ pc' = "idle" /\ goal' = "on" /\ seen' = "none"
  /\ UNCHANGED <<house, disk, stale, wanted, cur>>

(* reload_config, under the cycle lock: a new Executor, and the snapshots  *)
(* of loads that left the configuration are pruned.  As documented, a      *)
(* pruned load is the owner's to switch on again.                          *)
Reload(kept) ==
  /\ pc = "idle"
  /\ Harmless("reload")
  /\ snap' = [l \in Loads |-> IF l \in kept THEN snap[l] ELSE "none"]
  /\ disk' = IF snap' = snap THEN disk ELSE snap'
  /\ recent' = NoneSaved
  /\ owed' = owed \intersect kept
  /\ UNCHANGED <<power, settings, stale, wanted, call>>

Step ==
  \/ KeepSnapshot \/ ReadForSnapshot \/ StoreSnapshot
  \/ RefuseStale \/ Check
  \/ Write \/ WriteError \/ WriteResponseLost \/ WriteIgnored
  \/ RestoreCompanions \/ ClearSnapshot

Next ==
  \/ \E l \in Loads : BeginShed(l) \/ BeginRestore(l) \/ ForgetWasOff(l)
  \/ Step
  \/ \E plan \in SUBSET Loads : Replan(plan)
  \/ \E l \in Loads, to \in Switch : OwnerSwitch(l, to)
  \/ \E l \in Loads : Expire(l)
  \/ GoStale \/ HeardAgain \/ Restart
  \/ \E kept \in SUBSET Loads : Reload(kept)

Spec == Init /\ [][Next]_vars

(* The scheduler starts a cycle every control_interval and a cycle calls   *)
(* _apply_shed for every action of the plan in turn, so no load is passed  *)
(* over for ever; every await ends (HA calls time out); HA comes back.     *)
Fairness ==
  /\ WF_vars(Step)
  /\ WF_vars(HeardAgain)
  /\ \A l \in Loads : SF_vars(BeginShed(l)) /\ SF_vars(BeginRestore(l))

FairSpec == Spec /\ Fairness

-----------------------------------------------------------------------------
(* Properties.                                                             *)

(* A load the executor took from on to off can be restored, now and after  *)
(* a restart: a snapshot that says it was on is pending in memory and on   *)
(* disk.  A load is excepted from the moment its snapshot could not be     *)
(* read (unanswered, or answered with "unavailable", which is recorded as  *)
(* off) or saved, a write to it went through unseen or came to nothing     *)
(* unseen, or its owner operated it, until a shed finds it plain again;    *)
(* what happens to other loads never matters.                              *)
Recoverable == \A l \in owed \ doubt : WasOn(snap[l]) /\ WasOn(disk[l])

(* What the executor does to a switch, told apart from the owner's hand.   *)
SwitchesOn(l) == /\ pc = "write" /\ pc' # "write"
                 /\ power[l] = "off" /\ power'[l] = "on"

(* Whatever fails, the executor switches a load on only while it holds a   *)
(* snapshot taken when that load was on.                                   *)
RestoreNeedsSnapshot ==
  [][\A l \in Loads : SwitchesOn(l) => WasOn(snap[l])]_vars

(* Whatever fails, a pending snapshot is never overwritten with another:   *)
(* it is kept until it is cleared, pruned or (in memory) lost to a restart.*)
CaptureOnce ==
  [][\A l \in Loads :
       snap[l] # "none" /\ snap'[l] # snap[l] => snap'[l] = "none" \/ snap' = disk
    ]_vars

(* The executor keeps the contract of shedding: while it was not deceived  *)
(* about a load, it takes that load off only from on, switches on only a   *)
(* load it took off itself, and gives one up only to a reload that drops   *)
(* it from the configuration, whatever fails in between.                   *)
Standing(l) == IF l \in doubt THEN "unknown"
               ELSE IF l \in owed THEN "owed" ELSE power[l]

Contract == INSTANCE ShedContract WITH state <- [l \in Loads |-> Standing(l)]

KeepsContract == Contract!Spec

(* Once the plan asks for every load back and keeps asking, every load the *)
(* executor owes is switched on, although there were finitely many write   *)
(* errors, stale periods, crashes and reloads on the way; excepted are the *)
(* loads the executor was deceived about.                                  *)
EventuallyRestored == <>[](wanted = {}) => <>[](owed \subseteq doubt)
=============================================================================
