----------------------------- MODULE ControlLoop ------------------------------
(***************************************************************************)
(* The Orchestrator: who may act on the house, and when.                   *)
(*                                                                         *)
(* Control cycles are started by the scheduler ("tick"), by the state      *)
(* stream when the grid comes or goes (Streams), by the API (Clients) and  *)
(* by start-up and shutdown ("main").  They are coroutines of one event    *)
(* loop, so an action here is what runs between two awaits.  A cycle runs  *)
(* under _cycle_lock; the operator's flags, the stream and the HA client   *)
(* are also changed outside it.  pc[t] names the await task t has reached: *)
(*                                                                         *)
(*   wait    the lock                    max     emergency grid writes     *)
(*   sense   credentials and telemetry   bring   restore_all_sheds         *)
(*   rewire  _reconnect_ha               seal    the audit of the restore  *)
(*   decide  sensing, once rewired                                         *)
(*   grid    the grid-charge writes      off, restore    the shed writes   *)
(*   shed    the snapshot of the load    end     save_decision, broadcast  *)
(*                                                                         *)
(* The lock is a holder and the tasks at "wait"; asyncio wakes them first  *)
(* come, first served, of which only the fairness is kept here.  Loads are *)
(* one load, the grid-charge registers one register, and HA answers:       *)
(* faults of HA are the subject of ShedExecutor and WriteGuard.            *)
(***************************************************************************)
EXTENDS Naturals, FiniteSets

CONSTANTS
  Clients,    \* requests that may be in progress at the same time
  Streams,    \* names for the stream tasks that exist at the same time
  Overrides,  \* the bodies of POST /override, without the kill switch
  Configs,    \* the configurations POST /config may store
  DefaultCfg, \* the configuration reset_config goes back to
  Requests,   \* the other requests: "cycle", "kill", "clear", "reload", ...
  Faults      \* "crash", "save" (state file), "db", "token" (a new token)

Subsystems == {"grid", "shed"}
Features   == Subsystems \union {"engine", "failsafe"}
Promises   == Subsystems \union {"shadow"}
Tasks      == Clients \union Streams \union {"tick", "main"}
Nobody     == "nobody"

(* Pausing or resuming the engine is pausing or resuming both subsystems;  *)
(* resuming it also goes back to automatic (unforce).                      *)
Override == [shadow : {"keep", "on", "off"}, pause : SUBSET Subsystems,
             resume : SUBSET Subsystems, force : SUBSET Subsystems,
             unforce : SUBSET Subsystems]

ASSUME NamesAssumption ==
  /\ Clients \intersect Streams = {}
  /\ Tasks \intersect {Nobody} = {}
  /\ {"tick", "main"} \intersect (Clients \union Streams) = {}
ASSUME InputsAssumption ==
  /\ Overrides \subseteq Override
  /\ DefaultCfg \in SUBSET Features
  /\ Configs \subseteq SUBSET Features

VARIABLES
  cfg,      \* the enabled features (ConfigStore, on disk)
  flags,    \* shadow_mode, paused_*, override.force_*
  file,     \* runtime_state.json
  house,    \* the load: "on", "captured" (snapshot pending) or "off"
  grid,     \* what wrote the grid-charge registers last: "plan" or "max"
  holder,   \* who holds _cycle_lock
  pc, job,  \* where each task is, and what it was started for
  plan,     \* the holder's decision, with the shadow flag it was made under
  prev,     \* the holder's prev_shadow
  phase,    \* "boot", "up", "stopping", "closing", "down", "dead"
  need,     \* what shutdown found to be needed
  alive,    \* the stream tasks that run
  current,  \* _stream_task
  tangles,  \* history: how many reconnections since the start cut no stream
            \*   although there was one, or another reconnection about to make one
  asked,    \* history: what each request in progress asks to be left alone
  promised, \* history: what was acknowledged and not asked back since
  lifted    \* history: shadow mode, asked for or promised, was left off by the
            \*   kill switch, in memory or in the file, and is so still

world   == <<house, grid>>
task    == <<holder, pc, job, plan, prev>>
streams == <<alive, current, tangles>>
history == <<asked, promised, lifted>>
vars    == <<cfg, flags, file, house, grid, holder, pc, job, plan, prev, phase,
             need, alive, current, tangles, asked, promised, lifted>>

Flags == [shadow : BOOLEAN, paused : SUBSET Subsystems, force : SUBSET Subsystems]
Fresh == [shadow |-> TRUE, paused |-> {}, force |-> {}]
Body  == {"sense", "decide", "grid", "shed", "off", "restore", "end"}
PC    == Body \union {"idle", "wait", "rewire", "max", "bring", "seal"}
Jobs  == {"none", "tick", "stream", "boot", "stop", "override", "cycle", "kill",
          "clear", "reload", "reset", "credentials"}
Plan  == [live : BOOLEAN, shed : {"none", "shed", "restore"}]
Idle  == [live |-> FALSE, shed |-> "none"]

TypeOK ==
  /\ cfg \in SUBSET Features
  /\ flags \in Flags /\ file \in Flags
  /\ house \in {"on", "captured", "off"} /\ grid \in {"plan", "max"}
  /\ holder \in Tasks \union {Nobody}
  /\ pc \in [Tasks -> PC] /\ job \in [Tasks -> Jobs]
  /\ plan \in Plan /\ prev \in BOOLEAN
  /\ phase \in {"boot", "up", "stopping", "closing", "down", "dead"}
  /\ need \in SUBSET {"bring", "max"}
  /\ alive \in SUBSET Streams /\ current \in Streams \union {Nobody}
  /\ asked \in [Clients -> SUBSET Promises]
  /\ promised \in SUBSET Promises
  /\ tangles \in Nat /\ lifted \in BOOLEAN

Init ==
  /\ cfg \in Configs
  /\ flags = Fresh /\ file = Fresh
  /\ house = "on" /\ grid = "plan"
  /\ holder = Nobody
  /\ pc = [t \in Tasks |-> "idle"] /\ job = [t \in Tasks |-> "none"]
  /\ plan = Idle /\ prev = TRUE
  /\ phase = "dead" /\ need = {}
  /\ alive = {} /\ current = Nobody
  /\ asked = [c \in Clients |-> {}] /\ promised = {}
  /\ tangles = 0 /\ lifted = FALSE

-----------------------------------------------------------------------------
(* The gates, evaluated on the flags of the moment.                        *)

shedding_writes_allowed ==
  /\ "shed" \in cfg
  /\ "shed" \in flags.force \/ "shed" \notin flags.paused

grid_charge_writes_allowed ==
  /\ "grid" \in cfg
  /\ "grid" \in flags.force \/ ("engine" \in cfg /\ "grid" \notin flags.paused)

grid_charge_active == {"grid", "engine"} \subseteq cfg /\ "grid" \notin flags.paused

(* What a decision may contain; "none" also stands for no telemetry.       *)
GridPlans == IF {"grid", "engine"} \subseteq cfg THEN BOOLEAN ELSE {FALSE}
ShedPlans ==
  {"none"}
  \union (IF "shed" \in cfg THEN {"shed"} ELSE {})
  \union (IF "shed" \in cfg /\ "shed" \notin flags.force /\ house # "on"
          THEN {"restore"} ELSE {})

-----------------------------------------------------------------------------
(* Starting a task, taking and leaving the lock, cancelling tasks.         *)

Start(t, j, at) ==
  /\ pc[t] = "idle"
  /\ pc' = [pc EXCEPT ![t] = at]
  /\ job' = [job EXCEPT ![t] = j]

Lock(t, at) ==
  /\ pc[t] = "wait"
  /\ holder = Nobody
  /\ holder' = t
  /\ pc' = [pc EXCEPT ![t] = at]

Go(t, from, to) ==
  /\ pc[t] = from
  /\ pc' = [pc EXCEPT ![t] = to]

Leave(t) ==
  /\ holder' = IF holder = t THEN Nobody ELSE holder
  /\ pc' = [pc EXCEPT ![t] = "idle"]
  /\ job' = [job EXCEPT ![t] = "none"]

(* A task cancelled in the middle of a write cannot tell whether HA still  *)
(* carries it out.  Only the holder of the lock can be in such a place.    *)
Interrupt(S) ==
  /\ holder' = IF holder \in S THEN Nobody ELSE holder
  /\ \/ UNCHANGED world
     \/ /\ holder \in S
        /\ \/ pc[holder] = "grid" /\ plan.live /\ grid' = "plan" /\ UNCHANGED house
           \/ pc[holder] = "max" /\ grid' = "max" /\ UNCHANGED house
           \/ pc[holder] = "off" /\ house' = "off" /\ UNCHANGED grid
           \/ pc[holder] \in {"restore", "bring"} /\ house' = "on" /\ UNCHANGED grid

Without(f, S, v) == [t \in DOMAIN f |-> IF t \in S THEN v ELSE f[t]]

(* A request takes back what others asked for, or were promised.           *)
Withdraw(kinds) ==
  /\ promised' = promised \ kinds
  /\ asked' = [c \in Clients |-> asked[c] \ kinds]

Save ==
  \/ file' = flags'
  \/ "save" \in Faults /\ UNCHANGED file

Emergency == {"max", "bring", "seal"}
Killing == \E c \in Clients : job[c] = "kill" /\ pc[c] \in Emergency
Wanted == "shadow" \in promised \/ \E c \in Clients : "shadow" \in asked[c]

(* Shadow mode stays lifted until memory and file both have it on again.   *)
StillLifted == lifted /\ ~(flags'.shadow /\ file'.shadow)

-----------------------------------------------------------------------------
(* Start-up, ticks, grid changes.                                          *)

(* setup: the saved flags, a stream, and a cycle at once when live.        *)
Boot(s) ==
  /\ phase \in {"down", "dead"}
  /\ flags' = file /\ UNCHANGED file
  /\ alive' = {s} /\ current' = s /\ tangles' = 0
  /\ lifted' = StillLifted
  /\ IF file.shadow
     THEN phase' = "up" /\ UNCHANGED <<pc, job>>
     ELSE phase' = "boot" /\ Start("main", "boot", "wait")
  /\ UNCHANGED <<cfg, world, holder, plan, prev, need, asked, promised>>

Tick ==
  /\ phase = "up"
  /\ Start("tick", "tick", "wait")
  /\ UNCHANGED <<cfg, flags, file, world, holder, plan, prev, phase, need,
                 streams, history>>

GridChange(s) ==
  /\ s \in alive
  /\ Start(s, "stream", "wait")
  /\ UNCHANGED <<cfg, flags, file, world, holder, plan, prev, phase, need,
                 streams, history>>

-----------------------------------------------------------------------------
(* Requests.                                                               *)

Undone(ov) ==
  ov.resume \union ov.force \union (IF ov.shadow = "off" THEN {"shadow"} ELSE {})

(* Mutant of Request: answered at once, without asking for a cycle.        *)
Request_AnsweredAtOnce(c, ov) ==
  /\ phase = "up" /\ ov \in Overrides /\ pc[c] = "idle"
  /\ flags' = [shadow |-> IF ov.shadow = "keep" THEN flags.shadow
                          ELSE ov.shadow = "on",
               paused |-> (flags.paused \union ov.pause) \ ov.resume,
               force  |-> flags.force \ ov.resume]
  /\ file' = flags'
  /\ promised' = (promised \ Undone(ov)) \union (ov.pause \ flags'.force)
  /\ UNCHANGED <<cfg, world, task, phase, need, streams, asked, lifted>>

(* apply_override without the kill switch: the flags change at once, with  *)
(* the couplings of force and pause, and then the request asks for a cycle.*)
Request(c, ov) ==
  /\ phase = "up"
  /\ ov.force \union ov.unforce \subseteq cfg
  /\ Start(c, "override", "wait")
  /\ flags' = [shadow |-> IF ov.shadow = "keep" THEN flags.shadow
                          ELSE ov.shadow = "on",
               paused |-> ((flags.paused \union ov.pause) \ ov.resume) \union ov.force,
               force  |-> (flags.force \ (ov.unforce \union ov.resume)) \union ov.force]
  /\ promised' = promised \ Undone(ov)
  /\ asked' = [d \in Clients |->
                IF d = c
                THEN (ov.pause \ (flags'.force \union ov.resume))
                     \union (IF ov.shadow = "on" THEN {"shadow"} ELSE {})
                ELSE asked[d] \ Undone(ov)]
  /\ UNCHANGED <<cfg, file, world, holder, plan, prev, phase, need, streams, lifted>>

Kill(c) ==
  /\ phase = "up" /\ "kill" \in Requests
  /\ Start(c, "kill", "wait")
  /\ asked' = [asked EXCEPT ![c] = Subsystems]
  /\ UNCHANGED <<cfg, flags, file, world, holder, plan, prev, phase, need,
                 streams, promised, lifted>>

(* POST /override/clear: clear_overrides does not wait for the lock, and   *)
(* saves the flags as they are, shadow mode as the kill switch has it.     *)
Clear(c) ==
  /\ phase = "up" /\ "clear" \in Requests
  /\ Start(c, "clear", "wait")
  /\ flags' = [flags EXCEPT !.paused = {}, !.force = {}]
  /\ Save
  /\ Withdraw(Subsystems)
  /\ lifted' = (lifted \/ (Killing /\ prev /\ ~flags.shadow /\ Wanted))
  /\ UNCHANGED <<cfg, world, holder, plan, prev, phase, need, streams>>

(* POST /cycle and POST /config; a reset takes everything back.            *)
Ask(c, what) ==
  /\ phase = "up" /\ what \in {"cycle", "reload", "reset"} \intersect Requests
  /\ Start(c, what, "wait")
  /\ IF what = "reset" THEN Withdraw(Promises) ELSE UNCHANGED history
  /\ UNCHANGED <<cfg, flags, file, world, holder, plan, prev, phase, need, streams,
                 lifted>>

-----------------------------------------------------------------------------
(* Under the lock.                                                         *)

(* Mutant of StartCycle: an override calls control_cycle, not its body, and *)
(* so waits for the lock it holds.                                         *)
StartCycle_Reentrant(t) ==
  /\ job[t] \in {"tick", "stream", "boot", "override", "cycle", "clear"}
  /\ IF job[t] = "override"
     THEN pc[t] = "wait" /\ holder = Nobody /\ holder' = t /\ UNCHANGED pc
     ELSE Lock(t, "sense")
  /\ UNCHANGED <<cfg, flags, file, world, job, plan, prev, phase, need, streams,
                 history>>

StartCycle(t) ==
  /\ job[t] \in {"tick", "stream", "boot", "override", "cycle", "clear"}
  /\ Lock(t, "sense")
  /\ UNCHANGED <<cfg, flags, file, world, job, plan, prev, phase, need, streams,
                 history>>

(* Mutant of Reload: the configuration changes before the lock is taken.   *)
Reload_Unlocked(c) ==
  /\ job[c] = "reload" /\ pc[c] = "wait"
  /\ cfg' \in Configs
  /\ UNCHANGED <<flags, file, world, task, phase, need, streams, history>>

(* reload_config: the stored configuration, live components, then a cycle. *)
Reload(c) ==
  /\ job[c] = "reload"
  /\ Lock(c, "sense")
  /\ cfg' \in Configs
  /\ UNCHANGED <<flags, file, world, job, plan, prev, phase, need, streams, history>>

(* Mutant of Reset: the fresh flags are not saved.                         *)
Reset_NotSaved(c) ==
  /\ job[c] = "reset"
  /\ Lock(c, "sense")
  /\ cfg' = DefaultCfg
  /\ flags' = Fresh
  /\ Withdraw(Promises)
  /\ UNCHANGED <<file, world, job, plan, prev, phase, need, streams, lifted>>

Reset(c) ==
  /\ job[c] = "reset"
  /\ Lock(c, "sense")
  /\ cfg' = DefaultCfg
  /\ flags' = Fresh
  /\ Save
  /\ Withdraw(Promises)
  /\ lifted' = StillLifted
  /\ UNCHANGED <<world, job, plan, prev, phase, need, streams>>

(* refresh_ha_oauth_if_needed: usually the token is still good.            *)
Refresh(t) ==
  /\ Go(t, "sense", "decide")
  /\ UNCHANGED <<cfg, flags, file, world, holder, job, plan, prev, phase, need,
                 streams, history>>

(* The bound on stream tasks: every task that rewires finds a free name.   *)
NamesLeft == Cardinality({t \in Tasks : pc'[t] = "rewire"})
               <= Cardinality(Streams \ alive')

(* Mutant of CutStream: the running stream is forgotten, not cancelled.    *)
CutStream_Forgets(t, from) ==
  /\ pc[t] = from
  /\ pc' = [pc EXCEPT ![t] = "rewire"]
  /\ UNCHANGED <<holder, world, alive, tangles>>
  /\ NamesLeft
  /\ current' = Nobody

(* A reconnection in the stream's own cycle, or across another one that    *)
(* has cut the stream already: it cuts none, and will make one.            *)
Tangled(t) ==
  current = t \/ (current = Nobody /\ \E u \in Tasks : pc[u] = "rewire")

(* _reconnect_ha, to its first await that takes time: the stream task is   *)
(* cancelled, with the cycle it may be running.  A stream that reconnects  *)
(* in its own cycle cancels and awaits itself; the CancelledError that     *)
(* await raises is suppressed, and the task goes on.                       *)
CutStream(t, from) ==
  /\ pc[t] = from
  /\ LET cut == IF current \in Streams THEN {current} \ {t} ELSE {}
     IN /\ Interrupt(cut)
        /\ pc' = [Without(pc, cut, "idle") EXCEPT ![t] = "rewire"]
        /\ alive' = alive \ cut
  /\ NamesLeft
  /\ current' = Nobody
  /\ tangles' = IF Tangled(t) THEN tangles + 1 ELSE tangles

NewToken(t) ==
  /\ "token" \in Faults
  /\ CutStream(t, "sense")
  /\ UNCHANGED <<cfg, flags, file, job, plan, prev, phase, need, history>>

(* POST /ha/retry and the OAuth callbacks reconnect without the lock.      *)
Credentials(c) ==
  /\ phase = "up" /\ "credentials" \in Requests
  /\ CutStream(c, "idle")
  /\ job' = [job EXCEPT ![c] = "credentials"]
  /\ UNCHANGED <<cfg, flags, file, plan, prev, phase, need, history>>

(* ... and to its end: whatever happened meanwhile, a new stream.          *)
NewStream(t, s) ==
  /\ pc[t] = "rewire"
  /\ s \in Streams \ alive
  /\ alive' = alive \union {s} /\ current' = s
  /\ IF job[t] = "credentials"
     THEN Leave(t)
     ELSE Go(t, "rewire", "decide") /\ UNCHANGED <<holder, job>>
  /\ UNCHANGED <<cfg, flags, file, world, plan, prev, phase, need, tangles, history>>

(* Mutant of AfterGrid: the gate forgets shadow mode.                      *)
AfterGrid_NoShadow(wish) ==
  IF wish # "none" /\ shedding_writes_allowed THEN wish ELSE "end"

(* The shed gate is evaluated when the grid writes are done.               *)
AfterGrid(wish) ==
  IF wish # "none" /\ shedding_writes_allowed /\ ~flags.shadow THEN wish ELSE "end"

(* The decision, and in the same breath the grid gate.                     *)
Decide(t) ==
  \E acts \in GridPlans, wish \in ShedPlans :
    /\ plan' = [live |-> ~flags.shadow, shed |-> wish]
    /\ Go(t, "decide", IF acts /\ grid_charge_writes_allowed
                       THEN "grid" ELSE AfterGrid(wish))
    /\ UNCHANGED <<cfg, flags, file, world, holder, job, prev, phase, need,
                   streams, history>>

WriteGrid(t) ==
  /\ Go(t, "grid", AfterGrid(plan.shed))
  /\ grid' = IF plan.live THEN "plan" ELSE grid
  /\ UNCHANGED <<cfg, flags, file, house, holder, job, plan, prev, phase, need,
                 streams, history>>

Snapshot(t) ==
  /\ Go(t, "shed", "off")
  /\ house' = IF house = "on" THEN "captured" ELSE house
  /\ UNCHANGED <<cfg, flags, file, grid, holder, job, plan, prev, phase, need,
                 streams, history>>

WriteShed(t) ==
  /\ \/ Go(t, "off", "end") /\ house' = "off"
     \/ Go(t, "restore", "end") /\ house' = "on"
  /\ UNCHANGED <<cfg, flags, file, grid, holder, job, plan, prev, phase, need,
                 streams, history>>

(* The cycle ends; the answer to an override saves the flags first.        *)
Finish(t) ==
  /\ pc[t] = "end" /\ job[t] # "override"
  /\ Leave(t)
  /\ plan' = Idle
  /\ phase' = IF job[t] = "boot" THEN "up" ELSE phase
  /\ UNCHANGED <<cfg, flags, file, world, prev, need, streams, history>>

Answer(c) ==
  /\ pc[c] = "end" /\ job[c] = "override"
  /\ Leave(c)
  /\ plan' = Idle
  /\ UNCHANGED flags
  /\ Save
  /\ promised' = promised \union asked[c]
  /\ asked' = [asked EXCEPT ![c] = {}]
  /\ lifted' = StillLifted
  /\ UNCHANGED <<cfg, world, prev, phase, need, streams>>

(* Mutant of FinishFails: the lock is not left on the way out.             *)
FinishFails_LockKept(t) ==
  /\ "db" \in Faults
  /\ pc[t] = "end"
  /\ pc' = [pc EXCEPT ![t] = "idle"] /\ job' = [job EXCEPT ![t] = "none"]
  /\ plan' = Idle
  /\ phase' = IF job[t] = "boot" THEN "up" ELSE phase
  /\ asked' = [c \in Clients |-> IF c = t THEN {} ELSE asked[c]]
  /\ UNCHANGED <<cfg, flags, file, world, holder, prev, need, streams, promised, lifted>>

(* save_decision raises: the request fails with nothing saved.             *)
FinishFails(t) ==
  /\ "db" \in Faults
  /\ pc[t] = "end"
  /\ Leave(t)
  /\ plan' = Idle
  /\ phase' = IF job[t] = "boot" THEN "up" ELSE phase
  /\ asked' = [c \in Clients |-> IF c = t THEN {} ELSE asked[c]]
  /\ UNCHANGED <<cfg, flags, file, world, prev, need, streams, promised, lifted>>

-----------------------------------------------------------------------------
(* The kill switch.                                                        *)

KillBegins(c) ==
  /\ job[c] = "kill"
  /\ Lock(c, IF grid_charge_active THEN "max" ELSE "bring")
  /\ prev' = flags.shadow
  /\ flags' = [flags EXCEPT !.shadow = FALSE]
  /\ UNCHANGED <<cfg, file, world, job, plan, phase, need, streams, history>>

(* apply_grid_charge_at_max, for the kill switch and for the shutdown.     *)
WriteMax(t) ==
  /\ Go(t, "max", IF job[t] = "kill" THEN "bring" ELSE "seal")
  /\ grid' = "max"
  /\ UNCHANGED <<cfg, flags, file, house, holder, job, plan, prev, phase, need,
                 streams, history>>

(* restore_all_sheds, likewise.                                            *)
BringBack(t) ==
  /\ Go(t, "bring", IF job[t] = "stop" /\ "max" \in need THEN "max" ELSE "seal")
  /\ house' = "on"
  /\ UNCHANGED <<cfg, flags, file, grid, holder, job, plan, prev, phase, need,
                 streams, history>>

(* Shadow mode goes back to what it was, whoever asked for it meanwhile.   *)
KillEnds(c) ==
  /\ pc[c] = "seal" /\ job[c] = "kill"
  /\ Leave(c)
  /\ flags' = [flags EXCEPT !.shadow = prev, !.paused = Subsystems]
  /\ Save
  /\ promised' = promised \union (asked[c] \ flags.force)
  /\ asked' = [asked EXCEPT ![c] = {}]
  /\ lifted' = (StillLifted \/ (flags.shadow /\ ~prev /\ Wanted))
  /\ UNCHANGED <<cfg, world, plan, prev, phase, need, streams>>

(* The audit of an emergency write raises: nothing is put back or paused.  *)
KillFails(c) ==
  /\ "db" \in Faults
  /\ pc[c] \in {"bring", "seal"} /\ job[c] = "kill"
  /\ Leave(c)
  /\ asked' = [asked EXCEPT ![c] = {}]
  /\ lifted' = (lifted \/ (prev /\ ~flags.shadow /\ Wanted))
  /\ UNCHANGED <<cfg, flags, file, world, plan, prev, phase, need, streams, promised>>

-----------------------------------------------------------------------------
(* Shutdown.                                                               *)

(* Nothing is needed: the stream is cancelled and connections are closed.  *)
CloseNow(gone) ==
  LET cut == (gone \union {current}) \intersect Tasks
  IN /\ phase' = "closing"
     /\ Interrupt(cut)
     /\ pc' = Without(pc, cut, "idle")
     /\ alive' = alive \ {current} /\ current' = Nobody

AskForLock(gone) ==
  /\ phase' = "stopping"
  /\ Interrupt(gone)
  /\ pc' = [Without(pc, gone, "idle") EXCEPT !["main"] = "wait"]
  /\ UNCHANGED <<alive, current>>

(* The server has drained its requests; the scheduler cancels the tick on  *)
(* the next turn of the loop, and shutdown looks at what is needed before  *)
(* it waits for the lock.  When nothing is, it cancels the stream at once. *)
(* A tick that awaits the stream it has cancelled (_reconnect_ha) takes    *)
(* its own cancellation for the stream's, suppresses it and goes on.       *)
Shutdown ==
  /\ phase = "up"
  /\ \A c \in Clients : pc[c] = "idle"
  /\ need' = (IF house # "on" THEN {"bring"} ELSE {})
             \union (IF "failsafe" \in cfg THEN {"max"} ELSE {})
  /\ job' = [job EXCEPT !["main"] = "stop"]
  /\ \E gone \in SUBSET {"tick"} :
       /\ gone # {} \/ pc["tick"] = "rewire"
       /\ IF need' = {} THEN CloseNow(gone) ELSE AskForLock(gone)
  /\ UNCHANGED <<cfg, flags, file, plan, prev, tangles, history>>

ShutdownBegins ==
  /\ job["main"] = "stop"
  /\ Lock("main", IF "bring" \in need THEN "bring" ELSE "max")
  /\ prev' = flags.shadow
  /\ flags' = [flags EXCEPT !.shadow = FALSE]
  /\ UNCHANGED <<cfg, file, world, job, plan, phase, need, streams, history>>

(* Mutant of ShutdownEnds: the stream goes on while connections are closed. *)
ShutdownEnds_StreamLeft ==
  /\ pc["main"] = "seal" /\ job["main"] = "stop"
  /\ holder' = Nobody
  /\ pc' = [pc EXCEPT !["main"] = "idle"]
  /\ flags' = [flags EXCEPT !.shadow = prev]
  /\ phase' = "closing"
  /\ UNCHANGED <<cfg, file, world, job, plan, prev, need, streams, history>>

(* The lock is left and the stream cancelled without an await in between.  *)
ShutdownEnds ==
  /\ pc["main"] = "seal" /\ job["main"] = "stop"
  /\ holder' = Nobody
  /\ pc' = Without(pc, {"main", current}, "idle")
  /\ flags' = [flags EXCEPT !.shadow = prev]
  /\ phase' = "closing"
  /\ alive' = alive \ {current} /\ current' = Nobody
  /\ UNCHANGED <<cfg, file, world, job, plan, prev, need, tangles, history>>

AllIdle ==
  /\ holder' = Nobody
  /\ pc' = [t \in Tasks |-> "idle"] /\ job' = [t \in Tasks |-> "none"]
  /\ plan' = Idle /\ prev' = TRUE
  /\ need' = {}
  /\ alive' = {} /\ current' = Nobody
  /\ asked' = [c \in Clients |-> {}]

(* The connections are closed and the process is gone.                     *)
Exit ==
  /\ phase = "closing"
  /\ phase' = "down"
  /\ AllIdle
  /\ UNCHANGED <<cfg, flags, file, world, tangles, promised, lifted>>

Crash ==
  /\ "crash" \in Faults
  /\ phase \notin {"down", "dead"}
  /\ phase' = "dead"
  /\ AllIdle
  /\ UNCHANGED <<cfg, flags, file, world, tangles, promised, lifted>>

-----------------------------------------------------------------------------

Step(t) ==
  \/ Refresh(t) \/ (\E s \in Streams : NewStream(t, s))
  \/ Decide(t) \/ WriteGrid(t) \/ Snapshot(t) \/ WriteShed(t) \/ Finish(t)
  \/ WriteMax(t) \/ BringBack(t)
  \/ t \in Clients /\ (Answer(t) \/ KillEnds(t))
  \/ t = "main" /\ ShutdownEnds

Acquire(t) ==
  \/ StartCycle(t)
  \/ t \in Clients /\ (Reload(t) \/ Reset(t) \/ KillBegins(t))
  \/ t = "main" /\ ShutdownBegins

Fails(t) == NewToken(t) \/ FinishFails(t) \/ (t \in Clients /\ KillFails(t))

Arrive(c) ==
  \/ \E ov \in Overrides : Request(c, ov)
  \/ Kill(c) \/ Clear(c) \/ Credentials(c)
  \/ \E what \in Requests : Ask(c, what)

Next ==
  \/ \E t \in Tasks : Step(t) \/ Acquire(t) \/ Fails(t)
  \/ \E c \in Clients : Arrive(c)
  \/ \E s \in Streams : Boot(s) \/ GridChange(s)
  \/ Tick \/ Shutdown \/ Exit \/ Crash

Spec == Init /\ [][Next]_vars

(* Awaits end: HA calls time out and the lock is handed on first come,     *)
(* first served.  Nothing is assumed of the surroundings: ticks, requests  *)
(* and grid changes may cease, and nobody need ever ask for a shutdown.    *)
Fairness ==
  /\ \A t \in Tasks : WF_vars(Step(t)) /\ SF_vars(Acquire(t))
  /\ WF_vars(Exit)

FairSpec == Spec /\ Fairness

-----------------------------------------------------------------------------
(* Properties.                                                             *)

ShedPlaces == {"shed", "off", "restore"}

(* From the moment a pause is answered until it is asked back, no cycle,   *)
(* whoever started it, gets to the writes of the paused subsystem, over    *)
(* restarts as well (test_orchestrator_pause.py).                          *)
PauseHonoured ==
  \A t \in Tasks :
    /\ pc[t] = "grid" /\ plan.live => "grid" \notin promised
    /\ pc[t] \in ShedPlaces => "shed" \notin promised

(* "Shadow mode logs actions without writing to the inverter", from the    *)
(* answer to the request for it on.  Only the kill switch undoes it: when  *)
(* it puts back what it found over a request that came meanwhile, when it  *)
(* fails and puts nothing back, and when a clear saves shadow mode as the  *)
(* kill switch has it - until it is saved as on, or read as on at a start. *)
ShadowHonoured ==
  \A t \in Tasks :
    (pc[t] = "grid" /\ plan.live) \/ pc[t] \in ShedPlaces
      => "shadow" \notin promised \/ lifted

(* A cycle writes under the configuration in force: a reload or a reset    *)
(* that disables a subsystem never has a cycle still writing for it.       *)
ConfigHonoured ==
  \A t \in Tasks :
    /\ pc[t] = "grid" => "grid" \in cfg
    /\ pc[t] \in ShedPlaces => "shed" \in cfg

(* "Persist operator runtime flags across restarts": when no request is in *)
(* progress, what a restart would bring back is what is in force.          *)
Durable ==
  phase \in {"up", "closing"} /\ (\A c \in Clients : pc[c] = "idle") => file = flags

(* After a graceful shutdown with the fail-safe enabled nothing has        *)
(* written over the fail-safe, whatever reconnected before or during it -  *)
(* unless a reconnection left a stream behind that nobody cancels.         *)
FailsafeStands ==
  phase = "down" /\ "failsafe" \in cfg /\ tangles = 0 => grid = "max"

(* "Tear down and rebuild the live stream": there is one stream.           *)
OneStream == Cardinality(alive) <= 1

(* There is one stream, and at most one more for every reconnection that   *)
(* ran in the stream it was to replace or came across another one: nothing *)
(* else that a cycle, a request, a cancellation or a shutdown does to a    *)
(* reconnection leaves a second one behind (_reconnect_ha).                *)
StreamsAccountedFor == Cardinality(alive) <= 1 + tangles

(* Every request is answered, and every shutdown ends.                     *)
Answered == \A c \in Clients : pc[c] # "idle" ~> pc[c] = "idle"
ShutdownCompletes == phase = "stopping" ~> phase \in {"down", "dead"}
=============================================================================
