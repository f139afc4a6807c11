# A TLA+ verification of the Solar AI Optimizer

The optimizer sits between Home Assistant (HA) and a house with solar panels, a
battery and an unreliable grid. It decides when to charge the battery from the
grid and which loads to shed, and carries both out through HA. What is hard to
test is the control around this: coroutines that interleave at every `await`,
operators who pause, force or kill in the middle of a cycle, an HA that fails,
answers late or does nothing, restarts, files that are read, awaited over and
written back, and numbers whose memory lives from cycle to cycle. That is what is
modelled here. Paths below are relative to `src/`.

## 1. Inventory

| Component | State | Operations | Hard behaviour |
|---|---|---|---|
| Orchestrator (`backend/app/orchestrator.py`, `scheduler.py`, `main.py`) | `cfg`, shadow and pause flags, `override`, `_cycle_lock`, `_stream_task`, `latest_decision` | `control_cycle`, `apply_override`, `clear_overrides`, `reload_config`, `reset_config`, `_reconnect_ha`, `setup`, `shutdown` | flags change outside the lock; values read before an await are used after it; tasks cancel one another and themselves; start-up and shutdown race with cycles |
| Runtime state (`runtime_state.py`) | `runtime_state.json` | `load`, `save` (failure only logged) | crash between change and save |
| Executor and snapshots (`control/executor.py`, `shed_snapshots.py`) | `_switch_last_write`, pending snapshots in memory and in `shed_snapshots.json` | `_apply_shed` (shed and restore), `restore_all_sheds`, `capture`, `clear`, `prune`, `load` | every HA call may fail, lie or be lost; owner uses the switches; crash; config reload |
| Safety guard (`control/safety.py`, `_apply_action`, `_apply_emergency_writes`) | `_last_write` per capability | `violates_hard_bounds`, `clamp`, `should_skip`, `record_write` | rate limit over failures and replacement of the executor; boundary values |
| Rule engine, priorities, shedding plan (`engine/`) | hysteresis timers, last decision | `decide`, `plan` | hysteresis over sequences of cycles |
| MPC (`engine/mpc.py`) | model, pin | `decide`, falls back to the rules | fallback |
| Grid charge (`grid/`) | `_last_grid_charge_amps`, the event log | `compute_ramp_plan`, `compute_stats`, the opportunity windows | the order of cap chain, threshold, minimum and step; intervals rebuilt from a log that repeats or lacks events |
| Ingest (`ingest/collector.py`, `adapters/`) | cache, `_last_grid_present`, `_latest` | `sample`, `_handle_grid_state`, `run_stream` | REST samples race with stream events; state set before it is stored |
| HA client (`ha/client.py`) | circuit, failure counts, `last_seen` | `stream_states`, `_record_failure`, `ping` | one back-off and one circuit for several classes of failure; the way out of an open circuit |
| HA OAuth (`ha/oauth.py`) | `ha_oauth.json`, pending state | `ensure_access_token`, `finish_authorize`, `clear_oauth` | read, await, write back |
| Self-update (`api/system_update.py`, `scripts/docker-self-update.sh`) | lock, pending, progress and failure files; containers | apply, restore, stale-lock clearing, swap, rollback | check-then-act over an await; two processes; failure at every step |
| Pairing and clients (`api/pair_routes.py`, `auth/`) | pending code, last redeemed code, client file; rate limits in memory | start, cancel, redeem, revoke | expiry, single use, burning, over restarts and unreadable files |
| Broadcast, tickets, sessions (`broadcast.py`, `api/ws*.py`, `api/session.py`, `api/auth.py`) | queues, tickets, revoked sessions, login failures | subscribe, broadcast, login, logout, mint, consume, resolve, gate | bounded queues; a logout between middleware and handler; settings read once per layer |
| Configuration (`config_store.py`, `config_migration.py`) | base YAML, runtime file, running configuration | `load`, `update`, `reset`, eight migrations | a chain of migrations over a file that is not written atomically |
| Forecast (`forecast/`) | zone and provider hints, bundle, learned model and its file | `refresh`, `update_config`, import, retrain, `load_model` | configuration changes in the middle of a refresh; what is kept when a fetch fails |
| Storage, MCP, services, routes, i18n, frontend, packaging | see PROJECT.json | mostly reads | — |

How they interact: the scheduler calls `control_cycle`; the stream task calls it
through `Collector._handle_grid_state` → `_on_grid_change`; routes and the MCP
server call the orchestrator's methods; a cycle refreshes the OAuth token (which
may replace the HA client, the stream task and the Executor), samples, decides,
and calls the Executor, which calls HA. Everything runs in one asyncio event
loop, so interleaving happens at awaits only, and `_cycle_lock` serialises
cycles, kill switch, reload, reset and the writes of the shutdown — but not the
operator's flags, nor reconnections asked for by the API.

What makes each correct, in one line: *orchestrator* — what the operator asked
for and was told is done holds until asked back, whatever runs at the time;
*executor* — every load it switched off can be and is switched on again, and
nothing else is; *guard* — the inverter is written within bounds, seldom enough,
and in the end as decided; *ingest* — every grid transition is noted and stored once, and what it believes is
where the grid is; *client* — it always reconnects, at a pace that fits the
failure; *OAuth* — the token in use is the one the administrator obtained last;
*engine and ramp* — a decision is sound in itself and no current or reserve jumps
from one cycle to the next; *self-update* — one helper at a time and always
something to go back to; *pairing* — a code makes one client, and a client stays
until revoked; *sessions* — what logged out stays out, but for a ticket under way; *gate* — nothing is reached
without the credential it asks for; *status* — a dashboard only moves forward, and
catches up; *configuration* — what runs is what a restart would load; *forecast* —
no curve is taken for what it is not.

The hazards are listed with their lines in `PROJECT.json`.

## 2. Modules

| Module | What it is |
|---|---|
| `ControlLoop` | the Orchestrator: tasks, lock, flags, state file, stream tasks, kill switch, start-up and shutdown |
| `ShedExecutor` | `_apply_shed` await by await, with the snapshot store and its file, over a faulty HA |
| `ShedContract` | abstract: what shedding promises about each load; `ShedExecutor` implements it |
| `WriteGuard` | a grid-charge decision or emergency on its way to the registers, with `SafetyGuard` |
| `SelfUpdate` | the routes that install, restore, restart and recreate, and the helpers that exchange the container |
| `Deployment` | abstract: what an installation promises; `SelfUpdate` implements it |
| `HAStream` | the live state stream: failure classes, back-off, circuit, probe |
| `GridIngest` | the collector on top of it: cache, transition, lock, database, sample, prime; extends `HAStream` |
| `HAOAuth` | token file, pending authorisation, refresh, and the client rebuilt for each token |
| `Priorities`, `GridOpportunity`, `ChargeRamp`, `RuleEngine` | the pure part of a decision, each extending the one before: weights; statistics of the grid; cap chain; reserve, shedding plan and the engine with or without MPC |
| `DecisionCycle` | the cycle that feeds the results of `RuleEngine` back into the next |
| `GridHistory` | reference for `GridOpportunity`: what was the case in every minute |
| `AccessClock` | the clock of `Pairing` and `Sessions` |
| `Pairing`, `Sessions`, `StatusStream`, `Gate` | paired clients; logins and tickets; dashboards; who may reach what |
| `ConfigStore` | base, runtime file, layouts and migrations |
| `ForecastService` | refresh, zone, curves and learned model over their awaits |
| `MC*` | instances for TLC: override bodies, configurations, symmetry |
| `*Proofs` | the theorems: of the module of that name; `AccessProofs` of the four modules `MCAccess` joins and of `HAOAuth`, `IngestProofs` of `HAStream` and `GridIngest`, `ConfigProofs` of `ConfigStore` and `ForecastService`, `EngineProofs` of `DecisionCycle` with all it extends and of `GridHistory` |

The first three are layers of one program. `ControlLoop` decides *when* `_apply_shed`
and `_apply_action` run and lets HA answer; the two others are about *how* they
run over an HA that fails, and rely on what `ControlLoop` shows: that their calls
do not overlap (theorem `OneAtATime`) and that they may be replaced between and,
by a reconnection, during calls. `SelfUpdate` is about the container the whole
program lives in; to the others it is a shutdown or a crash. `GridIngest` is the
stream task and the sample of a cycle, which `ControlLoop` has as a grid change that
may come at any time; `DecisionCycle` is the decision that `ControlLoop` chooses
freely; `HAOAuth` is where its `NewToken` and `Credentials` come from, and
`ConfigStore` where the configurations of `Reload` and `Reset` do.

### ControlLoop

`pc[t]` is the await a task has reached, `job[t]` what it was started for. Tasks
are `"tick"` (the scheduler's job, `max_instances=1`), `"main"` (start-up and
shutdown), stream tasks and requests. An action is the code between two awaits:

| Code | Actions |
|---|---|
| `setup` | `Boot` |
| scheduler, `_on_grid_change`, `POST /cycle`, `/override/clear` | `Tick`, `GridChange`, `Ask`, `Clear`, then `StartCycle` |
| `_control_cycle_body` | `Refresh`/`NewToken`, `Decide`, `WriteGrid`, `Snapshot`, `WriteShed`, `Finish`/`FinishFails` |
| `apply_override` | `Request` (flags, at once), `StartCycle` …, `Answer` (save) |
| `apply_override(kill_switch)` | `Kill`, `KillBegins`, `WriteMax`, `BringBack`, `KillEnds`/`KillFails` |
| `reload_config`, `reset_config` | `Ask`, `Reload`, `Reset`, then the cycle body |
| `_reconnect_ha` | `CutStream` (cancel and await the stream), `NewStream` |
| `shutdown` | `Shutdown` (what is needed), `ShutdownBegins`, `BringBack`, `WriteMax`, `ShutdownEnds`, `Exit` |

`flags` are `shadow_mode`, `paused_*` and `override.force_*` (True or not);
`file` is the state file. `cfg` is the set of enabled features; "failsafe" is
`shutdown_failsafe_enabled` with the grid-charge registers mapped, and they are
taken to be mapped. What a decision contains is chosen freely within what the
configuration, the force flags and the pending snapshots allow (`GridPlans`,
`ShedPlans`); the shadow flag is the one the decision phase passes to the
grid writes, and is read again for the shed writes, as in the code. Cancelling a
task in the middle of a write leaves it open whether HA carries the write out
(`Interrupt`).

Four history variables. `asked[c]` is what a request in progress asks to be left
alone, `promised` what was answered and not asked back since. `lifted` says that the
kill switch has left shadow mode off although somebody wants it: because it put back
what it found over a request that came meanwhile, because it failed and put nothing
back, or because a clear saved the flag while the kill switch had it off; until shadow
mode is on in memory and in the file again. `tangles` counts, since the start, the
reconnections that cut no stream although one was running or about to be made: those
that run in the stream they are to replace, and those that come across another one.

Left out: `paused_optimization` and `reserve_soc` (they change the contents of a
decision, not whether it is written), the combination `pause_engine=False` with
`pause_<subsystem>=True` in one body, pruning (in `ShedExecutor`), the demo mode.
`settings.shadow_mode` has its default, True. The server drains its requests
before it shuts the application down, and the scheduler's cancellation of the
tick, which takes effect on the next turn of the loop, is part of `Shutdown`: when
nothing is needed the stream is cancelled with it (`CloseNow`), otherwise the
shutdown asks for the lock (`AskForLock`). A tick that is just awaiting the stream it
has cancelled takes its own cancellation for the stream's and suppresses it
(`orchestrator.py:215`), so there the model leaves open whether the tick goes on.

### ShedExecutor

`power` is what HA reports, `settings` the loads whose companion entities hold
what their owner set, `snap` and `disk` the pending snapshots, `recent` the
entries of `_switch_last_write` younger than `min_write_interval_seconds`.
`wanted` is the plan; `wanted = {}` is also the kill switch and the shutdown.
The history variable `owed` holds the loads the executor took from on to off and
nobody has switched on since. Faults are drawn from `Faults`, at most
`MaxFaults` in a behaviour; `doubt`, also history, holds the loads one of them
has deceived the executor about: their snapshot could not be read, was read from an
answer of "unavailable", or could not be saved, a
write to them was carried out or ignored unseen, or their owner operated them. A
shed that finds such a load plain again (nothing pending, nothing
misremembered) takes it out of `doubt`. A reconnection from outside the lock may
replace the Executor, and its record of recent writes, in the middle of a shed;
here it is replaced between calls only (`Reload`).

`ShedContract` has no snapshots, files or calls, only a state for each load: on, off,
owed or unknown. `Standing` is the refinement mapping: a load in `doubt` is unknown, one
in `owed` is owed, any other is what HA reports. Everything the executor does between the
two switchings of a load is then a stutter, failed saves, crashes and retries included;
what is left are the steps the contract allows. It says nothing about the owner's use of
a switch but that the load is unknown from then on, until the executor finds it with
nothing pending.

### WriteGuard

The two capabilities of a decision, the switch before the current, and the same
for an emergency, which bypasses the watchdog and the rate limiter and is
recorded by it. Ages stop counting at `Interval`. `since` is `_last_write` of
the live guard; after `Rebuild` a call in progress goes on with the `old` one, as
`Executor._guard` does. The value half of `_last_write` only chooses between two
reasons for the same refusal and is not kept. Currents are in quarters of an
ampere because `_equal` takes less than half an ampere for nothing. Two history
variables: `age` is the time since the register was really written by the
program, `forgot` the registers written less than `Interval` ago of whose last
write the guard in use holds no entry.

### SelfUpdate

Two kinds of processes: the service, in the container `app`, and helpers, each in
a container of its own. They share the data volume — `lock`
(`.update_in_progress`), `pending`, `failed`, `deploy`, `data` and `backups` — and
the Docker daemon, where a helper renames `app` to `old` and creates a new `app`.
`pc` of a helper is the next command of `docker-self-update.sh`, from `cmd_update`
and `cmd_restore` down through `atomic_swap` and `rollback_to_old`; `set -e` ends
the script where a rename fails (`Rename`, `RenameBack`).

| Code | Actions |
|---|---|
| `apply_update` | `ApplyRequest` up to the await of the releases, then `Apply` or `ApplyRefused` |
| `restore_update_backup`, `_clear_stale_lock` | `Restore`, `ClearStaleLock` |
| `restart_service`, `recreate_service` | `RestartService`, `RecreateService` |
| `remove_stale_old`, `do_backup`, `do_pull` | `Begin`, `DoBackup`, `DoPull` |
| `cmd_restore` | `FindBackup`, `Stop`, `Rename`, `Clear`, `Extract`, `Discard` |
| `atomic_swap` | `Stop`, `Rename`, `Recreate`, `Verify`, `Accept` |
| `rollback_to_old`, `fail`, `success_cleanup` | `Remove`, `RenameBack`, `Resume`; `Fail`, `GiveUp`; `Finish` |

A backup is the files it archives, the lock among them: extracting one brings an
old lock back (`Extract`). `mishaps`, a history variable, records what no helper
can make good, so that the properties can say after what they fail and after
nothing else: two requests that both took the lock (`race`), the lock of a helper
at work cleared (`early`), two helpers at work (`overlap`), a helper killed with
the containers in its hands (`kill`), a failed restore (`restore`), a service that
stopped itself (`recreate`), a helper killed when it was to clean up after a failure
(`unclean`).

`Deployment` has a phase and a version in force. `Phase` and `Version` are the
refinement mapping: with an `old` container the version in force is that one and
`app` is on trial; during a restore, which keeps nothing to go back to, there is
none; and after `overlap`, `kill`, `restore` or `recreate` the deployment is lost.

Left out: the progress file and the logs, the environment of containers, images
(`cleanup_old_images`; a pull that fails shows as a container that cannot be
created, because `do_pull` does not see it), versions and their order, the ASGI
server's own failures. `Finish` writes the deploy state and removes the files in
one step.

### HAStream and GridIngest

`pc` is where the stream task stands: connecting, open, holding a yielded event,
waiting, or behind the circuit. `_record_failure` is modelled with its numbers
(seconds, doubling, caps, counts); the hub is up, down, refuses the token or bans
the address, and changes its mind at any time. `request_retry` and the event behind
it are left out because nothing in the program calls it.

| Code | Actions |
|---|---|
| `stream_states` | `Connect`, `ConnectFails`, `Yield`, `CloseClean`, `ConnectionBreaks` |
| `_wait_before_retry`, `_wait_while_circuit_open` | `WaitEnds`; `CircuitWaitEnds`, `ProbeAnswered` |
| `run_stream`, `_handle_grid_state` | `StreamTask`: notes the transition, then awaits the save under `_grid_lock` |
| `sample` | `SampleTask`: the REST read is one step, its use a later one |
| `_reconnect_ha`, `prime_grid_state` | `ReconnectCancels`, `ReconnectTask` |
| the database | a save that fails, and one cancelled halfway |

`dups`, `lost` and `raced` are history: repeated events, transitions noted and not
stored, and primes that overwrote something newer. Entities other than the grid
sensor, and the demo adapter, are left out.

### HAOAuth

A grant is an authorisation the administrator started, with its state and code;
tokens are numbers in the order the hub issues them. `file` and `pending` are the
two files. A refresh has two awaits (`RefreshSends` to the answer, then
`RefreshStores`, `RefreshClears`, `RefreshDegrades` or `RefreshUnreachable`), a
callback likewise. `crossed` (a refresh came across a new authorisation or a
disconnection) and `strayed` (the client has not been rebuilt for what is stored, or
two rebuilds overlapped) are history. The program's margin on `expires_at` is
abstracted.

### The decision: Priorities to DecisionCycle

Currents, watts and percentages are integers and fractions ten-thousandths, rounded
down; so a value may be one unit below the program's float, which no property tells
apart. Unknown readings are a sentinel, and every operator follows the code's case for
them. Sums are `SumFunctionOnSet` and the running deficit of `PeakDeficit` is a
recursive function over the hours, so that they can be proved about. A shedding plan
has one record for each tier, in their order: the loads it switches, and which way.
`Input` and `Configuration` say what a cycle may see and how it may be configured:
whole numbers throughout, a clear day's yield of one at least (`forecast/helpers.py:16`)
and a capacity above zero, by which `compute_reserve` divides (`rules.py:160`). The linear program of the MPC is external: it came out served, unserved or not
at all. `DecisionCycle` keeps `_prev_effective_critical_w`, `_last_grid_charge_amps`
and `latest_decision` between cycles, and a cycle has a decision and an execution,
between which nothing else happens (the lock); the inverter may fail a write, carry
it out unverified, the database may not take the decision (`Close`), or the process
may restart. A decision that plans no grid charge has `NoPlan`, not a plan of nothing.
`before`, `offs` and `astray` are history. Wording, rationales and
`mpc_weights` are left out, and one entity in two tiers is not among the
instances.

`GridOpportunity` is translated from `reactive.py` and `opportunity.py`;
`GridHistory` is its reference, which looks at the log minute by minute. The
program's list comprehensions and its merging loop are recursive functions over
positions (`Picked`, `merged`), about which induction can be done.

### Pairing, Sessions, StatusStream and Gate

The parts of the HTTP surface with state; they share the clock and nothing else.
`Pairing` operations enter the lock, read the file, and leave it with what they
write; `Leave` may fail to write, a read may fail, the process may restart, which
forgets the rate limits. `Sessions` splits a request for a ticket where the
middleware ends (`AskTicket`) and the handler begins (`MintTicket`); `of` and `late` of a
ticket, which session asked for it and whether it had logged out by then, are history. In
`StatusStream` statuses are version numbers; `Broadcast` is atomic because the code
awaits nothing in it, the greeting and each send are steps. `Gate` follows one
request through `UserContext`, `AuthGate` and `Handle`, each of which reads the
settings and the paired clients for itself.

### ConfigStore and ForecastService

A configuration is a function from dotted leaf names; for each thing a migration does
(move, join, drop, leave alone) there is a leaf it happens to. `torn` and `pristine`
are history. A runtime file may be unreadable or not written to its end, which the
code takes for empty. `ForecastService` has a refresh that awaits history, zone
lookup and both fetches, and changes of the configuration that may land at any of
them. A curve is where it was asked for; the learned load model is untrained, own or
imported; `placed`, part of the bundle, and `kept` are history.

## 3. Runs

Passing runs:

| Run | Question | Instance |
|---|---|---|
| `shed` | can, and will, every shed load come back? is nothing else switched on? is `ShedContract` kept? | 2 loads, all eleven kinds of fault, 2 at a time; with fairness |
| `loop_pause` | is a pause honoured against concurrent resumes, forces, kills, clears, crashes? | 2 requests, 1 stream |
| `loop_requests` | the same for shadow mode and the configuration, with kill switch, clear, reload, reset and reconnection; is the state durable, is the fail-safe of a shutdown written last, are there streams that nobody accounts for? | 2 requests, 2 stream names, 2 configurations, new tokens, crashes |
| `loop_shutdown` | is every request answered, and does every shutdown end? | 2 requests, 1 stream name, new tokens, crashes, database failures; with fairness |
| `guard` | are writes bounded, spaced, refused rather than bent, and do they arrive? | 3 currents, 2 limits, hard bounds on and off, all eight faults, 2 at a time; with fairness |
| `update` | do helpers exclude one another, does every installation implement `Deployment` and end, are no torn data served, does a restore start the version in force? | 2 versions, 2 requests, 2 helpers at a time, 3 in all, 1 backup kept, any one of eight faults; with fairness |
| `ingest` | do back-off and circuit fit the failures, does the stream return, do memory and event log agree, do they settle on the grid? | 3 readings, all four treatments by the hub, 2 queued events, 2 flips, 1 database fault, 1 reconnection or restart; with fairness |
| `oauth` | do file, hub, client and the administrator's last word agree, and is an expired token renewed? | 2 authorisations, 4 tokens, 4 who may rebuild the client, 2 faults; with fairness |
| `engine` | is a decision sound, do the statistics say what happened, is every step bounded? | 4 configurations, 13 kinds of input in any order, 2 loads, 1 write that fails or decision that is not saved; histories of 8 minutes and 4 events |
| `access` | do clients, codes, logouts and gates hold, and are dashboards served in order? | 2 codes, 1 address, burnt after 2; 2 sessions and tickets, time to 3; 2 dashboards, queues of 2, 3 statuses; every deployment and request; with fairness of handlers |
| `config` | does an upgrade keep what a file says, is what runs what a restart loads, is a forecast what it calls itself, does the zone settle? | 19 states of the runtime file, of all layouts, absent and unreadable ones among them, 3 bases, 4 patches, 2 faults; 3 places, 2 providers, 2 changes, 2 model steps, 1 failed fetch; with fairness of the refresh |

Why these bounds are enough to be interesting: two loads are needed for a call
about one to interleave with the pending snapshot of the other, and two faults
for a crash after a failure. Two requests, the tick and a stream give four
contenders for the lock, one more than any property needs; two stream names are
one more than there should be. Interval 2 has a state before, at and after the
boundary; currents 3 and 4 quarters are "equal" to the guard, and 4 is above the
smaller limit. `MaxFaults` bounds the faults; `NamesLeft` bounds the stream tasks
to the names there are. Two helpers are one more than there should be, the third
lets a restore follow two updates, and with one backup kept a second update
prunes the first one's. One fault at a time keeps `update` small; the invariants
and the refinement were also proved, and so hold for any number. With more faults
`RestoreKeepsVersion` has a case that one fault does not reach and that it excepts: a
helper so slow that its lock expires, a second request in the new container it is
verifying whose spawn reports nothing, a failed verification and a helper killed before
it cleans up, all together, leave the wrong version pending.

In `ingest` two flips bring the grid back to where it was, which is what a stale
sample needs to be wrong twice; in `oauth` the second authorisation is the one a
refresh of the first can undo, and four tokens let each be refreshed once. The
histories of `engine` hold a look-back shorter than they are, both windows, and an
outage that is ignored next to one that is not. Its inputs each differ in one
thing from a usual cycle, and any may follow any; the minimum, the
step, the threshold and the floor are all below the ceiling and differ. In `access`
a time of 3 passes the end of codes, sessions and tickets with the instant of the
end itself, two dashboards are one that stays and one that leaves, and queues of
two overflow at the third status. In `config` a file of each layout carries the
keys that layout had, old and new together where both may occur.

`MCAccess`, `MCConfig` and `MCDecisionCycle` explore one of their parts in each
behaviour: these share no state but the clock, so their product would add states and
no behaviour.

One run refutes a comment (the finding in `PROJECT.json` has the quotation):
`loop_one_stream`, a stream that reconnects in its own cycle survives its own
cancellation.

The passing runs `shed`, `guard` and `update` exclude no fault of their modules;
the properties say instead what each fault does to the load, register or
deployment it strikes (`doubt`, `forgot`, `mishaps`), and that it does nothing to
any other. All `loop_*` exclude a state file that cannot be written (`save`), under
which a pause is in force but need not survive a restart. `loop_pause` and
`loop_requests` exclude a failing database (`db`) too: a request that fails with
`save_decision` has changed the flags in memory and saves none of them, which is what
`Durable` would see; for the pause and for shadow mode the theorems allow it, and
`loop_shutdown` has it. The properties say what else the code does not keep:
`ShadowHonoured` excepts what the kill switch has `lifted`, `FailsafeStands` a
stream that a tangled reconnection left behind, and `StreamsAccountedFor` counts
one stream for each of these. Both kinds of tangled reconnection occur in
`loop_requests`, and without the exceptions TLC refutes all three there.

Divergences the modules also show and that have no run of their own. They are what
the exceptions in the properties are for.

* *Reconnection.* Two reloads of the credentials that overlap each start a stream: the
  second finds `_stream_task` already None, and the stream started first is then
  nobody's to cancel (`orchestrator.py:213`, `:230`), neither in the next
  reconnection nor in the shutdown, whose fail-safe a cycle of it may write over. So
  may one that a stream has started in its own cycle (`loop_one_stream`).
* *Shedding.* A snapshot read that fails lets the load be switched off without one,
  and the next cycle records it as "was off", although `executor.py:234` says "Do not
  invent was_on=False" (`executor.py:229`). A read that is answered, with "unavailable" or
  "unknown", does invent it: it counts as off (`entity_restore.py:130`), the load is
  recorded so and switched off, and the restore drops the snapshot without switching it
  on (`executor.py:335`). That is the fault `"unavailable"`; such a load stays off until its
  owner acts, and the properties except it (`doubt`). A snapshot taken before a stale period
  outlives the owner switching the load off (`docs/configuration.md:119`). A restore
  that HA acknowledges and does not carry out drops the snapshot
  (`docs/configuration.md:122`), and so does one that takes an older record of
  switching on for a recent write.
* *Operator and shutdown.* The kill switch puts back the shadow flag over a request
  made meanwhile (`orchestrator.py:986`), and leaves the system live if its audit
  raises; a clear while it is at work saves shadow mode as off, which a crash then
  makes true (`orchestrator.py:1042`). A tick cancelled by the shutdown while it
  reconnects may survive (`orchestrator.py:215`) and start a stream that is cut only
  if the shutdown has waited for the lock. A force set before the kill switch sheds again after it, and a kill switch
  pressed while grid charge is paused makes no emergency write (`README.md:137`).
  Shutdown decides before it has the lock whether sheds are pending
  (`orchestrator.py:413`).
* *Inverter.* A reload or a reconnection builds a new `SafetyGuard`, which has
  forgotten the last writes (`orchestrator.py:261`; "EEPROM write-rate limiting",
  `safety.py:1`); a write whose answer is lost is not rate-limited either.
* *Self-update.* `recreate_service` begins with stopping the container its own
  process lives in (`system_mcp.py:263`). Two requests to install at once may leave
  neither version running, although "failed installs roll back to the previous
  container automatically" (`CHANGELOG.md:617`). A restore starts the version in
  force, not the "previous image" (`docs/ingress-auth.md:167`), and leaves the
  service down if it fails.
* *Ingest.* A REST snapshot older than a stream event logs a transition that never
  was (`collector.py:114`), although the grid state is primed to "only log real
  transitions" (`collector.py:68`).
  `connected` stays true after a clean close and after the stream task has crashed.
* *OAuth.* A rejected refresh clears a pending authorisation and newer tokens;
  `finish_authorize` unlinks a newer pending one; after a rejection the client is not
  rebuilt; two reconnections may resolve in one order and build in the other.
* *Engine.* "Lower-priority tiers shed first" (`config.py:309`) is each tier's own threshold: nothing
  orders them across tiers, and an entity in two tiers gets contradictory actions
  (`shedding.py:34`). The ramp step undercuts `min_grid_charge_a` when it is smaller
  than it or the ceiling fell (`ramp.py:402`). The fall-back of
  `_update_last_grid_charge_amps` reads the decision before (`orchestrator.py:848`), an
  older one when `save_decision` raised (`orchestrator.py:627`), and takes nothing back
  while there is no plan (`rules.py:405`): two cycles without charge need not return the
  ramp to zero, two that planned to charge nothing do if the first was saved.
  A battery that sinks just below the solar bridge may be charged more slowly than one
  just above it: the factor's ceiling has no limit from the bridge up and a quarter of
  the current below (`ramp.py:274`; the test `test_grid_charge_ramp.py:241` wants it so).
  There is no ramp in the first cycle after a start, a plan to charge nothing
  does not write the current register, a state older than the look-back is forgotten, and the first
  window is trusted for a part of its length only.
* *Access.* An unreadable client file is written back empty by start and cancel
  (`api_clients.py:82`). A restart forgets logouts and rate limits, while session
  cookies and the count of wrong codes last. A request for a ticket that a logout
  overtakes between the middleware and the handler gets a ticket tied to nobody
  (`auth_routes.py:117`), which opens one WebSocket for the session that has ended, within
  30 s; `ws_tickets.py:41` and `auth_routes.py:111` mean to prevent that. `api/auth.py:22` says "every HTTP request and
  WebSocket upgrade"; a `BaseHTTPMiddleware` sees HTTP requests only, and `/ws`
  resolves its caller itself.
* *Configuration.* `update` merges without the migration that `load` applies; a base
  in a layout before 3 loses its charge limit, because `migrate_config_data` starts at
  the third; an unreadable file drops all overrides, and the next update then stores
  the patch alone; an invalid value drops them all while it is there; a file of a newer layout is used as it is and
  stamped 8 by the next update.
* *Forecast.* With Solcast the zone hint of Open-Meteo is never replaced, so "auto"
  stays the old site's zone after a move (`docs/configuration.md:19`). A restart reads
  the service's own trained model as an import and so pauses retraining, and an import
  whose model cannot be loaded pauses it too (`frontend/src/locales/en.json:874`); an import that
  raises midway leaves half of itself in memory.

Deadlock is checked except in `update`, `oauth`, `engine` and `access`: a service
that stopped itself, or whose restore failed, stays down, and in the others
the bounds on time, tokens and inputs end a behaviour. Elsewhere a program that is
up can always go on, and one that is down can be started.

### Fairness

Safety is checked without any. For liveness:

* `ControlLoop`: every await ends (HTTP and WebSocket calls have time-outs, the
  verification delay is a sleep), hence weak fairness of the steps of a task. The
  lock is handed on first come, first served by `asyncio.Lock`, hence strong
  fairness of taking it. No fairness of ticks, requests, grid changes or
  shutdown.
* `ShedExecutor`: awaits end; a cycle calls `_apply_shed` for every action of its
  plan in turn and the scheduler repeats cycles for ever, so no load is passed
  over; HA is heard again after a stale period. Faults are finitely many. Records
  of recent writes need not expire, nor need a plan be stable: the
  property assumes that it is.
* `WriteGuard`: cycles go on, awaits end, time passes, HA comes back.
* `SelfUpdate`: a helper that is not killed goes on, since it is a sequential
  script, every command of which Docker answers. No fairness of requests, of the
  dashboard's look at the lock, or of time.
* `HAStream`, `GridIngest`: the tasks of the event loop run (their waits are sleeps
  and calls with time-outs), and the scheduler calls the cycle again and again.
  Nothing is assumed of the hub, the network or the reconnections.
* `HAOAuth`: the cycle is repeated, and a rebuild that has begun ends. None of
  callbacks or the administrator.
* `StatusStream`: every handler that can go on does; its wait ends after 30 s with
  a ping. None of broadcasts or of dashboards leaving.
* `ForecastService`: a refresh goes on and is repeated by the scheduler; fetches may
  fail `MaxFetchFaults` times.

## 4. Theorems

All for any number of loads, requests, streams, currents, helpers and versions, any
length of a history, any sets of override bodies, configurations and faults, and any bound on them.

**ShedExecutorProofs.** `TypeCorrect`. `RestoresOnlyRecordedLoads`: the action
property of the run `shed`, from an invariant on the call in progress (whoever is
about to switch on holds a snapshot that says "on"; nothing clears it under a
call, because reloads happen between calls); from the same invariant
`SnapshotsCapturedOnce`: what a shed stores, two awaits after it looked, replaces
nothing. `ShedLoadsRecoverable`, under every fault. `Recoverable` alone is not inductive: one must know of each load outside
`doubt` that memory and file agree, that a snapshot that says "off" belongs to a
load that is off, that the record of the last write tells the truth, and what
the call in progress has read (`Sure`). Each kind of fault that puts a load in
`doubt` breaks one of these conjuncts; that an owed load is off holds without
exception (`OwedOff`). `SheddingKeepsContract` is the refinement of `ShedContract`, one
lemma per kind of step (`WriteKeepsContract`, `BeginShedKeepsContract`,
`ReloadKeepsContract`): the invariant is what makes the load that is switched on an owed
one, for which `Sure` also says that a load whose snapshot says "on" and which is off was
switched off by the executor.

**ControlLoopProofs.** `TypeCorrect`. `OneAtATime`: whoever is past the lock is
its holder, and only stream tasks that are alive are anywhere at all — the
second half is what keeps cancellation from leaving the lock behind.
`WritesUnderConfigInForce` rests on it. `PausesAreHonoured`, for a state file
that can be written: what is promised is paused and not forced both in memory
and in the file, and what a request in progress asks for is so in memory; the
lock is what makes the answer wait for the cycle under way. `FlagsAreDurable` and
`ShadowIsHonoured` need to know where the task of start-up and shutdown is
(`Located`), because kill switch and shutdown borrow the shadow flag while they
write: for the first, whatever memory and file disagree about, a request in
progress is going to save (`SaveInv`) — assumed are a state file and a database
that can be written; for the second, a promised shadow mode is on in the file and,
but for the borrowed time, in memory (`ShadowInv`), unless the kill switch has
`lifted` it — assumed is a state file that can be written. While the kill switch has
the flag, either the flag or what it will put back is on (`Kept`), which is why it
lifts shadow mode only by putting back, failing or being saved; most steps touch
none of this (`CalmShadow`).

`StreamsAreAccountedFor` counts, for any number of reconnections at once, the streams
alive and the tasks that will make one: they are at most one more than `tangles`, and
no more than `tangles` when there is neither a `_stream_task` nor anybody about to make
one (`Counted`). That, with what the orchestrator knows (`Known`: `_stream_task` runs,
and who does not run is nowhere), is inductive, one lemma for each way to disturb it
(`QuietCount`, `CutCount`, `TangledCount`). `FailsafesStand` needs no other hypothesis
than the property has itself: without a tangled reconnection the count leaves
`_stream_task` as the only stream, and none while it is being replaced
(`OneUntangled`); from the moment the shutdown has drained its requests and has the
lock, nothing but itself is left that writes, and what it wrote stands (`Ending`).

**WriteGuardProofs.** `TypeCorrect`; `NeverAboveTheLimit`, under every fault;
`WritesAreSpaced`, likewise: of a register that is not forgotten the entry of the
guard in use is never older than the write it stands for, except between a write
and its `record_write`, and a call that outlives its Executor writes only what
has not been written for the whole interval (`Recorded`). `RefusedNotBent`: a call asks its
guard for what was decided (`Asked`), and what a guard that enforces lets pass
violates no bound, so the clamp leaves it alone.

**SelfUpdateProofs.** `TypeCorrect`; then the inductive invariant `IInv`
(`Invariance`), which tells for every command a helper has reached what containers
there are (`Placed`), that a helper is alone unless `overlap` says otherwise
(`Sole`), and that it has its lock unless a lock was taken twice or cleared
(`Locked`). The last part is the delicate one: a restore deletes the lock with the
other files and gets one back only because every backup was made under a lock,
and in between nobody can ask for anything because there is no container. From
it `LocksExclude`; with one more invariant (`Torn`) `WholeData`; and `Implements`,
the refinement of `Deployment`, one lemma per kind of step (`HelperInstalls`,
`RequestInstalls`, `KillInstalls`). `RestoresTheVersionInForce` adds a third invariant
(`FilesAgree`): for each command of a helper, which container the files agree with and
whether they do so (`Agrees`) or but for what a request served by another version has
made pending (`Nearly`). Between two helpers they agree with `app`. While a new container is
being verified, it can be asked for another installation only if the helper's lock has
gone; what that request makes pending, the helper drops when it rolls back, and
so only its death in between is excepted.

**AccessProofs**, *pairing.* `ClientsAreAccountedFor` and `CodesMintOnlyWhileGood` from
one invariant: whoever is inside the lock is alone there and has read the file as it is,
or nothing at all (`Callers`), and the pending code is the one issued last with all
the failures it has had (`Issued`). That the file has not changed since it was read is
why a write-back loses nothing.

*Sessions.* `LogoutsHold`: whoever logged out and would still run is on the
list, whenever it was pruned (`LoggedOut`); a ticket is tied to the session that asked
for it unless a logout had overtaken the request or the session had come to its own end
(`Tied`); and tickets, used and unused, have different numbers (`UsedOnce`). So after a
logout only the ticket of an overtaken request opens a WebSocket, once.

*Dashboards.* `DashboardsNeverGoBack`: what a dashboard shows, what its
handler is sending, its queue from front to end and the status follow one another
without going back (`InOrder`); a push that drops the front keeps that
(`PushKeepsOrder`). The greeting is built after the subscription and in the same step,
which is the case the proof turns on.

*Gate.* `TheGateHolds`: between the resolution of the session and the handler, where
pairing may open or close the API, a request keeps what it was resolved to and what
was configured then.

*Authorisation at Home Assistant.* `TokensStayTogether`: to the three conjuncts of `TokensAgree` the
invariant adds what an await holds on to: the data a refresh has read join a token to
its grant as the file does, an answered callback holds a token of its own grant, the
refresh under way is of the newest grant unless `crossed`, and unless `strayed` at
most one rebuild is under way and has resolved what is stored.

**IngestProofs.** `BackoffAlwaysFits`: the wait is computed from the class and the
length of the streak under way, and an open circuit has its streak still standing.
`TheGridLogAgrees`: who holds the ingestion lock has noted a transition that is not
stored yet, and nobody else has; each repetition in the log is counted against the loss
or the race that caused it, at the step that causes it. The assumption
(`ReadingsAssumption`) is that a reading is on, off or unknown.

**ConfigProofs.** `RunsReloadable` and `UpgradesKeepMeaning` from one invariant
(`StoreInv`): the file is of the current layout once the program has read it, what
runs is what base and file give, and until the first update the file says what the one
found at the first start said. The lemma they share, `MigratedSays`, is the migrations'
correctness for every file of every layout: reading the migrated file is reading the
old one field by field. `ConfigAssumption` says what files there are: values in `Nat`
(they stand for values of any type), each file within the keys its layout had, a base
that is valid, and patches with the keys of today's settings page. The code does not
check the last: a client of the API that sent `forecast.timezone` would have it stored
under today's version, ignored while the process runs (`config_store.py:72`), and
moved to `site.timezone` by `migrate_config_data` at the next start.
`ForecastsAreTrusted`: a refresh that publishes has fetched for a place configured
since it began, and the zone of the load profile is set in the step that sets the zone.

**EngineProofs.** For every configuration and every input, with any history, forecast,
horizon and tiers. `TheCycleRemembers` has the inductive invariant (`CycleInv`): the
decision being carried out is still what `decide` makes of the memory, because nothing
comes between the two; the memory of the current is not above the register unless
`astray`; a cycle that plans to charge nothing and is saved leaves a plan that says so,
and a second one leaves a memory of zero; and the effective load remembered is that of the last cycle that saw one.
`TheStepsAreBounded` follows from it with what one decision may do.
`DecisionsAreSound` is about the pure part. Its long half is monotonicity: each factor
of the cap chain is shown not to fall when the state of charge falls or the target
or the risk rises, each in a lemma of its own; a minimum, a product of
shares and a rounding keep that, and so do blending, threshold, minimum and step in
their order (`CapChainMono`, `OpportunisticPlanMono`, `GridChargePlanMono`,
`RiskMono`, `SheddingMono`, `DecideMono`). That the MPC only adds (`MpcAdds`) is then
the same monotonicity in the target and the risk. The sums are shown to be whole
numbers (`SumIsInt`, `PeakType`), by well-founded induction; what they add up to does
not matter to `DecisionsAreSound` and `TheStepsAreBounded`. The assumption is `CycleAssumption`: inputs and
configurations of the right types, and a floor of the battery no higher than its
ceiling, which `config.py:194` has as defaults and nothing checks. The proof found the one place where
charging is not monotone, the ceiling of the solar bridge, which the property names.

`StatisticsAreHistory` is about what a decision reads of the grid, for a log of any length
and any configuration. The inductive invariant (`HistoryInv`) says only that the log is
ordered and not ahead of the clock; the work is in what the algorithms compute from such
a log, by induction on its length (`Induction`, over a set of numbers, since the
library's rule takes an operator). `PickedSelects`: a list comprehension keeps what it
selects, in order. `StateAtStart`: what the program takes for the state at the
start of a window is true as far as its look-back reaches, and presence is never
made up. `IntervalsDescribe`: the intervals of a window follow one another without a
gap from its start to its end, and each says of its minutes what the last event before
them says. From there, `SumIsCount`: adding the intervals up counts minutes
(`SumUnfolds`: a sum over a finite set adds its members one by one, in any order).
`MergedStep`: after each spell the windows consist of the spells so far and the gaps
of at most `ignore` minutes between them, and are further apart than that;
`GapIsBridge` translates such a gap into the reference's minutes. The elapsed time
follows without the look-back, as a window can only begin with presence that was
there. The assumptions are `OpportunityAssumption` (the windows are positive and the day
is not longer than the week) and `HistoryAssumption` (types).

Only model-checked: all liveness (it needs fairness and ENABLED, which the prover
does not treat). Every other property of a passing run is stated by a theorem, and `SnapshotsCapturedOnce`
states one that only the proof covers.
The type invariants are conjuncts
of the invariants they support, or theorems (`TypeCorrect`), and have no run of their
own where they are theorems.

## 5. Plan

Done: the control loop with executor, guard and self-update; stream, collector and
OAuth; the engine from the event log to the register, with its
proofs; the contract of shedding; pairing, sessions, dashboards
and gate; configuration and forecast service.

Next, in this order:

1. The composition of `GridIngest` with `ControlLoop`, in which a notified transition
   starts the cycle that takes the next sample.
2. The order of versions and the preference for pre-releases of the self-update.

### Not modelled

The numerics of forecast, learning and the MPC's solver (real-valued estimation;
what becomes of its results is modelled), bias learning, the order of versions in
`system_update.py` (identifiers of mixed kind are compared as strings and numeric ones
as numbers, `system_update.py:114`), the progress file, the other tables of the
database, the MCP server (another front of the same calls), read-only services and
routes, demo mode, the frontend, packaging and translations. In modelled components:
the runtime state file that cannot be written is excluded from `loop_*`; a companion
whose restore fails is logged and forgotten (`executor.py:265`); a handler of a
WebSocket that is cancelled during its greeting; the 409 answer to a code just
redeemed and the normalisation of codes; the encoding of cookies; the second zone
lookup at start-up, which runs outside the refresh lock; `ML_LOAD_ENABLED` is taken to
be set; the heartbeat entity. A rewrite of the runtime file that is cut short leaves a
file that has lost keys or cannot be read (`TornFiles`), not one with a value cut in two.
