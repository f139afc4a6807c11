------------------------------ MODULE SelfUpdate ------------------------------
(***************************************************************************)
(* Installing and restoring from the dashboard: the routes of              *)
(* system_update.py and system_mcp.py, served by the application's own     *)
(* container, and the helpers they spawn, which run docker-self-update.sh  *)
(* outside of it and exchange that container.                              *)
(*                                                                         *)
(* The two sides know of each other only through files on the data volume: *)
(* the lock, the pending update, the note of a failure and the deploy      *)
(* state.  The progress file and the logs are left out: they are only      *)
(* shown.  pc names the command a helper has reached:                      *)
(*                                                                         *)
(*   begin -> backup -> pull -> stop -> rename -> recreate -> verify       *)
(*         -> accept -> finish                              an update      *)
(*   begin -> check -> halt -> move -> clear -> extract -> discard         *)
(*         -> stop -> ... -> finish                         a restore      *)
(*   remove -> back -> resume -> fail -> giveup             a rollback     *)
(*                                                                         *)
(* A request dies with the container it runs in, and with its name, which  *)
(* only another helper can take from it while it is up.  Docker answers    *)
(* every command, and stop, start, rm and rename fail only when a          *)
(* container of the name is missing or in the way.                         *)
(***************************************************************************)
EXTENDS Integers, Sequences, FiniteSets

CONSTANTS
  Images,     \* the versions that can be installed
  None,       \* no image
  Clients,    \* requests that may be in progress at once
  Helpers,    \* helpers that may be at work at once
  BackupRetention,
  MaxSpawns,  \* bound: how many helpers are spawned in all
  Faults, MaxFaults

FaultKinds == { "spawn",    \* docker run of the helper fails, or is never heard of
                "backup",   \* the data cannot be archived
                "recreate", \* neither way of creating the container works
                "sick",     \* the new container is created but does not serve
                "late",     \* it serves, but not within HEALTH_TIMEOUT
                "data",     \* the data cannot be cleared or extracted
                "slow",     \* a helper writes no progress for 30 minutes
                "kill" }    \* a helper dies

ASSUME ImagesAssumption == None \notin Images
ASSUME RetentionAssumption == BackupRetention \in Nat \ {0}
ASSUME UpdateFaultsAssumption ==
  /\ Faults \subseteq FaultKinds
  /\ MaxFaults \in Nat /\ MaxSpawns \in Nat

Image     == Images \union {None}
Container == [img: Image, up: BOOLEAN, ok: BOOLEAN]  \* ok: it serves when up
Gone      == [img |-> None, up |-> FALSE, ok |-> FALSE]
Exists(c) == c.img # None

(* What do_backup archives of the files below.                             *)
Backup   == [lock: BOOLEAN, pending: Image, failed: BOOLEAN, deploy: Image]
NoBackup == [lock |-> FALSE, pending |-> None, failed |-> FALSE,
             deploy |-> None]

Steps == {"begin", "backup", "pull", "check", "halt", "move", "clear",
          "extract", "discard", "stop", "rename", "recreate", "verify",
          "accept", "finish", "remove", "back", "resume", "fail", "giveup"}
Job   == [pc: Steps \union {"none"}, op: {"update", "restore"},
          to: Image, bak: Backup]
Idle  == [pc |-> "none", op |-> "update", to |-> None, bak |-> NoBackup]

VARIABLES
  app,      \* the container of the name CONTAINER
  old,      \* the container of the name CONTAINER_old
  lock,     \* .update_in_progress: none, fresh or stale (older than the limit)
  pending,  \* from_version of .update_pending.json
  failed,   \* .update_failed.json is there
  deploy,   \* image of .deploy_state.json
  data,     \* whole, or torn between a clear and an extract
  backups,  \* .update-backups, newest first
  req,      \* the requests: none, or fetch while the releases are fetched
  helper,   \* the helpers
  spawned, faults,
  mishaps   \* history: what happened so far that a helper cannot make good

files == <<lock, pending, failed, deploy>>
disk  == <<files, data, backups>>
vars  == <<app, old, lock, pending, failed, deploy, data, backups, req,
           helper, spawned, faults, mishaps>>

MishapKinds == { "race",      \* a second request took the lock of a first one
                 "early",     \* the lock of a helper at work was cleared
                 "overlap",   \* a helper was spawned while another was at work
                 "kill",      \* a helper died between stop and finish
                 "unclean",   \* a helper died when it was to clean up a failure
                 "restore",   \* a restore failed after it stopped the service
                 "recreate" } \* the service stopped itself

TypeOK ==
  /\ app \in Container /\ old \in Container
  /\ lock \in {"none", "fresh", "stale"}
  /\ pending \in Image /\ deploy \in Image
  /\ failed \in BOOLEAN
  /\ data \in {"whole", "torn"}
  /\ backups \in Seq(Backup) /\ Len(backups) <= BackupRetention
  /\ req \in [Clients -> {"none", "fetch"}]
  /\ helper \in [Helpers -> Job]
  /\ spawned \in 0..MaxSpawns
  /\ faults \in 0..MaxFaults
  /\ mishaps \subseteq MishapKinds

NoRequests == [c \in Clients |-> "none"]

Init ==
  /\ app \in {[img |-> i, up |-> TRUE, ok |-> TRUE] : i \in Images}
  /\ old = Gone
  /\ lock = "none" /\ pending = None /\ failed = FALSE /\ deploy = None
  /\ data = "whole" /\ backups = << >>
  /\ req = NoRequests
  /\ helper = [h \in Helpers |-> Idle]
  /\ spawned = 0 /\ faults = 0
  /\ mishaps = {}

Strike(f)  == f \in Faults /\ faults < MaxFaults /\ faults' = faults + 1
Keeps      == UNCHANGED <<faults, mishaps>>
Mishap(m)  == mishaps' = mishaps \union {m}

Serving == app.up /\ app.ok
Live    == {h \in Helpers : helper[h].pc # "none"}

-----------------------------------------------------------------------------
(* The routes.                                                             *)

(* _resolve_restore_image: the image from before a pending update, or the  *)
(* one deployed last, or SELF_UPDATE_IMAGE, which names the running one.   *)
RestoreImage == CASE pending # None -> pending
                  [] pending = None /\ deploy # None -> deploy
                  [] OTHER -> app.img

(* _spawn_helper after the lock was set and p made pending; seen are the   *)
(* mishaps of the route.  The helper starts ...                            *)
Started(op, to, bak, p, seen) ==
  /\ spawned < MaxSpawns /\ spawned' = spawned + 1
  /\ Live # Helpers
  /\ helper' = [helper EXCEPT ![CHOOSE h \in Helpers : h \notin Live] =
       [pc |-> "begin", op |-> op, to |-> to, bak |-> bak]]
  /\ lock' = "fresh" /\ pending' = p
  /\ mishaps' = seen \union (IF Live = {} THEN {} ELSE {"overlap"})
  /\ UNCHANGED faults

(* ... or does not: an error takes the lock back and makes back pending,   *)
(* and without one nothing more is heard of it.                            *)
NotStarted(p, back, seen) ==
  /\ Strike("spawn")
  /\ \/ lock' = "none"  /\ pending' = back
     \/ lock' = "fresh" /\ pending' = p
  /\ mishaps' = seen
  /\ UNCHANGED <<helper, spawned>>

Spawn(op, to, bak, p, back, seen) ==
  Started(op, to, bak, p, seen) \/ NotStarted(p, back, seen)

(* apply_update up to the fetch of the releases.                           *)
ApplyRequest(c) ==
  /\ Serving /\ req[c] = "none" /\ lock = "none"
  /\ req' = [req EXCEPT ![c] = "fetch"]
  /\ UNCHANGED <<app, old, disk, helper, spawned>> /\ Keeps

(* No such release, or none that may be installed.                         *)
ApplyRefused(c) ==
  /\ req[c] = "fetch"
  /\ req' = [req EXCEPT ![c] = "none"]
  /\ UNCHANGED <<app, old, disk, helper, spawned>> /\ Keeps

(* The rest of apply_update, which does not look at the lock again.        *)
Apply(c, to) ==
  /\ req[c] = "fetch" /\ to # app.img
  /\ req' = [req EXCEPT ![c] = "none"]
  /\ failed' = FALSE
  /\ Spawn("update", to, NoBackup, app.img, None,
           IF lock = "none" THEN mishaps ELSE mishaps \union {"race"})
  /\ UNCHANGED <<app, old, deploy, data, backups>>

(* Mutant of Restore: nobody looks for an update in progress.              *)
Restore_Unchecked(b) ==
  /\ Serving
  /\ failed' = FALSE
  /\ Spawn("restore", RestoreImage, b, pending, pending, mishaps)
  /\ UNCHANGED <<app, old, deploy, data, backups, req>>

(* restore_update_backup, which awaits nothing.                            *)
Restore(b) ==
  /\ Serving /\ lock = "none"
  /\ failed' = FALSE
  /\ Spawn("restore", RestoreImage, b, pending, pending, mishaps)
  /\ UNCHANGED <<app, old, deploy, data, backups, req>>

(* _clear_stale_lock, whenever the dashboard asks for the update state.    *)
ClearStaleLock ==
  /\ Serving /\ lock # "none"
  /\ failed \/ lock = "stale"
  /\ lock' = "none"
  /\ IF Live = {} THEN UNCHANGED mishaps ELSE Mishap("early")
  /\ UNCHANGED <<app, old, pending, failed, deploy, data, backups, req,
                 helper, spawned, faults>>

(* restart_service: docker restarts the container that asks for it.        *)
RestartService ==
  /\ Serving /\ lock = "none"
  /\ req' = NoRequests
  /\ UNCHANGED <<app, old, disk, helper, spawned>> /\ Keeps

(* recreate_service: the first command stops the container this very       *)
(* process runs in; docker rm and docker run are never reached.            *)
RecreateService ==
  /\ Serving /\ lock = "none"
  /\ app' = [app EXCEPT !.up = FALSE]
  /\ req' = NoRequests
  /\ Mishap("recreate")
  /\ UNCHANGED <<old, disk, helper, spawned, faults>>

-----------------------------------------------------------------------------
(* A helper.                                                               *)

At(h, p) == helper[h].pc = p
Go(h, p) == helper' = [helper EXCEPT ![h].pc = p]
Ends(h)  == helper' = [helper EXCEPT ![h] = Idle]

(* touch_lock_heartbeat, with every write_progress.                        *)
Touched   == IF lock = "none" THEN "none" ELSE "fresh"
Heartbeat == lock' = Touched

Beats   == Heartbeat /\ UNCHANGED <<pending, failed, deploy, data, backups>>
Outside == <<req, spawned>>

(* remove_stale_old, then the backup or a look for the one to restore.     *)
Begin(h) ==
  /\ At(h, "begin")
  /\ old' = Gone
  /\ Go(h, IF helper[h].op = "update" THEN "backup" ELSE "check")
  /\ Beats /\ UNCHANGED <<app, Outside>> /\ Keeps

Newest(s) ==
  SubSeq(s, 1, IF Len(s) > BackupRetention THEN BackupRetention ELSE Len(s))

(* do_backup.                                                              *)
DoBackup(h) ==
  /\ At(h, "backup")
  /\ \/ /\ Go(h, "pull")
        /\ backups' = Newest(<<[lock |-> lock # "none", pending |-> pending,
                                failed |-> failed, deploy |-> deploy]>>
                             \o backups)
        /\ UNCHANGED faults
     \/ /\ Strike("backup") /\ Go(h, "fail") /\ UNCHANGED backups
  /\ Heartbeat
  /\ UNCHANGED <<app, old, pending, failed, deploy, data, Outside, mishaps>>

(* do_pull: the loop does not see whether docker pull succeeded.           *)
DoPull(h) ==
  /\ At(h, "pull") /\ Go(h, "stop")
  /\ Beats /\ UNCHANGED <<app, old, Outside>> /\ Keeps

(* The backup to restore may have been pruned by now.                      *)
FindBackup(h) ==
  /\ At(h, "check")
  /\ Go(h, IF \E i \in DOMAIN backups : backups[i] = helper[h].bak
           THEN "halt" ELSE "fail")
  /\ UNCHANGED <<app, old, disk, Outside>> /\ Keeps

(* docker stop, which ends the requests too; atomic_swap calls             *)
(* remove_stale_old before it.                                             *)
Stop(h) ==
  /\ helper[h].pc \in {"halt", "stop"}
  /\ old' = IF At(h, "stop") THEN Gone ELSE old
  /\ app' = [app EXCEPT !.up = FALSE]
  /\ req' = NoRequests
  /\ Go(h, CASE At(h, "halt") /\ Exists(app)  -> "move"
             [] At(h, "halt") /\ ~Exists(app) -> "clear"
             [] At(h, "stop") /\ Exists(app)  -> "rename"
             [] OTHER                         -> "recreate")
  /\ Beats /\ UNCHANGED spawned /\ Keeps

(* Mutant of Rename: the container is removed, not put aside.              *)
Rename_Removes(h) ==
  /\ helper[h].pc \in {"move", "rename"}
  /\ app' = Gone
  /\ Go(h, IF At(h, "move") THEN "clear" ELSE "recreate")
  /\ UNCHANGED <<old, disk, Outside>> /\ Keeps

(* docker rename to CONTAINER_old; set -e ends the script if it fails.     *)
Rename(h) ==
  /\ helper[h].pc \in {"move", "rename"}
  /\ IF Exists(app) /\ ~Exists(old)
     THEN /\ old' = app /\ app' = Gone
          /\ req' = NoRequests
          /\ Go(h, IF At(h, "move") THEN "clear" ELSE "recreate")
     ELSE Ends(h) /\ UNCHANGED <<app, old, req>>
  /\ UNCHANGED <<disk, spawned>> /\ Keeps

(* Mutant of Clear: a failure puts the old container back, like an update. *)
Clear_RollsBack(h) ==
  /\ At(h, "clear")
  /\ \/ /\ Go(h, "extract")
        /\ data' = "torn"
        /\ lock' = "none" /\ pending' = None /\ failed' = FALSE
        /\ deploy' = None
        /\ Keeps
     \/ /\ Strike("data") /\ Mishap("restore") /\ Go(h, "back")
        /\ data' \in {data, "torn"}
        /\ lock' \in {Touched, "none"} /\ pending' \in {pending, None}
        /\ failed' \in {failed, FALSE} /\ deploy' \in {deploy, None}
  /\ UNCHANGED <<app, old, backups, Outside>>

(* Everything but the backups and the logs is removed from the volume, the *)
(* files of the update among it; a failure may leave any of it there.      *)
Clear(h) ==
  /\ At(h, "clear")
  /\ \/ /\ Go(h, "extract")
        /\ data' = "torn"
        /\ lock' = "none" /\ pending' = None /\ failed' = FALSE
        /\ deploy' = None
        /\ Keeps
     \/ /\ Strike("data") /\ Mishap("restore") /\ Go(h, "fail")
        /\ data' \in {data, "torn"}
        /\ lock' \in {Touched, "none"} /\ pending' \in {pending, None}
        /\ failed' \in {failed, FALSE} /\ deploy' \in {deploy, None}
  /\ UNCHANGED <<app, old, backups, Outside>>

Over(a, b) == IF b = None THEN a ELSE b

(* The files come back as they were when the backup was made.              *)
Extract(h) ==
  /\ At(h, "extract")
  /\ \/ /\ Go(h, "discard")
        /\ LET b == helper[h].bak IN
             /\ lock'    = IF b.lock THEN "stale" ELSE lock
             /\ pending' = Over(pending, b.pending)
             /\ failed'  = (failed \/ b.failed)
             /\ deploy'  = Over(deploy, b.deploy)
        /\ data' = "whole"
        /\ Keeps
     \/ /\ Strike("data") /\ Mishap("restore") /\ Go(h, "fail")
        /\ UNCHANGED <<files, data>>
  /\ UNCHANGED <<app, old, backups, Outside>>

(* A restore removes the old container before the swap.                    *)
Discard(h) ==
  /\ At(h, "discard") /\ Go(h, "stop")
  /\ old' = Gone
  /\ UNCHANGED <<app, disk, Outside>> /\ Keeps

(* The swap has failed: an update is rolled back, a restore is given up.   *)
SwapFails(h) ==
  /\ Go(h, "remove")
  /\ IF helper[h].op = "restore" THEN Mishap("restore")
                                 ELSE UNCHANGED mishaps

(* recreate_container, from the inspected old container or the template.   *)
Recreate(h) ==
  /\ At(h, "recreate")
  /\ LET New(up, ok) == [img |-> helper[h].to, up |-> up, ok |-> ok] IN
     \/ /\ Exists(app) /\ SwapFails(h)
        /\ UNCHANGED <<app, faults>>
     \/ /\ ~Exists(app) /\ Go(h, "verify")
        /\ \/ app' = New(TRUE, TRUE) /\ UNCHANGED faults
           \/ app' = New(TRUE, FALSE) /\ Strike("sick")
        /\ UNCHANGED mishaps
     \/ /\ ~Exists(app) /\ Strike("recreate") /\ SwapFails(h)
        /\ app' \in {Gone, New(FALSE, FALSE)}
  /\ Beats /\ UNCHANGED <<old, Outside>>

(* wait_healthy.                                                           *)
Verify(h) ==
  /\ At(h, "verify")
  /\ \/ Serving /\ Go(h, "accept") /\ Keeps
     \/ ~Serving /\ SwapFails(h) /\ UNCHANGED faults
     \/ Serving /\ Strike("late") /\ SwapFails(h)
  /\ Beats /\ UNCHANGED <<app, old, Outside>>

(* The old container is removed at the end of atomic_swap.                 *)
Accept(h) ==
  /\ At(h, "accept") /\ Go(h, "finish")
  /\ old' = Gone
  /\ Beats /\ UNCHANGED <<app, Outside>> /\ Keeps

(* Mutant of Finish: what was pending is not cleaned up.                   *)
Finish_PendingLeft(h) ==
  /\ At(h, "finish") /\ Ends(h)
  /\ deploy' = helper[h].to
  /\ lock' = "none" /\ failed' = FALSE
  /\ UNCHANGED <<app, old, pending, data, backups, Outside>> /\ Keeps

(* write_deploy_state and success_cleanup.                                 *)
Finish(h) ==
  /\ At(h, "finish") /\ Ends(h)
  /\ deploy' = helper[h].to
  /\ lock' = "none" /\ pending' = None /\ failed' = FALSE
  /\ UNCHANGED <<app, old, data, backups, Outside>> /\ Keeps

(* rollback_to_old, or only its first command after a restore.             *)
Remove(h) ==
  /\ At(h, "remove")
  /\ app' = Gone
  /\ req' = NoRequests
  /\ Go(h, IF helper[h].op = "update" /\ Exists(old) THEN "back" ELSE "fail")
  /\ UNCHANGED <<old, disk, spawned>> /\ Keeps

RenameBack(h) ==
  /\ At(h, "back")
  /\ IF Exists(old) /\ ~Exists(app)
     THEN app' = old /\ old' = Gone /\ Go(h, "resume")
     ELSE Ends(h) /\ UNCHANGED <<app, old>>
  /\ UNCHANGED <<disk, Outside>> /\ Keeps

(* Mutant of Resume: the container is renamed back and not started.        *)
Resume_NotStarted(h) ==
  /\ At(h, "resume") /\ Go(h, "fail")
  /\ UNCHANGED <<app, old, disk, Outside>> /\ Keeps

Resume(h) ==
  /\ At(h, "resume") /\ Go(h, "fail")
  /\ app' = IF Exists(app) THEN [app EXCEPT !.up = TRUE] ELSE app
  /\ UNCHANGED <<old, disk, Outside>> /\ Keeps

(* fail: write_failed ...                                                  *)
Fail(h) ==
  /\ At(h, "fail") /\ Go(h, "giveup")
  /\ failed' = TRUE
  /\ UNCHANGED <<app, old, lock, pending, deploy, data, backups, Outside>>
  /\ Keeps

(* ... and then the lock and what was pending, whosever they are.          *)
GiveUp(h) ==
  /\ At(h, "giveup") /\ Ends(h)
  /\ lock' = "none" /\ pending' = None
  /\ UNCHANGED <<app, old, failed, deploy, data, backups, Outside>> /\ Keeps

HelperStep(h) ==
  \/ Begin(h) \/ DoBackup(h) \/ DoPull(h) \/ FindBackup(h)
  \/ Stop(h) \/ Rename(h) \/ Clear(h) \/ Extract(h) \/ Discard(h)
  \/ Recreate(h) \/ Verify(h) \/ Accept(h) \/ Finish(h)
  \/ Remove(h) \/ RenameBack(h) \/ Resume(h) \/ Fail(h) \/ GiveUp(h)

-----------------------------------------------------------------------------
(* What happens to helpers and locks.                                      *)

Midway(h) ==
  \/ helper[h].pc \in {"move", "clear", "extract", "discard", "rename",
                       "recreate", "verify", "accept", "finish", "remove",
                       "back", "resume"}
  \/ helper[h].op = "restore" /\ At(h, "stop")

(* Helpers are started with --rm and without a restart policy.             *)
Kill(h) ==
  /\ h \in Live /\ Ends(h)
  /\ Strike("kill")
  /\ CASE Midway(h) -> Mishap("kill")
       [] helper[h].pc \in {"fail", "giveup"} -> Mishap("unclean")
       [] OTHER -> UNCHANGED mishaps
  /\ UNCHANGED <<app, old, disk, Outside>>

(* The lock grows older than UPDATE_LOCK_MAX_AGE_SECONDS.                  *)
TimePasses ==
  /\ lock = "fresh" /\ lock' = "stale"
  /\ IF Live = {} THEN UNCHANGED faults ELSE Strike("slow")
  /\ UNCHANGED <<app, old, pending, failed, deploy, data, backups, req,
                 helper, spawned, mishaps>>

Requests ==
  \/ \E c \in Clients : \/ ApplyRequest(c) \/ ApplyRefused(c)
                        \/ \E to \in Images : Apply(c, to)
  \/ \E i \in DOMAIN backups : Restore(backups[i])
  \/ ClearStaleLock \/ RestartService \/ RecreateService

Next == \/ Requests
        \/ \E h \in Helpers : HelperStep(h) \/ Kill(h)
        \/ TimePasses

Spec == Init /\ [][Next]_vars

(* A helper that is not killed goes on: docker answers every command.      *)
FairSpec == Spec /\ \A h \in Helpers : WF_vars(HelperStep(h))
-----------------------------------------------------------------------------
(* Properties.                                                             *)

Lost == mishaps \intersect {"overlap", "kill", "restore", "recreate"} # {}

Replaces(h) ==
  /\ helper[h].op = "restore"
  /\ helper[h].pc \in {"move", "clear", "extract", "discard", "stop",
                       "rename", "recreate", "verify", "accept"}
Restoring == \E h \in Helpers : Replaces(h)

Phase == CASE Lost                  -> "lost"
           [] ~Lost /\ Restoring    -> "replacing"
           [] ~Lost /\ ~Restoring   ->
                IF Exists(old) THEN IF Exists(app) THEN "trial" ELSE "offline"
                               ELSE IF Serving THEN "serving" ELSE "offline"

Version == IF Lost \/ Restoring THEN None
           ELSE IF Exists(old) THEN old.img ELSE app.img

Install == INSTANCE Deployment WITH phase <- Phase, version <- Version

(* An installation ends with the new version serving or the one before it  *)
(* serving again, whatever fails on the way: the container put aside is    *)
(* removed only when the one that replaces it serves.                      *)
InstallsOrRollsBack == Install!Spec

(* And it does end, so long as its helper lives.                           *)
ServiceComesBack == Install!Settles

(* Two helpers are at work at once only when two requests both found no    *)
(* lock, or the lock of a helper at work was cleared as stale or failed:   *)
(* never because a helper, a restore among them, gave the lock away.       *)
LockExcludes ==
  Cardinality(Live) > 1 => mishaps \intersect {"race", "early"} # {}

(* The service is never on while its data are half restored, even when the *)
(* restore fails or is killed, unless another helper starts it.            *)
ServesWholeData == Serving /\ data = "torn" => "overlap" \in mishaps

(* The files agree with the containers whenever no helper is at work: a    *)
(* restore would start the version in force, also after rollbacks, other   *)
(* restores and updates that came to nothing.  It takes two things to      *)
(* break it: a request served by a version that is rolled back later,      *)
(* which a lock taken twice or cleared lets in, and the death of the       *)
(* helper before it has dropped what that request made pending.            *)
RestoreKeepsVersion ==
  ~Lost /\ Live = {} /\ RestoreImage # app.img =>
    "unclean" \in mishaps /\ mishaps \intersect {"race", "early"} # {}
=============================================================================
