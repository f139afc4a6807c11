--------------------------- MODULE SelfUpdateProofs ---------------------------
(***************************************************************************)
(* Theorems about SelfUpdate, for every set of versions, requests and      *)
(* helpers, every choice of faults and every bound on them.                *)
(***************************************************************************)
EXTENDS SelfUpdate, SequenceTheorems, FiniteSetTheorems, TLAPS

(* The steps of a helper, apart from those of the routes.                  *)
LEMMA NextSplit ==
  ASSUME Next
  PROVE  \/ \E c \in Clients : ApplyRequest(c) \/ ApplyRefused(c)
         \/ \E c \in Clients, to \in Images : Apply(c, to)
         \/ \E i \in DOMAIN backups : Restore(backups[i])
         \/ ClearStaleLock \/ RestartService \/ RecreateService
         \/ \E h \in Helpers : HelperStep(h)
         \/ \E h \in Helpers : Kill(h)
         \/ TimePasses
  BY DEF Next, Requests

-----------------------------------------------------------------------------
(* Types.                                                                  *)

(* What a helper does next keeps its record well-typed. *)
LEMMA GoType ==
  ASSUME NEW h \in Helpers, NEW p \in Steps, TypeOK, Go(h, p)
  PROVE  helper' \in [Helpers -> Job]
  BY DEF TypeOK, Go, Job

LEMMA IdleType == Idle \in Job
  BY DEF Idle, Job, NoBackup, Backup, Image

LEMMA EndsType ==
  ASSUME NEW h \in Helpers, TypeOK, Ends(h)
  PROVE  helper' \in [Helpers -> Job]
  BY IdleType DEF TypeOK, Ends

(* A fault leaves the count of faults within its bound. *)
LEMMA StrikeBound ==
  ASSUME NEW f, faults \in 0..MaxFaults, Strike(f)
  PROVE  faults' \in 0..MaxFaults
  BY UpdateFaultsAssumption DEF Strike

(* While the service is on, a restore would start some image. *)
LEMMA RestoreImageType ==
  ASSUME TypeOK
  PROVE  /\ RestoreImage \in Image
         /\ Exists(app) => RestoreImage \in Images
  BY DEF TypeOK, RestoreImage, Image, Container, Exists

(* Spawning keeps the types of what it sets. *)
LEMMA SpawnType ==
  ASSUME NEW op \in {"update", "restore"}, NEW to \in Image,
         NEW bak \in Backup, NEW p \in Image, NEW back \in Image,
         NEW seen \in SUBSET MishapKinds, TypeOK, Spawn(op, to, bak, p, back, seen)
  PROVE  /\ helper' \in [Helpers -> Job]
         /\ lock' \in {"none", "fresh", "stale"}
         /\ pending' \in Image
         /\ mishaps' \subseteq MishapKinds
         /\ spawned' \in 0..MaxSpawns
         /\ faults' \in 0..MaxFaults
<1> DEFINE new == [pc |-> "begin", op |-> op, to |-> to, bak |-> bak]
<1>1. new \in Job
  BY DEF Job, Steps
<1>2. CASE Started(op, to, bak, p, seen)
  <2> DEFINE g == CHOOSE h \in Helpers : h \notin Live
  <2>1. g \in Helpers
    BY <1>2 DEF Live, Started
  <2>2. helper' = [helper EXCEPT ![g] = new]
    BY <1>2 DEF Started
  <2>3. helper' \in [Helpers -> Job]
    BY <1>1, <2>1, <2>2 DEF TypeOK
  <2>4. spawned' \in 0..MaxSpawns
    BY <1>2, UpdateFaultsAssumption DEF TypeOK, Started
  <2>5. QED BY <1>2, <2>3, <2>4 DEF Started, TypeOK, MishapKinds
<1>3. CASE NotStarted(p, back, seen)
  BY <1>3, StrikeBound DEF NotStarted, TypeOK
<1>4. QED BY <1>2, <1>3 DEF Spawn

(* At most BackupRetention backups are kept. *)
LEMMA NewestType ==
  ASSUME NEW s \in Seq(Backup)
  PROVE  /\ Newest(s) \in Seq(Backup)
         /\ Len(Newest(s)) <= BackupRetention
<1> DEFINE n == IF Len(s) > BackupRetention THEN BackupRetention ELSE Len(s)
<1>1. n \in Nat /\ n <= BackupRetention /\ n <= Len(s)
  BY RetentionAssumption
<1>2. \A i \in 1..n : s[i] \in Backup
  BY <1>1
<1>3. /\ SubSeq(s, 1, n) \in Seq(Backup)
      /\ Len(SubSeq(s, 1, n)) = IF 1 <= n THEN n - 1 + 1 ELSE 0
  BY <1>1, <1>2, SubSeqProperties
<1>4. QED BY <1>1, <1>3, RetentionAssumption DEF Newest

(* And they are the newest ones. *)
LEMMA NewestPrefix ==
  ASSUME NEW s \in Seq(Backup)
  PROVE  \A i \in DOMAIN Newest(s) : i \in DOMAIN s /\ Newest(s)[i] = s[i]
<1> DEFINE n == IF Len(s) > BackupRetention THEN BackupRetention ELSE Len(s)
<1>1. n \in Nat /\ n <= Len(s)
  BY RetentionAssumption
<1>2. \A i \in 1..n : s[i] \in Backup
  BY <1>1
<1>3. /\ Len(SubSeq(s, 1, n)) = IF 1 <= n THEN n - 1 + 1 ELSE 0
      /\ SubSeq(s, 1, n) \in Seq(Backup)
      /\ \A i \in 1..(n - 1 + 1) : SubSeq(s, 1, n)[i] = s[1 + i - 1]
  BY <1>1, <1>2, SubSeqProperties
<1>4. QED BY <1>1, <1>3 DEF Newest

LEMMA NoBackupType == NoBackup \in Backup /\ Gone \in Container
  BY DEF NoBackup, Backup, Gone, Container, Image

(* A helper's step keeps every variable within its type. *)
LEMMA HelperType ==
  ASSUME NEW h \in Helpers, TypeOK, HelperStep(h)
  PROVE  TypeOK'
<1> USE NoBackupType, GoType, EndsType, StrikeBound
<1>b. Beats => /\ lock' \in {"none", "fresh", "stale"}
               /\ UNCHANGED <<pending, failed, deploy, data, backups>>
  BY DEF Beats, Heartbeat, Touched
<1>m. \A m \in MishapKinds : Mishap(m) => mishaps' \subseteq MishapKinds
  BY DEF Mishap, TypeOK
<1>n. {"restore", "kill"} \subseteq MishapKinds
  BY DEF MishapKinds
<1>t. NoRequests \in [Clients -> {"none", "fetch"}]
  BY DEF NoRequests
<1>1. CASE Begin(h)
  <2>1. helper' \in [Helpers -> Job]
    BY <1>1 DEF Begin, Steps
  <2>2. QED BY <1>1, <1>b, <2>1 DEF Begin, Keeps, Outside, TypeOK
<1>2. CASE DoBackup(h)
  <2>1. helper' \in [Helpers -> Job] /\ faults' \in 0..MaxFaults
    BY <1>2 DEF DoBackup, Steps, TypeOK
  <2> DEFINE new == [lock |-> lock # "none", pending |-> pending,
                     failed |-> failed, deploy |-> deploy]
  <2>2. <<new>> \in Seq(Backup)
    BY DEF TypeOK, Backup
  <2>3. <<new>> \o backups \in Seq(Backup)
    BY <2>2, ConcatProperties DEF TypeOK
  <2>4. backups' \in Seq(Backup) /\ Len(backups') <= BackupRetention
    BY <1>2, <2>3, NewestType DEF DoBackup, TypeOK
  <2>5. QED
    BY <1>2, <2>1, <2>4 DEF DoBackup, Heartbeat, Touched, Outside, TypeOK
<1>3. CASE DoPull(h)
  <2>1. helper' \in [Helpers -> Job]
    BY <1>3 DEF DoPull, Steps
  <2>2. QED BY <1>3, <1>b, <2>1 DEF DoPull, Keeps, Outside, TypeOK
<1>4. CASE FindBackup(h)
  <2>1. helper' \in [Helpers -> Job]
    BY <1>4 DEF FindBackup, Steps
  <2>2. QED BY <1>4, <2>1 DEF FindBackup, Keeps, Outside, disk, files, TypeOK
<1>5. CASE Stop(h)
  <2>1. helper' \in [Helpers -> Job]
    BY <1>5 DEF Stop, Steps
  <2>2. [app EXCEPT !.up = FALSE] \in Container
    BY DEF TypeOK, Container
  <2>3. QED BY <1>5, <1>b, <1>t, <2>1, <2>2 DEF Stop, Keeps, TypeOK
<1>6. CASE Rename(h)
  <2>1. helper' \in [Helpers -> Job]
    BY <1>6 DEF Rename, Steps
  <2>2. req' \in [Clients -> {"none", "fetch"}]
    BY <1>6, <1>t DEF Rename, TypeOK
  <2>3. app' \in Container /\ old' \in Container
    BY <1>6 DEF Rename, TypeOK
  <2>4. QED BY <1>6, <2>1, <2>2, <2>3 DEF Rename, Keeps, disk, files, TypeOK
<1>7. CASE Clear(h)
  <2>1. helper' \in [Helpers -> Job] /\ faults' \in 0..MaxFaults
    BY <1>7 DEF Clear, Keeps, Steps, TypeOK
  <2>2. mishaps' \subseteq MishapKinds
    BY <1>7, <1>m, <1>n DEF Clear, Keeps, TypeOK
  <2>3. QED BY <1>7, <2>1, <2>2 DEF Clear, Touched, Outside, Image, TypeOK
<1>8. CASE Extract(h)
  <2>1. helper' \in [Helpers -> Job] /\ faults' \in 0..MaxFaults
    BY <1>8 DEF Extract, Keeps, Steps, TypeOK
  <2>2. mishaps' \subseteq MishapKinds
    BY <1>8, <1>m, <1>n DEF Extract, Keeps, TypeOK
  <2>3. helper[h].bak \in Backup
    BY DEF TypeOK, Job
  <2>4. /\ lock' \in {"none", "fresh", "stale"} /\ pending' \in Image
        /\ failed' \in BOOLEAN /\ deploy' \in Image
        /\ data' \in {"whole", "torn"}
    BY <1>8, <2>3 DEF Extract, Over, Backup, Image, files, TypeOK
  <2>5. QED BY <1>8, <2>1, <2>2, <2>4 DEF Extract, Outside, TypeOK
<1>9. CASE Discard(h)
  <2>1. helper' \in [Helpers -> Job]
    BY <1>9 DEF Discard, Steps
  <2>2. QED BY <1>9, <2>1 DEF Discard, Keeps, Outside, disk, files, TypeOK
<1>10. CASE Recreate(h)
  <2>1. helper' \in [Helpers -> Job] /\ faults' \in 0..MaxFaults
    BY <1>10 DEF Recreate, SwapFails, Steps, TypeOK
  <2>2. mishaps' \subseteq MishapKinds
    BY <1>10, <1>m, <1>n DEF Recreate, SwapFails, TypeOK
  <2>3. helper[h].to \in Image
    BY DEF TypeOK, Job
  <2>4. app' \in Container
    <3> DEFINE New(up, ok) == [img |-> helper[h].to, up |-> up, ok |-> ok]
    <3>1. \A up, ok \in BOOLEAN : New(up, ok) \in Container
      BY <2>3 DEF Container
    <3>2. app' \in {app, Gone, New(TRUE, TRUE), New(TRUE, FALSE),
                   New(FALSE, FALSE)}
      BY <1>10 DEF Recreate
    <3>3. app \in Container
      BY DEF TypeOK
    <3>4. QED BY <3>1, <3>2, <3>3
  <2>5. QED BY <1>10, <1>b, <2>1, <2>2, <2>4 DEF Recreate, Outside, TypeOK
<1>11. CASE Verify(h)
  <2>1. helper' \in [Helpers -> Job] /\ faults' \in 0..MaxFaults
    BY <1>11 DEF Verify, Keeps, SwapFails, Steps, TypeOK
  <2>2. mishaps' \subseteq MishapKinds
    BY <1>11, <1>m, <1>n DEF Verify, Keeps, SwapFails, TypeOK
  <2>3. QED BY <1>11, <1>b, <2>1, <2>2 DEF Verify, Outside, TypeOK
<1>12. CASE Accept(h)
  <2>1. helper' \in [Helpers -> Job]
    BY <1>12 DEF Accept, Steps
  <2>2. QED BY <1>12, <1>b, <2>1 DEF Accept, Keeps, Outside, TypeOK
<1>13. CASE Finish(h)
  <2>1. helper' \in [Helpers -> Job] /\ helper[h].to \in Image
    BY <1>13 DEF Finish, TypeOK, Job
  <2>2. QED BY <1>13, <2>1 DEF Finish, Keeps, Outside, Image, TypeOK
<1>14. CASE Remove(h)
  <2>1. helper' \in [Helpers -> Job]
    BY <1>14 DEF Remove, Steps
  <2>2. QED BY <1>14, <1>t, <2>1 DEF Remove, Keeps, disk, files, TypeOK
<1>15. CASE RenameBack(h)
  <2>1. helper' \in [Helpers -> Job]
    BY <1>15 DEF RenameBack, Steps
  <2>2. QED BY <1>15, <2>1 DEF RenameBack, Keeps, Outside, disk, files, TypeOK
<1>16. CASE Resume(h)
  <2>1. helper' \in [Helpers -> Job]
    BY <1>16 DEF Resume, Steps
  <2>2. app' \in Container
    BY <1>16 DEF Resume, Container, TypeOK
  <2>3. QED BY <1>16, <2>1, <2>2 DEF Resume, Keeps, Outside, disk, files, TypeOK
<1>17. CASE Fail(h)
  <2>1. helper' \in [Helpers -> Job]
    BY <1>17 DEF Fail, Steps
  <2>2. QED BY <1>17, <2>1 DEF Fail, Keeps, Outside, TypeOK
<1>18. CASE GiveUp(h)
  <2>1. helper' \in [Helpers -> Job]
    BY <1>18 DEF GiveUp
  <2>2. QED BY <1>18, <2>1 DEF GiveUp, Keeps, Outside, Image, TypeOK
<1>19. QED
  BY <1>1, <1>2, <1>3, <1>4, <1>5, <1>6, <1>7, <1>8, <1>9, <1>10, <1>11,
     <1>12, <1>13, <1>14, <1>15, <1>16, <1>17, <1>18 DEF HelperStep

(* Every variable keeps its type, whatever fails and however many helpers  *)
(* and requests there are.                                                 *)
THEOREM TypeCorrect == Spec => []TypeOK
<1>1. Init => TypeOK
  <2> SUFFICES ASSUME Init PROVE TypeOK
    OBVIOUS
  <2>1. Gone \in Container /\ 0 \in 0..MaxSpawns /\ 0 \in 0..MaxFaults
    BY NoBackupType, UpdateFaultsAssumption
  <2>2. app \in Container
    <3>1. PICK i \in Images : app = [img |-> i, up |-> TRUE, ok |-> TRUE]
      BY DEF Init
    <3>2. QED BY <3>1 DEF Container, Image
  <2>3. helper \in [Helpers -> Job] /\ req \in [Clients -> {"none", "fetch"}]
    BY IdleType DEF Init, NoRequests
  <2>4. << >> \in Seq(Backup) /\ Len(<< >>) <= BackupRetention
    BY RetentionAssumption
  <2>5. QED BY <2>1, <2>2, <2>3, <2>4 DEF Init, TypeOK, Image
<1>2. TypeOK /\ [Next]_vars => TypeOK'
  <2> SUFFICES ASSUME TypeOK, [Next]_vars PROVE TypeOK'
    OBVIOUS
  <2>m. mishaps \in SUBSET MishapKinds
        /\ mishaps \union {"race"} \in SUBSET MishapKinds
    BY DEF TypeOK, MishapKinds
  <2>1. CASE \E c \in Clients : ApplyRequest(c) \/ ApplyRefused(c)
    BY <2>1 DEF ApplyRequest, ApplyRefused, Keeps, disk, files, TypeOK
  <2>2. ASSUME NEW c \in Clients, NEW to \in Images, Apply(c, to)
        PROVE  TypeOK'
    <3> DEFINE seen == IF lock = "none" THEN mishaps ELSE mishaps \union {"race"}
    <3>1. seen \in SUBSET MishapKinds
      BY <2>m
    <3>2. app.img \in Image /\ None \in Image /\ to \in Image
      BY DEF TypeOK, Container, Image
    <3>3. Spawn("update", to, NoBackup, app.img, None, seen)
      BY <2>2 DEF Apply
    <3>4. /\ helper' \in [Helpers -> Job]
          /\ lock' \in {"none", "fresh", "stale"}
          /\ pending' \in Image
          /\ mishaps' \subseteq MishapKinds
          /\ spawned' \in 0..MaxSpawns
          /\ faults' \in 0..MaxFaults
      BY <3>1, <3>2, <3>3, SpawnType, NoBackupType
    <3>5. QED BY <2>2, <3>4 DEF Apply, TypeOK
  <2>3. ASSUME NEW i \in DOMAIN backups, Restore(backups[i])
        PROVE  TypeOK'
    <3>1. backups[i] \in Backup /\ pending \in Image /\ RestoreImage \in Image
      BY RestoreImageType DEF TypeOK
    <3>2. Spawn("restore", RestoreImage, backups[i], pending, pending, mishaps)
      BY <2>3 DEF Restore
    <3>3. /\ helper' \in [Helpers -> Job]
          /\ lock' \in {"none", "fresh", "stale"}
          /\ pending' \in Image
          /\ mishaps' \subseteq MishapKinds
          /\ spawned' \in 0..MaxSpawns
          /\ faults' \in 0..MaxFaults
      BY <2>m, <3>1, <3>2, SpawnType
    <3>4. QED BY <2>3, <3>3 DEF Restore, TypeOK
  <2>4. CASE ClearStaleLock
    BY <2>4 DEF ClearStaleLock, Mishap, MishapKinds, TypeOK
  <2>5. CASE RestartService
    BY <2>5 DEF RestartService, NoRequests, Keeps, disk, files, TypeOK
  <2>6. CASE RecreateService
    <3>1. app' \in Container
      BY <2>6 DEF RecreateService, Container, TypeOK
    <3>2. QED
      BY <2>6, <3>1 DEF RecreateService, NoRequests, Mishap, MishapKinds, disk,
                        files, TypeOK
  <2>7. ASSUME NEW h \in Helpers, HelperStep(h) PROVE TypeOK'
    BY <2>7, HelperType
  <2>8. ASSUME NEW h \in Helpers, Kill(h) PROVE TypeOK'
    <3>1. helper' \in [Helpers -> Job] /\ faults' \in 0..MaxFaults
      BY <2>8, EndsType, StrikeBound DEF Kill, TypeOK
    <3>2. QED
      BY <2>8, <3>1 DEF Kill, Mishap, MishapKinds, Outside, disk, files, TypeOK
  <2>9. CASE TimePasses
    BY <2>9, StrikeBound DEF TimePasses, TypeOK
  <2>10. CASE UNCHANGED vars
    BY <2>10 DEF vars, TypeOK
  <2>11. QED
    BY <2>1, <2>2, <2>3, <2>4, <2>5, <2>6, <2>7, <2>8, <2>9, <2>10, NextSplit
<1>3. QED BY <1>1, <1>2, PTL DEF Spec

-----------------------------------------------------------------------------
(* The inductive invariant.  It has to tell, for every command a helper    *)
(* has reached, what containers there are, and what is there when no       *)
(* helper is at work.                                                      *)

Busy(h) == helper[h].pc # "none"

(* Containers are there or Gone, and helpers know an image to start.       *)
Proper ==
  /\ app.img = None => app = Gone
  /\ old.img = None => old = Gone
  /\ \A h \in Helpers : Busy(h) => helper[h].to \in Images

ReqServed == \A c \in Clients : req[c] # "none" => Serving

Sole ==
  "overlap" \notin mishaps =>
    \A g, h \in Helpers : Busy(g) /\ Busy(h) => g = h

OnDuty  == Serving /\ old = Gone
Stopped == app.ok /\ ~app.up /\ old = Gone

(* The way back of an update; a restore has none.                          *)
Aside(h) == IF helper[h].op = "update" THEN old.ok /\ ~old.up ELSE old = Gone

Updates(h) == helper[h].op = "update"

Placed(h) ==
  LET p == helper[h].pc IN
  /\ p = "begin" => Serving /\ (Lost \/ old = Gone)
  /\ p \in {"backup", "pull"} => Updates(h) /\ OnDuty
  /\ p \in {"check", "halt"} => ~Updates(h) /\ OnDuty
  /\ p = "move" => ~Updates(h) /\ Stopped
  /\ p \in {"clear", "extract", "discard"} => ~Updates(h) /\ app = Gone
  /\ p = "stop" => IF Updates(h) THEN OnDuty ELSE app = Gone /\ old = Gone
  /\ p = "rename" => Updates(h) /\ Stopped
  /\ p = "recreate" => app = Gone /\ Aside(h)
  /\ p = "verify" => Exists(app) /\ Aside(h)
  /\ p = "accept" => Serving /\ Aside(h)
  /\ p = "finish" => OnDuty
  /\ p = "remove" => IF Updates(h) THEN Aside(h) ELSE "restore" \in mishaps
  /\ p = "back" => Updates(h) /\ app = Gone /\ Aside(h)
  /\ p = "resume" => Updates(h) /\ Stopped
  /\ p \in {"fail", "giveup"} => OnDuty \/ "restore" \in mishaps

Placement ==
  /\ mishaps \intersect {"overlap", "recreate"} = {} =>
       \A h \in Helpers : Busy(h) => Placed(h)
  /\ ~Lost /\ (\A h \in Helpers : ~Busy(h)) => OnDuty

(* As long as no lock was taken twice or cleared under a helper, a helper  *)
(* has its lock, except while a restore has cleared the files and there is *)
(* no container; and what is extracted brings a lock back.                 *)
Locked ==
  mishaps \intersect {"race", "early"} = {} =>
    /\ "overlap" \notin mishaps
    /\ "recreate" \in mishaps => ~app.up /\ \A h \in Helpers : ~Busy(h)
    /\ \A i \in DOMAIN backups : backups[i].lock
    /\ \A h \in Helpers : Busy(h) =>
         /\ helper[h].op = "restore" => helper[h].bak.lock
         /\ helper[h].pc \in {"extract", "fail", "giveup"} =>
              lock # "none" \/ app = Gone
         /\ helper[h].pc \notin {"extract", "fail", "giveup"} =>
              lock # "none"

IInv == TypeOK /\ Proper /\ ReqServed /\ Sole /\ Placement /\ Locked

(* A step of a helper: it goes on or ends, no other one is touched, and    *)
(* what it does for whom stays the same.                                   *)
LEMMA HelperMoves ==
  ASSUME NEW h \in Helpers, TypeOK, HelperStep(h)
  PROVE  /\ Busy(h)
         /\ \A g \in Helpers \ {h} : helper'[g] = helper[g]
         /\ \/ helper'[h] = Idle
            \/ \E p \in Steps : helper'[h] = [helper[h] EXCEPT !.pc = p]
         /\ mishaps' \in {mishaps, mishaps \union {"restore"}}
         /\ spawned' = spawned
<1>1. Busy(h)
  BY DEF HelperStep, Begin, DoBackup, DoPull, FindBackup, Stop, Rename, Clear,
         Extract, Discard, Recreate, Verify, Accept, Finish, Remove,
         RenameBack, Resume, Fail, GiveUp, At, Busy
<1>2. mishaps' \in {mishaps, mishaps \union {"restore"}} /\ spawned' = spawned
  BY DEF HelperStep, Begin, DoBackup, DoPull, FindBackup, Stop, Rename, Clear,
         Extract, Discard, Recreate, SwapFails, Verify, Accept, Finish, Remove,
         RenameBack, Resume, Fail, GiveUp, Keeps, Mishap, Outside
<1>3. Ends(h) \/ \E p \in Steps : Go(h, p)
  BY DEF HelperStep, Begin, DoBackup, DoPull, FindBackup, Stop, Rename, Clear,
         Extract, Discard, Recreate, SwapFails, Verify, Accept, Finish, Remove,
         RenameBack, Resume, Fail, GiveUp, Steps
<1>4. CASE Ends(h)
  BY <1>1, <1>2, <1>4 DEF Ends, TypeOK
<1>5. ASSUME NEW p \in Steps, Go(h, p)
      PROVE  /\ \A g \in Helpers \ {h} : helper'[g] = helper[g]
             /\ helper'[h] = [helper[h] EXCEPT !.pc = p]
  BY <1>5 DEF Go, TypeOK
<1>6. QED BY <1>1, <1>2, <1>3, <1>4, <1>5

(* Helpers of which there is one at most stay that way while they work. *)
LEMMA HelperSole ==
  ASSUME NEW h \in Helpers, TypeOK, Sole, HelperStep(h)
  PROVE  /\ Sole'
         /\ "overlap" \notin mishaps' =>
              \A g \in Helpers \ {h} : ~Busy(g) /\ ~Busy(g)'
<1>1. "overlap" \in mishaps' <=> "overlap" \in mishaps
  BY HelperMoves
<1>2. \A g \in Helpers \ {h} : Busy(g)' <=> Busy(g)
  BY HelperMoves DEF Busy
<1>3. QED BY <1>1, <1>2, HelperMoves DEF Sole

(* A container that is not there is not there when it is stopped. *)
LEMMA GoneStays == [Gone EXCEPT !.up = FALSE] = Gone
<1> DEFINE Field(f) == IF f = "up" THEN FALSE ELSE Gone[f]
<1>1. [Gone EXCEPT !.up = FALSE] = [f \in DOMAIN Gone |-> Field(f)]
  BY Zenon
<1> Gone["up"] = FALSE
  BY DEF Gone
<1>2. \A f \in DOMAIN Gone : Field(f) = Gone[f]
  OBVIOUS
<1>3. [f \in DOMAIN Gone |-> Field(f)] = [f \in DOMAIN Gone |-> Gone[f]]
  BY <1>2, Zenon
<1>4. Gone = [f \in DOMAIN Gone |-> Gone[f]]
  BY DEF Gone
<1>5. QED BY <1>1, <1>3, <1>4

(* Where containers and jobs come from. *)
LEMMA HelperProper ==
  ASSUME NEW h \in Helpers, TypeOK, Proper, ReqServed, HelperStep(h)
  PROVE  Proper' /\ ReqServed'
<1> USE HelperMoves DEF Proper, ReqServed, Serving, Exists, Beats, Outside, disk, Keeps,
               Gone, Busy
<1>1. \A g \in Helpers : Busy(g)' => helper'[g].to \in Images
  <2>1. \A g \in Helpers \ {h} : Busy(g)' => helper'[g].to \in Images
    OBVIOUS
  <2>2. CASE helper'[h] = Idle
    BY <2>1, <2>2 DEF Idle
  <2>3. ASSUME NEW p \in Steps, helper'[h] = [helper[h] EXCEPT !.pc = p]
        PROVE  helper'[h].to = helper[h].to
    BY <2>3 DEF TypeOK, Job
  <2>4. QED BY <2>1, <2>2, <2>3
<1>2. helper[h].to # None
  BY ImagesAssumption
<1>3. \A c \in Clients : NoRequests[c] = "none"
  BY DEF NoRequests
<1>4. CASE Begin(h) \/ Discard(h) \/ Accept(h)
  BY <1>1, <1>4 DEF Begin, Discard, Accept
<1>5. CASE Stop(h)
  <2>1. app' = [app EXCEPT !.up = FALSE] /\ (old' = Gone \/ old' = old)
        /\ req' = NoRequests
    BY <1>5 DEF Stop
  <2>2. app'.img = app.img
    BY <2>1 DEF TypeOK, Container
  <2>3. app = Gone => app' = Gone
    BY <2>1, GoneStays
  <2>4. QED BY <1>1, <1>3, <2>1, <2>2, <2>3
<1>6. CASE Rename(h)
  BY <1>1, <1>3, <1>6 DEF Rename
<1>7. CASE DoBackup(h) \/ DoPull(h) \/ FindBackup(h) \/ Clear(h) \/ Extract(h)
             \/ Verify(h) \/ Finish(h) \/ Fail(h) \/ GiveUp(h)
  BY <1>1, <1>7 DEF DoBackup, DoPull, FindBackup, Clear, Extract, Verify, Finish,
                    Fail, GiveUp
<1>8. CASE Recreate(h)
  BY <1>1, <1>2, <1>8 DEF Recreate
<1>9. CASE Remove(h)
  BY <1>1, <1>3, <1>9 DEF Remove
<1>10. CASE RenameBack(h)
  BY <1>1, <1>10 DEF RenameBack
<1>11. CASE Resume(h)
  <2>1. app' = IF app.img # None THEN [app EXCEPT !.up = TRUE] ELSE app
    BY <1>11 DEF Resume
  <2>2. app'.img = app.img /\ app'.ok = app.ok /\ (app.up => app'.up)
        /\ (app.img = None => app' = app)
    BY <2>1 DEF TypeOK, Container
  <2>3. old' = old /\ req' = req
    BY <1>11 DEF Resume
  <2>4. QED BY <1>1, <2>2, <2>3
<1>12. QED
  BY <1>4, <1>5, <1>6, <1>7, <1>8, <1>9, <1>10, <1>11 DEF HelperStep

(* What a helper goes on to, and for whom. *)
LEMMA GoesOn ==
  ASSUME NEW h \in Helpers, NEW p \in Steps, TypeOK, Go(h, p)
  PROVE  /\ helper'[h].pc = p
         /\ helper'[h].op = helper[h].op
         /\ helper'[h].to = helper[h].to
         /\ helper'[h].bak = helper[h].bak
  BY DEF Go, TypeOK, Job

LEMMA EndsThere ==
  ASSUME NEW h \in Helpers, TypeOK, Ends(h)
  PROVE  ~Busy(h)'
  BY DEF Ends, TypeOK, Idle, Busy

(* A helper alone at work finds the containers it needs for the next       *)
(* command, and leaves the service on when it ends.                        *)
LEMMA HelperPlacement ==
  ASSUME NEW h \in Helpers, TypeOK, Proper, Sole, Placement, HelperStep(h)
  PROVE  Placement'
<1> SUFFICES ASSUME mishaps' \intersect {"overlap", "recreate"} = {}
             PROVE  /\ Busy(h)' => Placed(h)'
                    /\ ~Busy(h)' /\ ~Lost' => OnDuty'
  BY HelperSole DEF Placement, Lost
<1>p. Placed(h)
  BY HelperMoves DEF Placement
<1>o. helper[h].op \in {"update", "restore"}
  BY DEF TypeOK, Job
<1>l. Lost => Lost'
  BY HelperMoves DEF Lost
<1>f. /\ Stopped /\ app' = [app EXCEPT !.up = TRUE] => app'.up /\ app'.ok
      /\ app' = [app EXCEPT !.up = FALSE] => ~app'.up /\ app'.ok = app.ok
  BY DEF TypeOK, Container, Stopped
<1>n. ~Gone.up /\ ~Gone.ok
  BY DEF Gone
<1> USE DEF Placed, Updates, Aside, OnDuty, Stopped, Serving, At, Steps
<1>1. CASE Begin(h)
  <2>1. helper'[h].pc = IF helper[h].op = "update" THEN "backup" ELSE "check"
    BY <1>1, GoesOn DEF Begin
  <2>2. helper'[h].op = helper[h].op /\ app' = app /\ old' = Gone
    BY <1>1, GoesOn DEF Begin
  <2>3. QED BY <1>1, <1>p, <1>o, <2>1, <2>2 DEF Begin, Busy
<1>2. CASE DoBackup(h)
  <2>1. helper'[h].pc \in {"pull", "fail"} /\ helper'[h].op = helper[h].op
    BY <1>2, GoesOn DEF DoBackup
  <2>2. app' = app /\ old' = old /\ Updates(h) /\ OnDuty
    BY <1>2, <1>p DEF DoBackup
  <2>3. QED BY <2>1, <2>2 DEF Busy
<1>3. CASE DoPull(h)
  <2>1. helper'[h].pc = "stop" /\ helper'[h].op = helper[h].op
    BY <1>3, GoesOn DEF DoPull
  <2>2. app' = app /\ old' = old /\ Updates(h) /\ OnDuty
    BY <1>3, <1>p DEF DoPull
  <2>3. QED BY <2>1, <2>2 DEF Busy
<1>4. CASE FindBackup(h)
  <2>1. helper'[h].pc \in {"halt", "fail"} /\ helper'[h].op = helper[h].op
    BY <1>4, GoesOn DEF FindBackup
  <2>2. app' = app /\ old' = old /\ ~Updates(h) /\ OnDuty
    BY <1>4, <1>p DEF FindBackup
  <2>3. QED BY <2>1, <2>2 DEF Busy
<1>5. CASE Stop(h)
  <2>1. helper'[h].op = helper[h].op
    BY <1>5, GoesOn DEF Stop
  <2>2. app' = [app EXCEPT !.up = FALSE]
        /\ old' = IF helper[h].pc = "stop" THEN Gone ELSE old
    BY <1>5 DEF Stop
  <2>3. CASE helper[h].pc = "halt"
    <3>1. ~Updates(h) /\ OnDuty /\ Exists(app)
      BY <1>p, <2>3, <1>n DEF Proper, Exists
    <3>2. helper'[h].pc = "move"
      BY <1>5, <2>3, <3>1, GoesOn DEF Stop
    <3>3. QED BY <1>f, <2>1, <2>2, <2>3, <3>1, <3>2 DEF Busy
  <2>4. CASE helper[h].pc = "stop" /\ Updates(h)
    <3>1. OnDuty /\ Exists(app)
      BY <1>p, <2>4, <1>n DEF Proper, Exists
    <3>2. helper'[h].pc = "rename"
      BY <1>5, <2>4, <3>1, GoesOn DEF Stop
    <3>3. QED BY <1>f, <2>1, <2>2, <2>4, <3>1, <3>2 DEF Busy
  <2>5. CASE helper[h].pc = "stop" /\ ~Updates(h)
    <3>1. app = Gone /\ old = Gone /\ ~Exists(app)
      BY <1>p, <2>5 DEF Exists, Gone
    <3>2. helper'[h].pc = "recreate"
      BY <1>5, <2>5, <3>1, GoesOn DEF Stop
    <3>3. app' = Gone /\ old' = Gone
      BY <2>2, <3>1, GoneStays
    <3>4. QED BY <2>1, <2>5, <3>2, <3>3 DEF Busy
  <2>6. QED BY <1>5, <2>3, <2>4, <2>5 DEF Stop
<1>6. CASE Rename(h)
  <2>1. helper[h].pc \in {"move", "rename"} /\ Stopped
    BY <1>6, <1>p DEF Rename
  <2>2. Exists(app) /\ ~Exists(old)
    BY <2>1, <1>n DEF Proper, Exists, Gone
  <2>3. /\ app' = Gone /\ old' = app /\ helper'[h].op = helper[h].op
        /\ helper'[h].pc = IF helper[h].pc = "move" THEN "clear" ELSE "recreate"
    BY <1>6, <2>2, GoesOn DEF Rename
  <2>4. QED BY <1>p, <2>1, <2>3 DEF Busy
<1>7. CASE Clear(h)
  <2>1. app' = app /\ old' = old /\ helper'[h].op = helper[h].op
        /\ ~Updates(h) /\ app = Gone
    BY <1>7, <1>p, GoesOn DEF Clear
  <2>2. \/ helper'[h].pc = "extract"
        \/ helper'[h].pc = "fail" /\ "restore" \in mishaps'
    BY <1>7, GoesOn DEF Clear, Mishap
  <2>3. QED BY <2>1, <2>2 DEF Busy
<1>8. CASE Extract(h)
  <2>1. app' = app /\ old' = old /\ helper'[h].op = helper[h].op
        /\ ~Updates(h) /\ app = Gone
    BY <1>8, <1>p, GoesOn DEF Extract
  <2>2. \/ helper'[h].pc = "discard"
        \/ helper'[h].pc = "fail" /\ "restore" \in mishaps'
    BY <1>8, GoesOn DEF Extract, Mishap
  <2>3. QED BY <2>1, <2>2 DEF Busy
<1>9. CASE Discard(h)
  <2>1. /\ app' = app /\ old' = Gone /\ helper'[h].op = helper[h].op
        /\ ~Updates(h) /\ app = Gone /\ helper'[h].pc = "stop"
    BY <1>9, <1>p, GoesOn DEF Discard
  <2>2. QED BY <2>1 DEF Busy
<1>s. SwapFails(h) => /\ helper'[h].pc = "remove"
                      /\ helper'[h].op = helper[h].op
                      /\ ~Updates(h) => "restore" \in mishaps'
  BY <1>o, GoesOn DEF SwapFails, Mishap
<1>10. CASE Recreate(h)
  <2>1. app = Gone /\ Aside(h) /\ old' = old
    BY <1>10, <1>p DEF Recreate
  <2>2. ~Exists(app)
    BY <2>1 DEF Exists, Gone
  <2>3. CASE SwapFails(h)
    BY <1>s, <2>1, <2>3 DEF Busy
  <2>4. CASE ~SwapFails(h)
    <3>1. helper'[h].pc = "verify" /\ helper'[h].op = helper[h].op
      BY <1>10, <2>2, <2>4, GoesOn DEF Recreate
    <3>2. app'.img = helper[h].to
      BY <1>10, <2>2, <2>4 DEF Recreate
    <3>3. helper[h].to \in Images
      BY HelperMoves DEF Proper
    <3>4. QED BY <2>1, <3>1, <3>2, <3>3, ImagesAssumption DEF Exists, Busy
  <2>5. QED BY <2>3, <2>4
<1>11. CASE Verify(h)
  <2>1. app' = app /\ old' = old /\ Aside(h)
    BY <1>11, <1>p DEF Verify
  <2>2. CASE SwapFails(h)
    BY <1>s, <2>1, <2>2 DEF Busy
  <2>3. CASE ~SwapFails(h)
    <3>1. helper'[h].pc = "accept" /\ helper'[h].op = helper[h].op /\ Serving
      BY <1>11, <2>3, GoesOn DEF Verify
    <3>2. QED BY <2>1, <3>1 DEF Busy
  <2>4. QED BY <2>2, <2>3
<1>12. CASE Accept(h)
  <2>1. /\ app' = app /\ old' = Gone /\ helper'[h].op = helper[h].op
        /\ helper'[h].pc = "finish" /\ Serving
    BY <1>12, <1>p, GoesOn DEF Accept
  <2>2. QED BY <2>1 DEF Busy
<1>13. CASE Finish(h)
  <2>1. ~Busy(h)' /\ app' = app /\ old' = old /\ OnDuty
    BY <1>13, <1>p, EndsThere DEF Finish
  <2>2. QED BY <2>1
<1>14. CASE Remove(h)
  <2>1. /\ app' = Gone /\ old' = old /\ helper'[h].op = helper[h].op
        /\ mishaps' = mishaps
    BY <1>14, GoesOn DEF Remove, Keeps
  <2>2. CASE Updates(h)
    <3>1. Aside(h) /\ old.ok /\ Exists(old)
      BY <1>14, <1>p, <1>n, <2>2 DEF Remove, Proper, Exists
    <3>2. helper'[h].pc = "back"
      BY <1>14, <2>2, <3>1, GoesOn DEF Remove
    <3>3. QED BY <2>1, <2>2, <3>1, <3>2 DEF Busy
  <2>3. CASE ~Updates(h)
    <3>1. "restore" \in mishaps'
      BY <1>14, <1>p, <2>1, <2>3 DEF Remove
    <3>2. helper'[h].pc = "fail"
      BY <1>14, <2>3, GoesOn DEF Remove
    <3>3. QED BY <3>1, <3>2 DEF Busy
  <2>4. QED BY <2>2, <2>3
<1>15. CASE RenameBack(h)
  <2>1. Updates(h) /\ app = Gone /\ Aside(h) /\ helper[h].op = "update"
    BY <1>15, <1>p DEF RenameBack
  <2>2. Exists(old) /\ ~Exists(app)
    BY <2>1, <1>n DEF Proper, Exists, Gone
  <2>3. /\ app' = old /\ old' = Gone /\ helper'[h].op = helper[h].op
        /\ helper'[h].pc = "resume"
    BY <1>15, <2>2, GoesOn DEF RenameBack
  <2>4. QED BY <2>1, <2>3 DEF Busy
<1>16. CASE Resume(h)
  <2>1. Updates(h) /\ Stopped
    BY <1>16, <1>p DEF Resume
  <2>2. Exists(app)
    BY <2>1, <1>n DEF Proper, Exists
  <2>3. app' = [app EXCEPT !.up = TRUE] /\ old' = old
        /\ helper'[h].pc = "fail"
    BY <1>16, <2>2, GoesOn DEF Resume
  <2>4. OnDuty'
    BY <1>f, <2>1, <2>3
  <2>5. QED BY <2>3, <2>4 DEF Busy
<1>17. CASE Fail(h)
  <2>1. /\ app' = app /\ old' = old /\ helper'[h].pc = "giveup"
        /\ mishaps' = mishaps /\ (OnDuty \/ "restore" \in mishaps)
    BY <1>17, <1>p, GoesOn DEF Fail, Keeps
  <2>2. QED BY <2>1 DEF Busy
<1>18. CASE GiveUp(h)
  <2>1. /\ app' = app /\ old' = old /\ ~Busy(h)'
        /\ mishaps' = mishaps /\ (OnDuty \/ "restore" \in mishaps)
    BY <1>18, <1>p, EndsThere DEF GiveUp, Keeps
  <2>2. QED BY <2>1 DEF Lost
<1>19. QED
  BY <1>1, <1>2, <1>3, <1>4, <1>5, <1>6, <1>7, <1>8, <1>9, <1>10, <1>11,
     <1>12, <1>13, <1>14, <1>15, <1>16, <1>17, <1>18 DEF HelperStep

(* A helper keeps its lock, and a restore brings one back with the files.  *)
LEMMA HelperLocked ==
  ASSUME NEW h \in Helpers, TypeOK, Sole, Placement, Locked, HelperStep(h)
  PROVE  Locked'
<1> SUFFICES ASSUME mishaps' \intersect {"race", "early"} = {}
             PROVE  /\ "overlap" \notin mishaps'
                    /\ "recreate" \notin mishaps'
                    /\ \A i \in DOMAIN backups' : backups'[i].lock
                    /\ Busy(h)' =>
                         /\ helper'[h].op = "restore" => helper'[h].bak.lock
                         /\ helper'[h].pc \in {"extract", "fail", "giveup"} =>
                              lock' # "none" \/ app' = Gone
                         /\ helper'[h].pc \notin {"extract", "fail", "giveup"}
                              => lock' # "none"
  BY HelperSole DEF Locked
<1>1. /\ mishaps \intersect {"race", "early", "overlap", "recreate"} = {}
      /\ {"overlap", "recreate"} \intersect mishaps' = {}
  BY HelperMoves DEF Locked
<1>2. /\ helper[h].op = "restore" => helper[h].bak.lock
      /\ helper[h].pc \in {"extract", "fail", "giveup"} =>
           lock # "none" \/ app = Gone
      /\ helper[h].pc \notin {"extract", "fail", "giveup"} => lock # "none"
      /\ \A i \in DOMAIN backups : backups[i].lock
  BY <1>1, HelperMoves DEF Locked
<1>3. Placed(h)
  BY <1>1, HelperMoves DEF Placement
<1>4. Busy(h)' => helper'[h].op = helper[h].op /\ helper'[h].bak = helper[h].bak
  <2>1. helper'[h] = Idle => ~Busy(h)'
    BY DEF Idle, Busy
  <2>2. ASSUME NEW p \in Steps, helper'[h] = [helper[h] EXCEPT !.pc = p]
        PROVE  helper'[h].op = helper[h].op /\ helper'[h].bak = helper[h].bak
    BY <2>2 DEF TypeOK, Job
  <2>3. QED BY <2>1, <2>2, HelperMoves
<1>5. CASE DoBackup(h)
  <2> DEFINE new == [lock |-> lock # "none", pending |-> pending,
                     failed |-> failed, deploy |-> deploy]
  <2>1. lock # "none" /\ lock' = "fresh"
    BY <1>2, <1>5 DEF DoBackup, At, Heartbeat, Touched
  <2>2. <<new>> \o backups \in Seq(Backup)
        /\ \A i \in DOMAIN (<<new>> \o backups) : (<<new>> \o backups)[i].lock
    <3>1. new \in Backup /\ new.lock /\ backups \in Seq(Backup)
      BY <2>1 DEF TypeOK, Backup
    <3>2. <<new>> \in Seq(Backup) /\ Len(<<new>>) = 1 /\ <<new>>[1] = new
      BY <3>1
    <3>3. QED BY <1>2, <3>1, <3>2, ConcatProperties
  <2>3. \A i \in DOMAIN Newest(<<new>> \o backups) :
          Newest(<<new>> \o backups)[i].lock
    BY <2>2, NewestPrefix
  <2>4. backups' = Newest(<<new>> \o backups) \/ backups' = backups
    BY <1>5 DEF DoBackup
  <2>5. QED BY <1>1, <1>2, <1>4, <2>1, <2>3, <2>4
<1>6. ~DoBackup(h) => backups' = backups
  BY DEF HelperStep, Begin, DoPull, FindBackup, Stop, Rename, Clear, Extract,
         Discard, Recreate, Verify, Accept, Finish, Remove, RenameBack, Resume,
         Fail, GiveUp, Beats, disk
<1> SUFFICES ASSUME ~DoBackup(h), Busy(h)'
             PROVE  /\ helper'[h].pc \in {"extract", "fail", "giveup"} =>
                         lock' # "none" \/ app' = Gone
                    /\ helper'[h].pc \notin {"extract", "fail", "giveup"}
                         => lock' # "none"
  BY <1>1, <1>2, <1>4, <1>5, <1>6
<1>b. Heartbeat /\ lock # "none" => lock' # "none"
  BY DEF Heartbeat, Touched
<1>7. CASE Begin(h) \/ DoPull(h) \/ FindBackup(h) \/ Stop(h) \/ Discard(h)
           \/ Recreate(h) \/ Verify(h) \/ Accept(h) \/ RenameBack(h)
           \/ Resume(h) \/ Rename(h)
  BY <1>2, <1>7, <1>b DEF Begin, DoPull, FindBackup, Stop, Discard, Recreate,
       Verify, Accept, RenameBack, Resume, Rename, Beats, disk, files, At
<1>8. CASE Clear(h)
  <2>1. app' = Gone /\ lock # "none"
    BY <1>2, <1>3, <1>8 DEF Clear, At, Placed
  <2>2. \/ helper'[h].pc = "extract"
        \/ helper'[h].pc = "fail"
    BY <1>8, GoesOn DEF Clear, Steps
  <2>3. QED BY <2>1, <2>2
<1>9. CASE Extract(h)
  <2>1. app' = Gone /\ helper[h].op = "restore"
    BY <1>3, <1>9 DEF Extract, At, Placed, Updates, TypeOK, Job
  <2>2. \/ helper'[h].pc = "discard" /\ lock' = "stale"
        \/ helper'[h].pc = "fail"
    BY <1>2, <1>9, <2>1, GoesOn DEF Extract, Steps
  <2>3. QED BY <2>1, <2>2
<1>10. CASE Finish(h) \/ GiveUp(h)
  BY <1>10, EndsThere DEF Finish, GiveUp
<1>11. CASE Remove(h)
  BY <1>2, <1>11 DEF Remove, disk, files, At
<1>12. CASE Fail(h)
  <2>1. helper'[h].pc = "giveup" /\ (lock # "none" \/ app = Gone)
        /\ lock' = lock /\ app' = app
    BY <1>2, <1>12, GoesOn DEF Fail, At, Steps
  <2>2. QED BY <2>1
<1>13. QED
  BY <1>7, <1>8, <1>9, <1>10, <1>11, <1>12 DEF HelperStep

(* When the service is on and there is no lock, no helper is at work,      *)
(* unless a lock was taken twice or cleared.                               *)
LEMMA Unlocked ==
  ASSUME TypeOK, Locked, Serving, lock = "none",
         mishaps \intersect {"race", "early"} = {}
  PROVE  /\ \A h \in Helpers : ~Busy(h)
         /\ mishaps \intersect {"overlap", "recreate"} = {}
<1>1. app # Gone
  BY DEF Serving, Gone
<1>2. QED BY <1>1 DEF Locked, Serving

(* A route that takes the lock and spawns a helper. *)
LEMMA SpawnKeeps ==
  ASSUME NEW op \in {"update", "restore"}, NEW to \in Images,
         NEW bak \in Backup, NEW p, NEW back, NEW seen,
         IInv, Serving, Spawn(op, to, bak, p, back, seen),
         seen \in {mishaps, mishaps \union {"race"}},
         lock = "none" \/ "race" \in seen,
         op = "restore" => \E i \in DOMAIN backups : bak = backups[i],
         UNCHANGED <<app, old, backups>>,
         \A c \in Clients : req'[c] # "none" => req[c] # "none"
  PROVE  Proper' /\ ReqServed' /\ Sole' /\ Placement' /\ Locked'
<1> DEFINE new == [pc |-> "begin", op |-> op, to |-> to, bak |-> bak]
<1> USE DEF IInv
<1>1. CASE Started(op, to, bak, p, seen)
  <2>1. PICK g \in Helpers : ~Busy(g) /\ helper' = [helper EXCEPT ![g] = new]
    BY <1>1 DEF Started, Live, Busy
  <2>2. /\ helper'[g] = new
        /\ \A h \in Helpers \ {g} : helper'[h] = helper[h]
    BY <2>1 DEF TypeOK
  <2>3. /\ lock' = "fresh" /\ mishaps \subseteq mishaps' /\ seen \subseteq mishaps'
        /\ "overlap" \notin mishaps' => \A h \in Helpers : ~Busy(h)
        /\ mishaps' \ mishaps \subseteq {"race", "overlap"}
        /\ (\A h \in Helpers : ~Busy(h)) => mishaps' = seen
    BY <1>1 DEF Started, Live, Busy
  <2>4. Proper'
    BY <2>2 DEF Proper, Busy
  <2>5. ReqServed'
    BY DEF ReqServed, Serving
  <2>6. Sole'
    BY <2>2, <2>3 DEF Sole, Busy
  <2>7. Placement'
    <3> SUFFICES ASSUME mishaps' \intersect {"overlap", "recreate"} = {}
                 PROVE  Placed(g)'
      BY <2>2, <2>3 DEF Placement, Busy, Lost
    <3>1. helper'[g].pc = "begin" /\ Serving'
      BY <2>2 DEF Serving
    <3>2. Lost' \/ old' = Gone
      BY <2>3 DEF Placement, Lost, OnDuty
    <3>3. QED BY <3>1, <3>2 DEF Placed
  <2>8. Locked'
    <3> SUFFICES ASSUME mishaps' \intersect {"race", "early"} = {}
                 PROVE  Locked'
      BY DEF Locked
    <3>1. lock = "none" /\ mishaps \intersect {"race", "early"} = {}
      BY <2>3
    <3>2. (\A h \in Helpers : ~Busy(h))
          /\ mishaps \intersect {"overlap", "recreate"} = {}
      BY <3>1, Unlocked
    <3>3. \A h \in Helpers : Busy(h)' => h = g
      BY <2>2, <3>2 DEF Busy
    <3>4. \A i \in DOMAIN backups : backups[i].lock
      BY <3>1 DEF Locked
    <3>5. QED BY <2>2, <2>3, <3>1, <3>2, <3>3, <3>4 DEF Locked
  <2>9. QED BY <2>4, <2>5, <2>6, <2>7, <2>8
<1>2. CASE NotStarted(p, back, seen)
  <2>1. helper' = helper /\ mishaps' = seen
    BY <1>2 DEF NotStarted
  <2>2. Proper' /\ ReqServed' /\ Sole' /\ Placement'
    BY <2>1 DEF Proper, ReqServed, Serving, Sole, Placement, Placed, Lost,
                Aside, Updates, OnDuty, Stopped, Exists, Busy
  <2>3. Locked'
    <3> SUFFICES ASSUME mishaps' \intersect {"race", "early"} = {}
                 PROVE  Locked'
      BY DEF Locked
    <3>1. lock = "none" /\ mishaps \intersect {"race", "early"} = {}
      BY <2>1
    <3>2. (\A h \in Helpers : ~Busy(h))
          /\ mishaps \intersect {"overlap", "recreate"} = {}
      BY <3>1, Unlocked
    <3>3. QED BY <2>1, <3>1, <3>2 DEF Locked, Busy
  <2>4. QED BY <2>2, <2>3
<1>3. QED BY <1>1, <1>2 DEF Spawn

(* The other parts of the invariant depend on these variables only. *)
LEMMA NothingMoves ==
  ASSUME IInv, UNCHANGED <<app, old, helper, mishaps>>
  PROVE  Proper' /\ Sole' /\ Placement'
  BY DEF IInv, Proper, Sole, Placement, Placed, Lost, Aside, Updates, OnDuty,
         Stopped, Serving, Exists, Busy

LEMMA RequestsKeep == ASSUME IInv, Requests, TypeOK' PROVE IInv'
<1> USE DEF IInv
<1>1. ASSUME NEW c \in Clients, ApplyRequest(c) \/ ApplyRefused(c)
      PROVE  IInv'
  <2>1. UNCHANGED <<app, old, helper, mishaps, lock, backups>>
    BY <1>1 DEF ApplyRequest, ApplyRefused, Keeps, disk, files
  <2>2. ReqServed'
    <3>1. \A d \in Clients : req'[d] # "none" => req[d] # "none" \/ Serving
      BY <1>1 DEF ApplyRequest, ApplyRefused, TypeOK
    <3>2. QED BY <2>1, <3>1 DEF ReqServed, Serving
  <2>3. Locked'
    BY <2>1 DEF Locked, Busy
  <2>4. QED BY <2>1, <2>2, <2>3, NothingMoves
<1>2. ASSUME NEW c \in Clients, NEW to \in Images, Apply(c, to)
      PROVE  IInv'
  <2> DEFINE seen == IF lock = "none" THEN mishaps ELSE mishaps \union {"race"}
  <2>1. Serving
    BY <1>2 DEF Apply, ReqServed
  <2>2. Spawn("update", to, NoBackup, app.img, None, seen)
    BY <1>2 DEF Apply
  <2>3. \A d \in Clients : req'[d] # "none" => req[d] # "none"
    BY <1>2 DEF Apply, TypeOK
  <2>4. UNCHANGED <<app, old, backups>>
    BY <1>2 DEF Apply
  <2>5. QED BY <2>1, <2>2, <2>3, <2>4, SpawnKeeps, NoBackupType
<1>3. ASSUME NEW i \in DOMAIN backups, Restore(backups[i])
      PROVE  IInv'
  <2>1. Serving /\ lock = "none" /\ UNCHANGED <<app, old, backups, req>>
    BY <1>3 DEF Restore
  <2>2. Exists(app)
    BY <2>1 DEF Proper, Serving, Gone, Exists
  <2>3. RestoreImage \in Images /\ backups[i] \in Backup
    BY <2>2, RestoreImageType DEF TypeOK
  <2>4. Spawn("restore", RestoreImage, backups[i], pending, pending, mishaps)
    BY <1>3 DEF Restore
  <2>5. QED BY <2>1, <2>3, <2>4, SpawnKeeps
<1>4. CASE ClearStaleLock
  <2>1. /\ UNCHANGED <<app, old, helper, req, backups>>
        /\ mishaps' = mishaps \/ mishaps' = mishaps \union {"early"}
        /\ "early" \notin mishaps' => \A h \in Helpers : ~Busy(h)
    BY <1>4 DEF ClearStaleLock, Mishap, Live, Busy
  <2>2. Proper' /\ ReqServed' /\ Sole'
    BY <2>1 DEF Proper, ReqServed, Serving, Sole, Busy
  <2>3. Placement'
    BY <2>1 DEF Placement, Placed, Lost, Aside, Updates, OnDuty, Stopped,
                Serving, Exists, Busy
  <2>4. Locked'
    BY <2>1 DEF Locked, Busy
  <2>5. QED BY <2>2, <2>3, <2>4
<1>5. CASE RestartService
  <2>1. UNCHANGED <<app, old, helper, mishaps, lock, backups>>
        /\ \A d \in Clients : req'[d] = "none"
    BY <1>5 DEF RestartService, NoRequests, Keeps, disk, files
  <2>2. ReqServed' /\ Locked'
    BY <2>1 DEF ReqServed, Locked, Busy
  <2>3. QED BY <2>1, <2>2, NothingMoves
<1>6. CASE RecreateService
  <2>1. /\ UNCHANGED <<old, helper, lock, backups>>
        /\ \A d \in Clients : req'[d] = "none"
        /\ mishaps' = mishaps \union {"recreate"}
        /\ Serving /\ lock = "none"
    BY <1>6 DEF RecreateService, NoRequests, Mishap, disk, files
  <2>2. app'.img = app.img /\ ~app'.up
    BY <1>6 DEF RecreateService, TypeOK, Container
  <2>3. app.img # None
    BY <2>1 DEF Proper, Serving, Gone
  <2>4. Proper' /\ ReqServed' /\ Sole'
    BY <2>1, <2>2, <2>3 DEF Proper, ReqServed, Sole, Busy
  <2>5. Placement'
    BY <2>1 DEF Placement, Lost
  <2>6. Locked'
    <3> SUFFICES ASSUME mishaps' \intersect {"race", "early"} = {}
                 PROVE  Locked'
      BY DEF Locked
    <3>1. mishaps \intersect {"race", "early"} = {}
      BY <2>1
    <3>2. (\A h \in Helpers : ~Busy(h))
          /\ mishaps \intersect {"overlap", "recreate"} = {}
      BY <2>1, <3>1, Unlocked
    <3>3. QED BY <2>1, <2>2, <3>1, <3>2 DEF Locked, Busy
  <2>7. QED BY <2>4, <2>5, <2>6
<1>7. QED
  BY <1>1, <1>2, <1>3, <1>4, <1>5, <1>6 DEF Requests

LEMMA KillKeeps ==
  ASSUME NEW h \in Helpers, IInv, Kill(h), TypeOK' PROVE IInv'
<1> USE DEF IInv
<1>1. /\ UNCHANGED <<app, old, req, lock, backups>>
      /\ ~Busy(h)' /\ \A g \in Helpers \ {h} : helper'[g] = helper[g]
      /\ \/ mishaps' \in {mishaps, mishaps \union {"unclean"}} /\ ~Midway(h)
         \/ mishaps' = mishaps \union {"kill"}
      /\ Busy(h)
  <2>1. ~Busy(h)'
    BY EndsThere DEF Kill
  <2>2. \A g \in Helpers \ {h} : helper'[g] = helper[g]
    BY DEF Kill, Ends, TypeOK
  <2>3. QED BY <2>1, <2>2
         DEF Kill, Mishap, Midway, At, Live, Busy, disk, files, Outside
<1>2. \A g \in Helpers : Busy(g)' => g # h /\ Busy(g) /\ helper'[g] = helper[g]
  BY <1>1 DEF Busy
<1>3. Proper' /\ ReqServed' /\ Sole'
  BY <1>1, <1>2 DEF Proper, ReqServed, Serving, Sole
<1>4. mishaps' \intersect {"overlap", "recreate"} = {} =>
        \A g \in Helpers : Busy(g)' => Placed(g)'
  BY <1>1, <1>2 DEF Placement, Placed, Lost, Aside, Updates, OnDuty, Stopped,
                    Serving, Exists
<1>5. ~Lost' => OnDuty'
  <2> SUFFICES ASSUME ~Lost' PROVE OnDuty'
    OBVIOUS
  <2>1. ~Lost /\ ~Midway(h)
    BY <1>1 DEF Lost
  <2>2. Placed(h)
    BY <1>1, <2>1 DEF Placement, Lost
  <2>3. helper[h].pc \in Steps /\ helper[h].op \in {"update", "restore"}
    BY <1>1 DEF TypeOK, Job, Busy
  <2>4. helper[h].pc \in {"begin", "backup", "pull", "check", "halt", "fail",
                          "giveup"} \/ (helper[h].pc = "stop" /\ Updates(h))
    BY <2>1, <2>3 DEF Midway, Steps, Updates, At
  <2>5. OnDuty
    BY <2>1, <2>2, <2>4 DEF Placed, OnDuty, Lost
  <2>6. QED BY <1>1, <2>5 DEF OnDuty, Serving
<1>6. Placement'
  BY <1>4, <1>5 DEF Placement
<1>7. Locked'
  BY <1>1, <1>2 DEF Locked
<1>8. QED BY <1>3, <1>6, <1>7

LEMMA TimeKeeps == ASSUME IInv, TimePasses, TypeOK' PROVE IInv'
<1> USE DEF IInv
<1>1. /\ UNCHANGED <<app, old, helper, mishaps, req, backups>>
      /\ lock # "none" /\ lock' # "none"
  BY DEF TimePasses
<1>2. ReqServed' /\ Locked'
  BY <1>1 DEF ReqServed, Serving, Locked, Busy
<1>3. QED BY <1>1, <1>2, NothingMoves

(* The invariant holds at first and every step keeps it.                   *)
LEMMA InitInv == ASSUME Init PROVE Proper /\ ReqServed /\ Sole /\ Placement /\ Locked
<1>1. \A h \in Helpers : ~Busy(h)
  BY DEF Init, Busy, Idle
<1>2. app.img # None /\ app.up /\ app.ok
  BY ImagesAssumption DEF Init
<1>3. QED
  BY <1>1, <1>2 DEF Init, NoRequests, Proper, ReqServed, Serving, Sole, Placement,
                    Lost, OnDuty, Locked

LEMMA StepInv == ASSUME IInv, [Next]_vars, TypeOK' PROVE IInv'
<1>1. ASSUME NEW h \in Helpers, HelperStep(h) PROVE IInv'
  BY <1>1, HelperProper, HelperSole, HelperPlacement, HelperLocked DEF IInv
<1>2. CASE UNCHANGED vars
  <2>1. ReqServed' /\ Locked'
    BY <1>2 DEF IInv, vars, ReqServed, Serving, Locked, Busy
  <2>2. QED BY <1>2, <2>1, NothingMoves DEF IInv, vars
<1>3. QED
  BY <1>1, <1>2, RequestsKeep, KillKeeps, TimeKeeps DEF Next

(* The inductive invariant above holds in every state. *)
THEOREM Invariance == Spec => []IInv
<1>1. Init /\ TypeOK => IInv
  BY InitInv DEF IInv
<1>2. IInv /\ [Next]_vars /\ TypeOK' => IInv'
  BY StepInv
<1>3. QED BY <1>1, <1>2, TypeCorrect, PTL DEF Spec

(* No helper gives the lock away: two are at work only if two requests     *)
(* both found no lock or the lock of one at work was cleared, however many *)
(* helpers may be spawned and whichever of their commands fail.            *)
THEOREM LocksExclude == Spec => []LockExcludes
<1>1. IInv => LockExcludes
  <2> SUFFICES ASSUME IInv, mishaps \intersect {"race", "early"} = {}
               PROVE  ~(Cardinality(Live) > 1)
    BY DEF LockExcludes
  <2>1. \A g, h \in Live : g = h
    BY DEF IInv, Locked, Sole, Live, Busy
  <2>2. CASE Live = {}
    BY <2>2, FS_EmptySet
  <2>3. ASSUME NEW h \in Live PROVE ~(Cardinality(Live) > 1)
    <3>1. Live = {h}
      BY <2>1, <2>3
    <3>2. Cardinality({h}) = 1
      BY FS_Singleton, Zenon
    <3>3. QED BY <3>1, <3>2
  <2>4. QED BY <2>2, <2>3
<1>2. QED BY <1>1, Invariance, PTL

-----------------------------------------------------------------------------
(* The data.  They are cleared and extracted only where there is no        *)
(* container, and a restore that fails between the two leaves none.        *)

Torn ==
  "overlap" \notin mishaps =>
    /\ \A h \in Helpers : helper[h].pc \in {"clear", "extract"} => app = Gone
    /\ data = "torn" =>
         /\ app = Gone
         /\ \A h \in Helpers :
              helper[h].pc \in {"none", "extract", "fail", "giveup"}

LEMMA HelperTorn ==
  ASSUME NEW h \in Helpers, IInv, Torn, HelperStep(h)
  PROVE  Torn'
<1> USE DEF IInv
<1> SUFFICES ASSUME "overlap" \notin mishaps'
             PROVE  /\ helper'[h].pc \in {"clear", "extract"} => app' = Gone
                    /\ data' = "torn" =>
                         /\ app' = Gone
                         /\ helper'[h].pc \in {"none", "extract", "fail",
                                               "giveup"}
  BY HelperSole DEF Torn, Busy
<1>1. /\ helper[h].pc \in {"clear", "extract"} => app = Gone
      /\ data = "torn" => app = Gone
                          /\ helper[h].pc \in {"extract", "fail", "giveup"}
  BY HelperMoves DEF Torn, Busy
<1>2. CASE Clear(h)
  <2>1. app' = Gone /\ (helper'[h].pc = "extract" \/ helper'[h].pc = "fail")
    BY <1>1, <1>2, GoesOn DEF Clear, At, Steps
  <2>2. QED BY <2>1
<1>3. CASE Extract(h)
  <2>1. app' = Gone /\ \/ helper'[h].pc = "discard" /\ data' = "whole"
                       \/ helper'[h].pc = "fail"
    BY <1>1, <1>3, GoesOn DEF Extract, At, Steps
  <2>2. QED BY <2>1
<1>4. CASE Fail(h)
  <2>1. helper'[h].pc = "giveup" /\ app' = app /\ data' = data
    BY <1>4, GoesOn DEF Fail, Steps
  <2>2. QED BY <1>1, <2>1
<1>5. CASE GiveUp(h)
  <2>1. helper'[h].pc = "none" /\ app' = app /\ data' = data
    BY <1>5, EndsThere DEF GiveUp, Busy
  <2>2. QED BY <1>1, <2>1
<1>6. CASE Stop(h)
  <2>1. data' = data /\ data # "torn"
    BY <1>1, <1>6 DEF Stop, Beats
  <2>2. helper'[h].pc \in {"clear", "extract"} => ~Exists(app)
    BY <1>6, GoesOn DEF Stop, Steps, At
  <2>3. ~Exists(app) => app' = Gone
    BY <1>6, GoneStays DEF Stop, Proper, Exists
  <2>4. QED BY <2>1, <2>2, <2>3
<1>7. CASE Rename(h)
  <2>1. data' = data /\ data # "torn"
    BY <1>1, <1>7 DEF Rename, disk
  <2>2. helper'[h].pc \in {"clear", "extract"} => app' = Gone
    <3>1. Ends(h) => helper'[h].pc = "none"
      BY EndsThere DEF Busy
    <3>2. QED BY <1>7, <3>1 DEF Rename
  <2>3. QED BY <2>1, <2>2
<1>8. CASE \/ Begin(h) \/ DoBackup(h) \/ DoPull(h) \/ FindBackup(h)
           \/ Discard(h) \/ Recreate(h) \/ Verify(h) \/ Accept(h) \/ Finish(h)
           \/ Remove(h) \/ RenameBack(h) \/ Resume(h)
  <2>1. data' = data /\ data # "torn"
    BY <1>1, <1>8 DEF Begin, DoBackup, DoPull, FindBackup, Discard, Recreate,
         Verify, Accept, Finish, Remove, RenameBack, Resume, Beats, disk, At
  <2>2. helper'[h].pc \notin {"clear", "extract"}
    <3>1. Ends(h) => helper'[h].pc = "none"
      BY EndsThere DEF Busy
    <3>2. QED
      BY <1>8, <3>1, GoesOn DEF Begin, DoBackup, DoPull, FindBackup, Discard,
         Recreate, SwapFails, Verify, Accept, Finish, Remove, RenameBack, Resume,
         Steps
  <2>3. QED BY <2>1, <2>2
<1>9. QED
  BY <1>2, <1>3, <1>4, <1>5, <1>6, <1>7, <1>8 DEF HelperStep

(* Nobody runs the service while its data are half restored, unless two    *)
(* helpers are at work: a restore that failed or died leaves no container. *)
THEOREM WholeData == Spec => []ServesWholeData
<1>1. Init => Torn
  BY DEF Init, Torn, Idle
<1>2. IInv /\ Torn /\ [Next]_vars => Torn'
  <2> SUFFICES ASSUME IInv, Torn, [Next]_vars, "overlap" \notin mishaps'
               PROVE  Torn'
    BY DEF Torn
  <2>1. ASSUME NEW h \in Helpers, HelperStep(h) PROVE Torn'
    BY <2>1, HelperTorn
  <2>2. CASE Requests
    <3>1. Serving
      BY <2>2 DEF Requests, ApplyRequest, ApplyRefused, Apply, Restore,
           ClearStaleLock, RestartService, RecreateService, IInv, ReqServed
    <3>2. app # Gone
      BY <3>1 DEF Serving, Gone
    <3>3. "overlap" \notin mishaps /\ data' = data
      BY <2>2 DEF Requests, ApplyRequest, ApplyRefused, Apply, Restore,
           ClearStaleLock, RestartService, RecreateService, Spawn, Started,
           NotStarted, Keeps, Mishap, disk
    <3>4. \A h \in Helpers : helper'[h] = helper[h] \/ helper'[h].pc = "begin"
      <4> DEFINE g == CHOOSE h \in Helpers : h \notin Live
                 Job1(op, to, b) == [pc |-> "begin", op |-> op, to |-> to, bak |-> b]
                 Spawned == \E op, to, b :
                     /\ Live # Helpers
                     /\ helper' = [helper EXCEPT ![g] = Job1(op, to, b)]
      <4>1. UNCHANGED helper \/ Spawned
        <5>1. ASSUME NEW op, NEW to, NEW b, NEW p, NEW back, NEW seen,
                     Spawn(op, to, b, p, back, seen)
              PROVE  UNCHANGED helper \/ Spawned
          <6>1. CASE Started(op, to, b, p, seen)
            <7>1. /\ Live # Helpers
                  /\ helper' = [helper EXCEPT ![g] = Job1(op, to, b)]
              BY <6>1 DEF Started
            <7>2. QED BY <7>1
          <6>2. CASE NotStarted(p, back, seen)
            BY <6>2 DEF NotStarted
          <6>3. QED BY <5>1, <6>1, <6>2 DEF Spawn
        <5>2. ASSUME NEW c \in Clients, NEW to \in Images, Apply(c, to)
              PROVE  UNCHANGED helper \/ Spawned
          <6> HIDE DEF Spawned
          <6>1. QED BY <5>1, <5>2 DEF Apply
        <5>3. ASSUME NEW i \in DOMAIN backups, Restore(backups[i])
              PROVE  UNCHANGED helper \/ Spawned
          <6> HIDE DEF Spawned
          <6>1. QED BY <5>1, <5>3 DEF Restore
        <5>4. CASE \/ \E c \in Clients : ApplyRequest(c) \/ ApplyRefused(c)
                   \/ ClearStaleLock \/ RestartService \/ RecreateService
          BY <5>4 DEF ApplyRequest, ApplyRefused, ClearStaleLock, RestartService,
               RecreateService
        <5> HIDE DEF Spawned
        <5>5. QED BY <2>2, <5>2, <5>3, <5>4 DEF Requests
      <4>2. ASSUME NEW op, NEW to, NEW b,
                   helper' = [helper EXCEPT ![g] = Job1(op, to, b)],
                   NEW h \in Helpers
            PROVE  helper'[h] = helper[h] \/ helper'[h].pc = "begin"
        <5>1. Job1(op, to, b).pc = "begin"
          OBVIOUS
        <5>2. helper'[h] = IF h = g THEN Job1(op, to, b) ELSE helper[h]
          BY <4>2 DEF IInv, TypeOK
        <5>3. QED BY <5>1, <5>2
      <4>3. QED BY <4>1, <4>2
    <3>5. QED BY <3>2, <3>3, <3>4 DEF Torn
  <2>3. ASSUME NEW h \in Helpers, Kill(h) PROVE Torn'
    <3>1. /\ UNCHANGED <<app, data>> /\ ~Busy(h)'
          /\ \A g \in Helpers \ {h} : helper'[g] = helper[g]
          /\ "overlap" \notin mishaps
      BY <2>3, EndsThere DEF Kill, Ends, Mishap, disk, IInv, TypeOK
    <3>2. QED BY <3>1 DEF Torn, Busy
  <2>4. CASE TimePasses \/ UNCHANGED vars
    BY <2>4 DEF TimePasses, vars, Torn
  <2>5. QED BY <2>1, <2>2, <2>3, <2>4 DEF Next
<1>3. IInv /\ Torn => ServesWholeData
  BY DEF Torn, ServesWholeData, Serving, Gone
<1>4. QED BY <1>1, <1>2, <1>3, Invariance, PTL DEF Spec

-----------------------------------------------------------------------------
(* What is pending and what was deployed agree with the version in force.  *)

Apart   == mishaps \intersect {"race", "early"} = {}
Excused == "unclean" \in mishaps /\ ~Apart

(* A restore would start v; and it would but for a request that another    *)
(* version served.                                                         *)
Agrees(v) == pending \in {None, v} /\ deploy \in {None, v}
Nearly(v) == deploy \in {None, v} /\ (Apart => pending \in {None, v})

(* What the next command of a helper relies on.  The version that an       *)
(* update leaves behind is put aside from recreate to back; a restore      *)
(* overwrites the files, and every helper does so when it finishes.        *)
Kept(h) ==
  LET p == helper[h].pc IN
  /\ p \in {"begin", "backup", "pull", "check", "halt", "rename"} =>
       Agrees(app.img)
  /\ p = "stop" /\ Updates(h) => Agrees(app.img)
  /\ p = "recreate" /\ Updates(h) => Agrees(old.img)
  /\ p \in {"verify", "remove", "back"} /\ Updates(h) => Nearly(old.img)
  /\ p \in {"resume", "fail", "giveup"} => Nearly(app.img)
  /\ p \in {"verify", "accept", "finish"} => app.img = helper[h].to
  /\ p \in {"verify", "remove"} /\ Apart => req = NoRequests

FilesAgree ==
  ~Lost /\ ~Excused =>
    /\ \A h \in Helpers : Busy(h) => Kept(h)
    /\ (\A h \in Helpers : ~Busy(h)) => Agrees(app.img)

(* A helper keeps the files in agreement, whatever command fails.          *)
LEMMA HelperAgrees ==
  ASSUME NEW h \in Helpers, IInv, FilesAgree, HelperStep(h)
  PROVE  FilesAgree'
<1> USE DEF IInv
<1> SUFFICES ASSUME ~Lost', ~Excused'
             PROVE  /\ Busy(h)' => Kept(h)'
                    /\ ~Busy(h)' => Agrees(app.img)'
  BY HelperSole DEF FilesAgree, Lost
<1>1. mishaps' = mishaps /\ "restore" \notin mishaps
  BY HelperMoves DEF Lost
<1>2. Placed(h) /\ Kept(h) /\ helper[h].op \in {"update", "restore"}
  <2>1. Busy(h) /\ ~Lost /\ ~Excused
    BY <1>1, HelperMoves DEF Lost, Excused, Apart
  <2> QED BY <2>1 DEF Placement, FilesAgree, Lost, TypeOK, Job
<1>3. Apart' = Apart
  BY <1>1 DEF Apart
<1>4. Apart => lock # "none" \/ app = Gone
  BY HelperMoves DEF Locked, Apart
<1>5. app = Gone => ~Serving /\ req = NoRequests
  BY DEF Gone, Serving, ReqServed, NoRequests, TypeOK
<1>6. \A v : Agrees(v) => Nearly(v)
  BY DEF Agrees, Nearly
<1>s. SwapFails(h) => Updates(h) /\ helper'[h].pc = "remove" /\ helper'[h].op = helper[h].op
  BY <1>1, <1>2, GoesOn DEF SwapFails, Mishap, Updates, Steps
<1> USE DEF Kept, Updates, At
<1>7. CASE Begin(h) \/ DoBackup(h) \/ DoPull(h) \/ FindBackup(h)
  <2>1. /\ UNCHANGED <<app, pending, deploy>> /\ Agrees(app.img) /\ Busy(h)'
        /\ helper'[h].op = helper[h].op
        /\ helper'[h].pc \in {"backup", "check", "pull", "stop", "halt", "fail"}
    BY <1>2, <1>7, GoesOn
       DEF Begin, DoBackup, DoPull, FindBackup, Beats, disk, files, Busy, Steps
  <2>2. Agrees(app.img)'
    BY <2>1 DEF Agrees
  <2> QED BY <1>3, <2>1, <2>2 DEF Agrees, Nearly
<1>8. CASE Stop(h)
  <2>1. /\ helper'[h].op = helper[h].op /\ Busy(h)' /\ UNCHANGED <<pending, deploy>>
        /\ helper'[h].pc \in {"move", "clear", "rename", "recreate"}
        /\ helper'[h].pc \in {"rename", "recreate"} => At(h, "stop")
        /\ helper'[h].pc = "recreate" => ~Exists(app)
        /\ helper'[h].pc = "rename" => Exists(app)
        /\ app' = [app EXCEPT !.up = FALSE]
    BY <1>8, GoesOn DEF Stop, Beats, Busy, Steps
  <2>2. At(h, "stop") /\ Updates(h) => Exists(app)
    BY <1>2, <1>5 DEF Placed, OnDuty, Proper, Exists
  <2>3. app'.img = app.img
    BY <2>1 DEF TypeOK, Container
  <2>4. Exists(app) /\ At(h, "stop") => Updates(h)
    BY <1>2 DEF Placed, Exists, Gone
  <2>5. helper'[h].pc = "rename" => Agrees(app.img)'
    BY <1>2, <2>1, <2>3, <2>4 DEF Agrees
  <2> QED BY <2>1, <2>2, <2>5
<1>9. CASE Rename(h)
  <2>1. Stopped /\ (At(h, "rename") => Updates(h))
    BY <1>2, <1>9 DEF Rename, Placed
  <2>2. Exists(app) /\ ~Exists(old)
    BY <2>1 DEF Stopped, Proper, Exists, Gone
  <2>3. /\ old' = app /\ UNCHANGED <<pending, deploy>> /\ Busy(h)'
        /\ helper'[h].pc = IF At(h, "move") THEN "clear" ELSE "recreate"
    BY <1>9, <2>2, GoesOn DEF Rename, disk, files, Busy, Steps
  <2>4. At(h, "rename") => Agrees(old.img)'
    BY <1>2, <2>3 DEF Agrees
  <2> QED BY <1>9, <2>1, <2>3, <2>4 DEF Rename
<1>10. CASE Clear(h) \/ Extract(h) \/ Discard(h)
  <2>1. ~Updates(h)
    BY <1>2, <1>10 DEF Clear, Extract, Discard, Placed
  <2>2. helper'[h].pc \in {"extract", "discard", "stop"} /\ Busy(h)'
    BY <1>1, <1>10, GoesOn DEF Clear, Extract, Discard, Mishap, Busy, Steps
  <2>3. helper'[h].op = helper[h].op
    BY <1>10, GoesOn DEF Clear, Extract, Discard, Steps
  <2> QED BY <2>1, <2>2, <2>3
<1>11. CASE Recreate(h)
  <2>1. /\ app = Gone /\ ~Exists(app) /\ req' = NoRequests
        /\ UNCHANGED <<old, pending, deploy>>
    BY <1>2, <1>5, <1>11 DEF Recreate, Placed, Exists, Gone, Beats, Outside
  <2>2. Updates(h) => Nearly(old.img)
    BY <1>2, <1>6, <1>11 DEF Recreate
  <2>3. \/ SwapFails(h)
        \/ /\ helper'[h].pc = "verify" /\ helper'[h].op = helper[h].op
           /\ app'.img = helper[h].to /\ helper'[h].to = helper[h].to
    BY <1>11, <2>1, GoesOn DEF Recreate, Steps
  <2>4. Busy(h)' /\ helper'[h].op = helper[h].op /\ helper'[h].pc \in {"verify", "remove"}
    BY <1>s, <2>3 DEF Busy
  <2>5. Updates(h) => Nearly(old.img)'
    BY <1>3, <2>1, <2>2 DEF Nearly
  <2> QED BY <1>s, <2>1, <2>3, <2>4, <2>5
<1>12. CASE Verify(h)
  <2>1. UNCHANGED <<app, old, pending, deploy, req>>
    BY <1>12 DEF Verify, Beats, Outside
  <2>2. \/ SwapFails(h)
        \/ helper'[h].pc = "accept" /\ helper'[h].to = helper[h].to
    BY <1>12, GoesOn DEF Verify, Steps
  <2>3. Busy(h)'
    BY <1>s, <2>2 DEF Busy
  <2>4. /\ app.img = helper[h].to /\ (Apart => req = NoRequests)
        /\ Updates(h) => Nearly(old.img)
    BY <1>2, <1>12 DEF Verify
  <2> QED BY <1>3, <1>s, <2>1, <2>2, <2>3, <2>4 DEF Nearly
<1>13. CASE Accept(h)
  <2>1. /\ app' = app /\ helper'[h].pc = "finish" /\ helper'[h].to = helper[h].to
        /\ app.img = helper[h].to
    BY <1>2, <1>13, GoesOn DEF Accept, Steps
  <2> QED BY <2>1 DEF Busy
<1>14. CASE Finish(h)
  <2>1. app' = app /\ deploy' = app.img /\ pending' = None /\ ~Busy(h)'
    BY <1>2, <1>14, EndsThere DEF Finish
  <2> QED BY <2>1 DEF Agrees
<1>15. CASE Remove(h)
  <2>1. Updates(h) /\ Aside(h)
    BY <1>1, <1>2, <1>15 DEF Remove, Placed
  <2>2. Exists(old)
    BY <2>1 DEF Aside, Proper, Exists, Gone
  <2>3. UNCHANGED <<old, pending, deploy>> /\ helper'[h].pc = "back"
    BY <1>15, <2>1, <2>2, GoesOn DEF Remove, disk, files, Steps
  <2>4. Nearly(old.img)'
    BY <1>2, <1>3, <1>15, <2>1, <2>3 DEF Remove, Nearly
  <2> QED BY <2>3, <2>4 DEF Busy
<1>16. CASE RenameBack(h)
  <2>1. Updates(h) /\ app = Gone /\ Aside(h)
    BY <1>2, <1>16 DEF RenameBack, Placed
  <2>2. Exists(old) /\ ~Exists(app)
    BY <2>1 DEF Aside, Proper, Exists, Gone
  <2>3. app' = old /\ UNCHANGED <<pending, deploy>> /\ helper'[h].pc = "resume"
    BY <1>16, <2>2, GoesOn DEF RenameBack, disk, files, Steps
  <2>4. Nearly(app.img)'
    BY <1>2, <1>3, <1>16, <2>1, <2>3 DEF RenameBack, Nearly
  <2> QED BY <2>3, <2>4 DEF Busy
<1>17. CASE Resume(h)
  <2>1. app'.img = app.img /\ UNCHANGED <<pending, deploy>> /\ helper'[h].pc = "fail"
    BY <1>17, GoesOn DEF Resume, disk, files, Steps, TypeOK, Container
  <2>2. Nearly(app.img)'
    BY <1>2, <1>3, <1>17, <2>1 DEF Resume, Nearly
  <2> QED BY <2>1, <2>2 DEF Busy
<1>18. CASE Fail(h) \/ GiveUp(h)
  <2>1. Nearly(app.img) /\ UNCHANGED <<app, deploy>>
    BY <1>2, <1>18 DEF Fail, GiveUp
  <2>2. \/ helper'[h].pc = "giveup" /\ pending' = pending
        \/ ~Busy(h)' /\ pending' = None
    BY <1>18, GoesOn, EndsThere DEF Fail, GiveUp, Steps
  <2>3. Nearly(app.img)'
    BY <1>3, <2>1, <2>2 DEF Nearly
  <2> QED BY <2>1, <2>2, <2>3 DEF Agrees, Nearly, Busy
<1> QED
  BY <1>7, <1>8, <1>9, <1>10, <1>11, <1>12, <1>13, <1>14, <1>15, <1>16,
     <1>17, <1>18 DEF HelperStep

(* What stays as it was, if the helpers and their mishaps do. *)
LEMMA AgreementStays ==
  ASSUME FilesAgree, UNCHANGED <<app, old, helper, pending, deploy>>,
         mishaps \subseteq mishaps',
         Apart' => req' = req \/ req' = NoRequests \/ \A h \in Helpers : ~Busy(h)
  PROVE  FilesAgree'
<1>1. (Apart' => Apart) /\ (Lost => Lost') /\ (Excused /\ ~Apart => Excused')
  BY DEF Apart, Lost, Excused
<1>2. Excused => Excused'
  BY <1>1 DEF Excused
<1> SUFFICES ASSUME ~Lost', ~Excused' PROVE FilesAgree'
  BY DEF FilesAgree
<1>3. \A v : (Agrees(v) => Agrees(v)') /\ (Nearly(v) => Nearly(v)')
  BY <1>1 DEF Agrees, Nearly
<1>4. ASSUME NEW h \in Helpers, Busy(h)' PROVE Kept(h)'
  <2>1. Kept(h)
    BY <1>1, <1>2, <1>4 DEF FilesAgree, Busy
  <2>2. Apart' => req' = req \/ req' = NoRequests
    BY <1>4 DEF Busy
  <2> QED BY <1>1, <1>3, <2>1, <2>2 DEF Kept, Updates
<1> QED BY <1>1, <1>2, <1>3, <1>4 DEF FilesAgree, Busy

(* A route makes the running version pending, or what was pending before.  *)
LEMMA SpawnAgrees ==
  ASSUME NEW op \in {"update", "restore"}, NEW to \in Images,
         NEW bak \in Backup, NEW p \in {pending, app.img}, NEW back \in {pending, None},
         NEW seen \in {mishaps, mishaps \union {"race"}},
         IInv, FilesAgree, Serving, Spawn(op, to, bak, p, back, seen),
         lock = "none" \/ "race" \in seen,
         UNCHANGED <<app, old, deploy>>
  PROVE  FilesAgree'
<1> USE DEF IInv
<1>1. seen \subseteq mishaps'
  BY DEF Spawn, Started, NotStarted
<1>2. mishaps \subseteq mishaps'
  BY <1>1
<1> SUFFICES ASSUME ~Lost', ~Excused' PROVE FilesAgree'
  BY DEF FilesAgree
<1>3. ~Lost /\ ~Excused
  BY <1>2 DEF Lost, Excused, Apart
<1>4. CASE Started(op, to, bak, p, seen)
  <2> DEFINE new == [pc |-> "begin", op |-> op, to |-> to, bak |-> bak]
  <2>1. PICK g \in Helpers : ~Busy(g) /\ helper' = [helper EXCEPT ![g] = new]
    BY <1>4 DEF Started, Live, Busy
  <2>2. helper'[g] = new /\ \A h \in Helpers \ {g} : helper'[h] = helper[h]
    BY <2>1 DEF TypeOK
  <2>3. \A h \in Helpers : ~Busy(h)
    BY <1>4 DEF Started, Lost, Live, Busy
  <2>4. Agrees(app.img)
    BY <1>3, <2>3 DEF FilesAgree
  <2>5. Agrees(app.img)'
    BY <1>4, <2>4 DEF Started, Agrees
  <2>6. \A h \in Helpers : Busy(h)' => h = g
    BY <2>2, <2>3 DEF Busy
  <2>7. Kept(g)' /\ Busy(g)'
    BY <2>2, <2>5 DEF Kept, Busy
  <2> QED BY <2>6, <2>7 DEF FilesAgree
<1>5. CASE NotStarted(p, back, seen)
  <2>1. /\ helper' = helper /\ mishaps' = seen
        /\ pending' \in {pending, app.img, None}
    BY <1>5 DEF NotStarted
  <2>2. \A v : Agrees(v) /\ v = app.img => Agrees(v)'
    BY <2>1 DEF Agrees
  <2>3. ASSUME NEW h \in Helpers, Busy(h) PROVE Kept(h)'
    <3>1. Kept(h) /\ Placed(h)
      BY <1>3, <2>3 DEF FilesAgree, Placement, Lost
    <3>2. ~Apart'
      BY <1>2, <2>1, <2>3, Unlocked DEF Apart
    <3>3. helper[h].pc # "recreate"
      BY <3>1 DEF Placed, Serving, Gone
    <3>4. \A v : Nearly(v) => Nearly(v)'
      BY <3>2 DEF Nearly
    <3> QED BY <2>1, <2>2, <3>1, <3>2, <3>3, <3>4 DEF Kept, Updates
  <2>4. (\A h \in Helpers : ~Busy(h)) => Agrees(app.img)'
    BY <1>3, <2>2 DEF FilesAgree
  <2> QED BY <2>1, <2>3, <2>4 DEF FilesAgree, Busy
<1> QED BY <1>4, <1>5 DEF Spawn

LEMMA RequestsAgree == ASSUME IInv, FilesAgree, Requests PROVE FilesAgree'
<1> USE DEF IInv
<1>1. ASSUME NEW c \in Clients, ApplyRequest(c) PROVE FilesAgree'
  <2>1. Serving /\ lock = "none" /\ UNCHANGED <<app, old, helper, mishaps, pending, deploy>>
    BY <1>1 DEF ApplyRequest, Keeps, disk, files
  <2>2. Apart' => \A h \in Helpers : ~Busy(h)
    BY <2>1, Unlocked DEF Apart
  <2> QED BY <2>1, <2>2, AgreementStays
<1>2. ASSUME NEW c \in Clients, ApplyRefused(c) PROVE FilesAgree'
  <2>1. /\ UNCHANGED <<app, old, helper, mishaps, pending, deploy>>
        /\ req[c] = "fetch"
    BY <1>2 DEF ApplyRefused, Keeps, disk, files
  <2>2. req # NoRequests
    BY <2>1 DEF NoRequests
  <2>3. \A v : (Agrees(v) => Agrees(v)') /\ (Nearly(v) => Nearly(v)')
    BY <2>1 DEF Agrees, Nearly, Apart
  <2>4. ASSUME NEW h \in Helpers, Kept(h) PROVE Kept(h)'
    BY <2>1, <2>2, <2>3, <2>4 DEF Kept, Updates, Apart
  <2> QED BY <2>1, <2>3, <2>4 DEF FilesAgree, Busy, Lost, Excused, Apart
<1>3. ASSUME NEW c \in Clients, NEW to \in Images, Apply(c, to)
      PROVE  FilesAgree'
  <2> DEFINE seen == IF lock = "none" THEN mishaps ELSE mishaps \union {"race"}
  <2>1. Serving /\ UNCHANGED <<app, old, deploy>>
    BY <1>3 DEF Apply, ReqServed
  <2>2. Spawn("update", to, NoBackup, app.img, None, seen)
    BY <1>3 DEF Apply
  <2>3. /\ seen \in {mishaps, mishaps \union {"race"}}
        /\ lock = "none" \/ "race" \in seen
    OBVIOUS
  <2> HIDE DEF seen
  <2> QED BY <2>1, <2>2, <2>3, SpawnAgrees, NoBackupType
<1>4. ASSUME NEW i \in DOMAIN backups, Restore(backups[i])
      PROVE  FilesAgree'
  <2>1. Serving /\ lock = "none" /\ UNCHANGED <<app, old, deploy>>
    BY <1>4 DEF Restore
  <2>2. Exists(app)
    BY <2>1 DEF Proper, Serving, Gone, Exists
  <2>3. RestoreImage \in Images /\ backups[i] \in Backup
    BY <2>2, RestoreImageType DEF TypeOK
  <2>4. Spawn("restore", RestoreImage, backups[i], pending, pending, mishaps)
    BY <1>4 DEF Restore
  <2> QED BY <2>1, <2>3, <2>4, SpawnAgrees
<1>5. CASE ClearStaleLock \/ RestartService
  <2>1. /\ UNCHANGED <<app, old, helper, pending, deploy>>
        /\ mishaps \subseteq mishaps'
        /\ req' = req \/ req' = NoRequests
    BY <1>5 DEF ClearStaleLock, RestartService, Mishap, Keeps, disk, files
  <2> QED BY <2>1, AgreementStays
<1>6. CASE RecreateService
  BY <1>6 DEF RecreateService, Mishap, FilesAgree, Lost
<1> QED BY <1>1, <1>2, <1>3, <1>4, <1>5, <1>6 DEF Requests

(* A helper may die; before it cleans up a failure that leaves a mishap.   *)
LEMMA KillAgrees ==
  ASSUME NEW h \in Helpers, IInv, FilesAgree, Kill(h)
  PROVE  FilesAgree'
<1> USE DEF IInv
<1> SUFFICES ASSUME ~Lost', ~Excused' PROVE FilesAgree'
  BY DEF FilesAgree
<1>1. /\ UNCHANGED <<app, pending, deploy>> /\ Busy(h) /\ ~Busy(h)'
      /\ \A g \in Helpers \ {h} : helper'[g] = helper[g]
  BY EndsThere DEF Kill, Ends, Live, Busy, disk, files, TypeOK
<1>2. CASE Midway(h)
  BY <1>2 DEF Kill, Mishap, Midway, At, Lost
<1>3. CASE ~Midway(h)
  <2>1. /\ mishaps' \in {mishaps, mishaps \union {"unclean"}}
        /\ helper[h].pc \in {"fail", "giveup"} => "unclean" \in mishaps'
    BY <1>3 DEF Kill, Mishap, Midway, At
  <2>2. ~Lost /\ ~Excused
    BY <2>1 DEF Lost, Excused, Apart
  <2>3. \A g \in Helpers \ {h} : ~Busy(g)
    BY <1>1, <2>2 DEF Sole, Lost
  <2>4. Kept(h) /\ helper[h].pc \in Steps /\ helper[h].op \in {"update", "restore"}
    BY <1>1, <2>2 DEF FilesAgree, TypeOK, Job, Busy
  <2>5. ASSUME helper[h].pc \in {"fail", "giveup"} PROVE Agrees(app.img)
    <3>1. Apart
      BY <2>1, <2>5 DEF Excused, Apart
    <3> QED BY <2>4, <2>5, <3>1 DEF Kept, Nearly, Agrees
  <2>6. ASSUME helper[h].pc \notin {"fail", "giveup"} PROVE Agrees(app.img)
    BY <1>3, <2>4, <2>6 DEF Kept, Midway, At, Updates, Steps
  <2>7. Agrees(app.img)'
    BY <1>1, <2>5, <2>6 DEF Agrees
  <2> QED BY <1>1, <2>3, <2>7 DEF FilesAgree, Busy
<1> QED BY <1>2, <1>3

(* Whatever fails, and however many helpers are spawned or die: a restore  *)
(* would start the version in force whenever no helper is at work, but for *)
(* the one mishap that the property names.                                 *)
THEOREM RestoresTheVersionInForce == Spec => []RestoreKeepsVersion
<1>1. Init => FilesAgree
  BY DEF Init, FilesAgree, Busy, Idle, Agrees
<1>2. IInv /\ FilesAgree /\ [Next]_vars => FilesAgree'
  <2> SUFFICES ASSUME IInv, FilesAgree, [Next]_vars PROVE FilesAgree'
    OBVIOUS
  <2>1. CASE TimePasses \/ UNCHANGED vars
    <3>1. UNCHANGED <<app, old, helper, pending, deploy, mishaps, req>>
      BY <2>1 DEF TimePasses, vars
    <3> QED BY <3>1, AgreementStays
  <2> QED BY <2>1, HelperAgrees, RequestsAgree, KillAgrees DEF Next
<1>3. IInv /\ FilesAgree => RestoreKeepsVersion
  BY DEF FilesAgree, Excused, Apart, Agrees, RestoreKeepsVersion, RestoreImage, Live, Busy
<1> QED BY <1>1, <1>2, <1>3, Invariance, PTL DEF Spec

-----------------------------------------------------------------------------
(* What an installation promises (Deployment), step by step.               *)

(* The phase and version a state shows ... *)
LEMMA PhaseNow ==
  /\ Lost => Phase = "lost" /\ Version = None
  /\ ~Lost /\ Restoring => Phase = "replacing" /\ Version = None
  /\ ~Lost /\ ~Restoring /\ Exists(old) =>
       /\ Phase = IF Exists(app) THEN "trial" ELSE "offline"
       /\ Version = old.img
  /\ ~Lost /\ ~Restoring /\ ~Exists(old) =>
       /\ Phase = IF Serving THEN "serving" ELSE "offline"
       /\ Version = app.img
  BY DEF Phase, Version

(* ... and the next one. *)
LEMMA PhaseNext ==
  /\ Lost' => Phase' = "lost" /\ Version' = None
  /\ ~Lost' /\ Restoring' => Phase' = "replacing" /\ Version' = None
  /\ ~Lost' /\ ~Restoring' /\ Exists(old)' =>
       /\ Phase' = IF Exists(app)' THEN "trial" ELSE "offline"
       /\ Version' = old'.img
  /\ ~Lost' /\ ~Restoring' /\ ~Exists(old)' =>
       /\ Phase' = IF Serving' THEN "serving" ELSE "offline"
       /\ Version' = app'.img
  BY DEF Phase, Version

(* Containers, and whether a restore is replacing them, are all that shows. *)
LEMMA Shown ==
  ASSUME UNCHANGED <<app, old>>, Lost' <=> Lost, Restoring' <=> Restoring
  PROVE  UNCHANGED <<Phase, Version>>
  BY PhaseNow, PhaseNext DEF Exists, Serving

LEMMA InstallStart == ASSUME Init PROVE Install!Init
<1>1. ~Lost /\ ~Restoring
  BY DEF Init, Lost, Restoring, Replaces, Idle
<1>2. Serving /\ app.img \in Images /\ ~Exists(old)
  BY DEF Init, Serving, Exists, Gone
<1>3. QED BY <1>1, <1>2, PhaseNow DEF Install!Init

(* A step of a lone helper: the phases it goes through. *)
LEMMA HelperInstalls ==
  ASSUME NEW h \in Helpers, IInv, HelperStep(h), ~Lost, ~Lost'
  PROVE  Install!Next \/ UNCHANGED <<Phase, Version>>
<1> USE DEF IInv
<1>1. Placed(h) /\ helper[h].op \in {"update", "restore"}
  BY HelperMoves DEF Placement, Lost, TypeOK, Job
<1>2. /\ Restoring <=> Replaces(h)
      /\ Restoring' <=> Replaces(h)'
  <2>1. \A g \in Helpers \ {h} : ~Busy(g) /\ ~Busy(g)'
    BY HelperSole DEF Lost
  <2>2. QED BY <2>1 DEF Restoring, Replaces, Busy
<1>3. mishaps' = mishaps /\ "restore" \notin mishaps
  BY HelperMoves DEF Lost
<1>n. Gone.img = None /\ ~Gone.up /\ ~Gone.ok
  BY DEF Gone
<1>e. /\ Exists(app) <=> app # Gone
      /\ Exists(old) <=> old # Gone
  BY <1>n DEF Proper, Exists
<1>i. Busy(h)' => helper'[h].op = helper[h].op
  <2>1. helper'[h] = Idle => ~Busy(h)'
    BY DEF Idle, Busy
  <2>2. ASSUME NEW p \in Steps, helper'[h] = [helper[h] EXCEPT !.pc = p]
        PROVE  helper'[h].op = helper[h].op
    BY <2>2 DEF TypeOK, Job
  <2>3. QED BY <2>1, <2>2, HelperMoves
<1> USE DEF Placed, Updates, Aside, OnDuty, Stopped, Serving, At, Steps
<1>4. CASE Begin(h) \/ DoBackup(h) \/ DoPull(h) \/ FindBackup(h)
           \/ Finish(h) \/ Fail(h) \/ GiveUp(h)
  <2>1. UNCHANGED <<app, old>>
    BY <1>1, <1>4 DEF Begin, DoBackup, DoPull, FindBackup, Finish, Fail, GiveUp
  <2>2. ~Replaces(h)
    BY <1>1, <1>4 DEF Begin, DoBackup, DoPull, FindBackup, Finish, Fail, GiveUp,
                      Replaces
  <2>3. Busy(h)' => helper'[h].pc \in {"backup", "check", "pull", "fail", "stop",
                                       "halt", "giveup"}
    BY <1>4, GoesOn, EndsThere
       DEF Begin, DoBackup, DoPull, FindBackup, Finish, Fail, GiveUp
  <2>4. Busy(h)' /\ helper'[h].pc = "stop" => Updates(h)
    BY <1>1, <1>4, GoesOn, EndsThere
       DEF Begin, DoBackup, DoPull, FindBackup, Finish, Fail, GiveUp
  <2>5. ~Replaces(h)'
    BY <1>i, <2>3, <2>4 DEF Replaces, Busy
  <2>6. QED BY <1>2, <1>3, <2>1, <2>2, <2>5, Shown DEF Lost
<1>5. CASE helper[h].op = "restore"
           /\ helper[h].pc \in {"move", "clear", "extract", "discard", "stop",
                                "rename", "recreate", "verify"}
  <2>1. Replaces(h)
    BY <1>5 DEF Replaces
  <2>2. Busy(h)' /\ helper'[h].pc \in {"clear", "extract", "discard", "stop",
                                       "recreate", "verify", "accept"}
    <3>1. ~SwapFails(h)
      BY <1>3, <1>5 DEF SwapFails, Mishap
    <3>2. CASE Rename(h)
      <4>1. Stopped /\ helper[h].pc = "move"
        BY <1>1, <1>5, <3>2 DEF Rename
      <4>2. Exists(app) /\ ~Exists(old)
        BY <1>n, <4>1 DEF Proper, Exists
      <4>3. QED BY <3>2, <4>1, <4>2, GoesOn DEF Rename, Busy
    <3>3. CASE Stop(h)
      <4>1. app = Gone /\ helper[h].pc = "stop"
        BY <1>1, <1>5, <3>3 DEF Stop
      <4>2. QED BY <1>e, <3>3, <4>1, GoesOn DEF Stop, Busy
    <3>4. CASE Recreate(h)
      BY <3>1, <3>4, GoesOn DEF Recreate, Busy
    <3>5. CASE Verify(h)
      BY <3>1, <3>5, GoesOn DEF Verify, Busy
    <3>6. CASE Clear(h)
      <4>1. Go(h, "extract")
        BY <1>3, <3>6 DEF Clear, Mishap
      <4>2. QED BY <4>1, GoesOn DEF Busy
    <3>7. CASE Extract(h)
      <4>1. Go(h, "discard")
        BY <1>3, <3>7 DEF Extract, Mishap
      <4>2. QED BY <4>1, GoesOn DEF Busy
    <3>8. CASE Discard(h)
      BY <3>8, GoesOn DEF Discard, Busy
    <3>9. QED
      BY <1>5, <3>2, <3>3, <3>4, <3>5, <3>6, <3>7, <3>8 DEF HelperStep, Begin,
         DoBackup, DoPull, FindBackup, Accept, Finish, Remove, RenameBack,
         Resume, Fail, GiveUp
  <2>3. Replaces(h)'
    BY <1>5, <1>i, <2>2 DEF Replaces
  <2>4. QED BY <1>2, <2>1, <2>3, PhaseNow, PhaseNext
<1>6. CASE Stop(h) /\ helper[h].pc = "halt"
  <2>1. ~Updates(h) /\ OnDuty /\ Exists(app)
    BY <1>1, <1>6, <1>n, <1>e
  <2>2. helper'[h].pc = "move" /\ helper'[h].op = helper[h].op
    BY <1>6, <2>1, GoesOn DEF Stop
  <2>3. ~Replaces(h) /\ Replaces(h)'
    BY <1>1, <1>6, <2>1, <2>2 DEF Replaces
  <2>4. Install!Replace
    BY <1>2, <1>e, <2>1, <2>3, PhaseNow, PhaseNext DEF Install!Replace
  <2>5. QED BY <2>4 DEF Install!Next
<1>7. CASE Stop(h) /\ helper[h].pc = "stop" /\ Updates(h)
  <2>1. OnDuty /\ Exists(app) /\ ~Replaces(h)
    BY <1>1, <1>7, <1>n, <1>e DEF Replaces
  <2>2. /\ helper'[h].pc = "rename" /\ helper'[h].op = helper[h].op
        /\ app' = [app EXCEPT !.up = FALSE] /\ old' = Gone
    BY <1>7, <2>1, GoesOn DEF Stop
  <2>3. app'.img = app.img /\ ~app'.up /\ ~Replaces(h)'
    BY <1>7, <2>2 DEF TypeOK, Container, Replaces
  <2>4. Install!GoOffline
    BY <1>2, <1>n, <1>e, <2>1, <2>2, <2>3, PhaseNow, PhaseNext
       DEF Install!GoOffline, Exists
  <2>5. QED BY <2>4 DEF Install!Next
<1>8. CASE Rename(h) /\ Updates(h)
  <2>1. helper[h].pc = "rename" /\ Stopped
    BY <1>1, <1>8 DEF Rename
  <2>2. Exists(app) /\ ~Exists(old) /\ ~Replaces(h)
    BY <1>8, <1>n, <1>e, <2>1 DEF Replaces
  <2>3. /\ app' = Gone /\ old' = app /\ helper'[h].op = helper[h].op
        /\ helper'[h].pc = "recreate"
    BY <1>8, <2>1, <2>2, GoesOn DEF Rename
  <2>4. ~Replaces(h)'
    BY <1>8, <2>3 DEF Replaces
  <2>5. QED
    BY <1>2, <1>n, <1>e, <2>1, <2>2, <2>3, <2>4, PhaseNow, PhaseNext DEF Exists
<1>9. CASE Recreate(h) /\ Updates(h)
  <2>1. app = Gone /\ Exists(old) /\ old' = old /\ ~Replaces(h)
    BY <1>1, <1>9, <1>n, <1>e DEF Recreate, Replaces
  <2>2. helper'[h].op = helper[h].op
    BY <1>9, GoesOn DEF Recreate, SwapFails
  <2>3. ~Replaces(h)'
    BY <1>9, <2>2 DEF Replaces
  <2>4. Phase = "offline" /\ Version = old.img
        /\ Phase' \in {"trial", "offline"} /\ Version' = old.img
    BY <1>2, <1>e, <2>1, <2>3, PhaseNow, PhaseNext DEF Exists
  <2>5. QED BY <2>4 DEF Install!Next, Install!Try
<1>10. CASE Verify(h) /\ Updates(h)
  <2>1. UNCHANGED <<app, old>> /\ ~Replaces(h)
    BY <1>10 DEF Verify, Replaces
  <2>2. helper'[h].op = helper[h].op
    BY <1>10, GoesOn DEF Verify, SwapFails
  <2>3. ~Replaces(h)'
    BY <1>10, <2>2 DEF Replaces
  <2>4. QED BY <1>2, <1>3, <2>1, <2>3, Shown DEF Lost
<1>11. CASE Accept(h)
  <2>1. /\ Serving /\ Aside(h) /\ Exists(app) /\ app' = app /\ old' = Gone
        /\ app.img \in Images
    BY <1>1, <1>11, <1>n, <1>e DEF Accept, TypeOK, Container, Image, Exists
  <2>2. helper'[h].pc = "finish"
    BY <1>11, GoesOn DEF Accept
  <2>3. ~Replaces(h)' /\ ~Exists(old)'
    BY <1>n, <2>1, <2>2 DEF Replaces, Exists
  <2>4. Phase' = "serving" /\ Version' = app.img
    BY <1>2, <2>1, <2>3, PhaseNext
  <2>5. CASE Updates(h)
    <3>1. Exists(old) /\ ~Replaces(h)
      BY <1>n, <2>1, <2>5 DEF Exists, Proper, Replaces
    <3>2. Phase = "trial"
      BY <1>2, <2>1, <3>1, PhaseNow
    <3>3. QED BY <2>1, <2>4, <3>2 DEF Install!Next, Install!Accept
  <2>6. CASE ~Updates(h)
    <3>1. Replaces(h)
      BY <1>1, <1>11, <2>6 DEF Replaces, Accept
    <3>2. Phase = "replacing"
      BY <1>2, <3>1, PhaseNow
    <3>3. QED BY <2>1, <2>4, <3>2 DEF Install!Next, Install!Replaced
  <2>7. QED BY <2>5, <2>6
<1>12. CASE Remove(h)
  <2>1. Updates(h) /\ Exists(old) /\ ~Replaces(h)
    BY <1>1, <1>3, <1>12, <1>n, <1>e DEF Remove, Replaces
  <2>2. /\ app' = Gone /\ old' = old /\ helper'[h].op = helper[h].op
        /\ helper'[h].pc = "back"
    BY <1>12, <2>1, GoesOn DEF Remove
  <2>3. ~Replaces(h)' /\ ~Exists(app)' /\ Exists(old)'
    BY <1>n, <2>1, <2>2 DEF Replaces, Exists
  <2>4. Phase' = "offline" /\ Version' = old.img
    BY <1>2, <2>2, <2>3, PhaseNext
  <2>5. Phase \in {"trial", "offline"} /\ Version = old.img
    BY <1>2, <2>1, PhaseNow
  <2>6. QED BY <2>4, <2>5 DEF Install!Next, Install!Reject
<1>13. CASE RenameBack(h)
  <2>1. Updates(h) /\ app = Gone /\ Exists(old) /\ ~Exists(app) /\ ~Replaces(h)
        /\ ~old.up
    BY <1>1, <1>13, <1>n, <1>e DEF RenameBack, Replaces
  <2>2. app' = old /\ old' = Gone /\ helper'[h].pc = "resume"
    BY <1>13, <2>1, GoesOn DEF RenameBack
  <2>3. ~Replaces(h)' /\ ~Exists(old)'
    BY <1>n, <2>2 DEF Replaces, Exists
  <2>4. Phase' = "offline" /\ Version' = old.img
    BY <1>2, <2>1, <2>2, <2>3, PhaseNext
  <2>5. QED BY <1>2, <2>1, <2>4, PhaseNow
<1>14. CASE Resume(h)
  <2>1. Stopped /\ ~Replaces(h) /\ Exists(app) /\ ~Exists(old)
    BY <1>1, <1>14, <1>n, <1>e DEF Resume, Replaces
  <2>2. app' = [app EXCEPT !.up = TRUE] /\ old' = old
        /\ helper'[h].pc = "fail"
    BY <1>14, <2>1, GoesOn DEF Resume
  <2>3. app'.img = app.img /\ app'.up /\ app'.ok /\ ~Replaces(h)'
    BY <2>1, <2>2 DEF TypeOK, Container, Replaces
  <2>4. Phase' = "serving" /\ Version' = app.img
    BY <1>2, <2>1, <2>2, <2>3, PhaseNext DEF Exists
  <2>5. Phase = "offline" /\ Version = app.img
    BY <1>2, <2>1, PhaseNow
  <2>6. QED BY <2>4, <2>5 DEF Install!Next, Install!Resume
<1>15. QED
  BY <1>1, <1>4, <1>5, <1>6, <1>7, <1>8, <1>9, <1>10, <1>11, <1>12, <1>13,
     <1>14 DEF HelperStep, Clear, Extract, Discard, Stop, Rename, Recreate,
               Verify

(* Requests show nothing, unless what they start is lost. *)
LEMMA RequestInstalls ==
  ASSUME IInv, Requests, ~Lost, ~Lost' PROVE UNCHANGED <<Phase, Version>>
<1>1. UNCHANGED <<app, old>>
  BY DEF Requests, ApplyRequest, ApplyRefused, Apply, Restore, ClearStaleLock,
         RestartService, RecreateService, Mishap, Lost
<1>2. CASE UNCHANGED helper
  BY <1>1, <1>2, Shown DEF Restoring, Replaces
<1>3. CASE \E op, to, bak, p, seen : Started(op, to, bak, p, seen)
  <2>1. PICK op, to, bak, p, seen : Started(op, to, bak, p, seen)
    BY <1>3
  <2> DEFINE new == [pc |-> "begin", op |-> op, to |-> to, bak |-> bak]
  <2>2. PICK g \in Helpers : helper' = [helper EXCEPT ![g] = new]
    BY <2>1 DEF Started, Live
  <2>3. \A h \in Helpers : ~Busy(h)
    BY <2>1 DEF Started, Live, Busy, Lost
  <2>4. ~Restoring
    BY <2>3 DEF Restoring, Replaces, Busy
  <2>5. \A h \in Helpers : helper'[h].pc \in {"none", "begin"}
    BY <2>2, <2>3 DEF IInv, TypeOK, Busy
  <2>6. ~Restoring'
    BY <2>5 DEF Restoring, Replaces
  <2>7. QED BY <1>1, <2>4, <2>6, Shown
<1>4. QED
  BY <1>2, <1>3 DEF Requests, ApplyRequest, ApplyRefused, Apply, Restore,
     ClearStaleLock, RestartService, RecreateService, Spawn, NotStarted

(* A helper that dies with nothing lost had nothing in hand. *)
LEMMA KillInstalls ==
  ASSUME NEW h \in Helpers, IInv, Kill(h), ~Lost, ~Lost'
  PROVE  UNCHANGED <<Phase, Version>>
<1>1. ~Midway(h) /\ UNCHANGED <<app, old>> /\ ~Busy(h)'
  BY EndsThere DEF Kill, Mishap, Midway, At, Lost, IInv
<1>2. \A g \in Helpers \ {h} : helper'[g] = helper[g]
  BY DEF Kill, Ends, IInv, TypeOK
<1>3. ~Replaces(h) /\ ~Replaces(h)'
  BY <1>1 DEF Midway, Replaces, At, Busy
<1>4. Restoring <=> Restoring'
  BY <1>2, <1>3 DEF Restoring, Replaces
<1>5. QED BY <1>1, <1>4, Shown

(* Whatever fails, an installation does what it promises: the version in   *)
(* force changes only to a container that serves, and the one before it is *)
(* kept until then and comes back.                                         *)
THEOREM Implements == Spec => InstallsOrRollsBack
<1>1. IInv /\ IInv' /\ [Next]_vars => [Install!Next]_(Install!vars)
  <2> SUFFICES ASSUME IInv, [Next]_vars
               PROVE  Install!Next \/ UNCHANGED <<Phase, Version>>
    BY DEF Install!vars
  <2>1. CASE Lost'
    BY <2>1, PhaseNow, PhaseNext DEF Install!Next, Install!Lose, Phase
  <2>2. CASE ~Lost'
    <3>1. CASE UNCHANGED vars
      BY <3>1, Shown DEF vars, Lost, Restoring, Replaces
    <3>2. CASE TimePasses
      BY <3>2, Shown DEF TimePasses, Lost, Restoring, Replaces
    <3>3. ~Lost \/ UNCHANGED vars
      BY <2>2, HelperMoves DEF Lost, IInv, Next, Requests, ApplyRequest,
         ApplyRefused, Apply, Restore, ClearStaleLock, RestartService,
         RecreateService, Spawn, Started, NotStarted, Kill, TimePasses, Keeps,
         Mishap
    <3>4. QED
      BY <2>2, <3>1, <3>2, <3>3, HelperInstalls, RequestInstalls, KillInstalls
         DEF Next
  <2>3. QED BY <2>1, <2>2
<1>2. QED
  BY <1>1, InstallStart, Invariance, PTL DEF Spec, InstallsOrRollsBack,
     Install!Spec
=============================================================================
