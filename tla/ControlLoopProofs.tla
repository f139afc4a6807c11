-------------------------- MODULE ControlLoopProofs ---------------------------
(***************************************************************************)
(* Theorems about ControlLoop, for any number of requests and streams, any *)
(* override bodies and configurations.                                     *)
(***************************************************************************)
EXTENDS ControlLoop, FiniteSetTheorems, TLAPS

(* A step of the specification, action by action. *)
LEMMA NextSplit ==
  ASSUME Next
  PROVE  \/ \E s \in Streams : Boot(s) \/ GridChange(s)
         \/ Tick \/ Shutdown \/ Exit \/ Crash
         \/ \E c \in Clients, ov \in Overrides : Request(c, ov)
         \/ \E c \in Clients : Kill(c) \/ Clear(c) \/ Credentials(c)
         \/ \E c \in Clients, what \in Requests : Ask(c, what)
         \/ \E t \in Tasks : StartCycle(t)
         \/ \E c \in Clients : Reload(c) \/ Reset(c) \/ KillBegins(c)
         \/ \E c \in Clients : KillEnds(c) \/ KillFails(c) \/ Answer(c)
         \/ ShutdownBegins \/ ShutdownEnds
         \/ \E t \in Tasks : Refresh(t) \/ NewToken(t)
         \/ \E t \in Tasks, s \in Streams : NewStream(t, s)
         \/ \E t \in Tasks : Decide(t)
         \/ \E t \in Tasks : WriteGrid(t) \/ Snapshot(t) \/ WriteShed(t)
         \/ \E t \in Tasks : Finish(t) \/ FinishFails(t)
         \/ \E t \in Tasks : WriteMax(t) \/ BringBack(t)
  BY DEF Next, Step, Acquire, Fails, Arrive

LEMMA Names ==
  /\ Clients \subseteq Tasks /\ Streams \subseteq Tasks
  /\ "tick" \in Tasks /\ "main" \in Tasks /\ Nobody \notin Tasks
  /\ "main" \notin Streams /\ "main" \notin Clients
  BY NamesAssumption DEF Tasks

(* The beginning of a shutdown cancels tasks and moves none but its own.   *)
LEMMA ShutdownMoves ==
  ASSUME TypeOK, Shutdown
  PROVE  /\ phase = "up" /\ \A c \in Clients : pc[c] = "idle"
         /\ \/ phase' = "closing" /\ need' = {}
            \/ phase' = "stopping" /\ need' # {} /\ pc'["main"] = "wait"
         /\ job' = [job EXCEPT !["main"] = "stop"]
         /\ \A t \in Tasks : \/ pc'[t] = pc[t] \/ pc'[t] = "idle"
                             \/ t = "main" /\ pc'[t] = "wait" /\ phase' = "stopping"
         /\ pc'["tick"] \in {"idle", "rewire"}
         /\ holder' = holder \/ (holder' = Nobody /\ holder \in Tasks \ {"main"}
                                    /\ pc'[holder] = "idle")
         /\ UNCHANGED <<cfg, flags, file, plan, prev, history, tangles>>
<1> USE Names, NamesAssumption DEF TypeOK
<1>1. PICK gone \in SUBSET {"tick"} :
         /\ gone # {} \/ pc["tick"] = "rewire"
         /\ IF need' = {} THEN CloseNow(gone) ELSE AskForLock(gone)
  BY DEF Shutdown
<1>2. CASE need' = {}
  <2> DEFINE cut == (gone \union {current}) \intersect Tasks
  <2>1. /\ phase' = "closing" /\ pc' = [t \in Tasks |-> IF t \in cut THEN "idle" ELSE pc[t]]
        /\ holder' = IF holder \in cut THEN Nobody ELSE holder
    BY <1>1, <1>2, Zenon DEF CloseNow, Interrupt, Without
  <2>2. "main" \notin cut /\ cut \subseteq Tasks /\ ("tick" \in cut \/ pc["tick"] = "rewire")
    BY <1>1
  <2> HIDE DEF cut
  <2>3. /\ pc'["main"] = pc["main"] /\ pc'["tick"] \in {"idle", "rewire"}
        /\ \A t \in Tasks : pc'[t] = pc[t] \/ pc'[t] = "idle"
    BY <2>1, <2>2
  <2>4. holder' = holder \/ (holder' = Nobody /\ holder \in cut /\ pc'[holder] = "idle")
    BY <2>1, <2>2
  <2>5. /\ phase = "up" /\ \A c \in Clients : pc[c] = "idle"
        /\ job' = [job EXCEPT !["main"] = "stop"]
        /\ UNCHANGED <<cfg, flags, file, plan, prev, history, tangles>>
    BY DEF Shutdown
  <2> HIDE DEF TypeOK
  <2>6. QED BY <1>2, <2>1, <2>2, <2>3, <2>4, <2>5
<1>3. CASE need' # {}
  <2>1. /\ phase' = "stopping"
        /\ pc' = [t \in Tasks |-> IF t = "main" THEN "wait"
                                  ELSE IF t \in gone THEN "idle" ELSE pc[t]]
        /\ holder' = IF holder \in gone THEN Nobody ELSE holder
    BY <1>1, <1>3, Zenon DEF AskForLock, Interrupt, Without
  <2>2. gone \subseteq Tasks \ {"main"} /\ ("tick" \in gone \/ pc["tick"] = "rewire")
    BY <1>1
  <2>3. /\ pc'["main"] = "wait" /\ pc'["tick"] \in {"idle", "rewire"}
        /\ \A t \in Tasks \ {"main"} : pc'[t] = pc[t] \/ pc'[t] = "idle"
    BY <2>1, <2>2
  <2>4. holder' = holder \/ (holder' = Nobody /\ holder \in gone /\ pc'[holder] = "idle")
    BY <2>1, <2>2
  <2>5. /\ phase = "up" /\ \A c \in Clients : pc[c] = "idle"
        /\ job' = [job EXCEPT !["main"] = "stop"]
        /\ UNCHANGED <<cfg, flags, file, plan, prev, history, tangles>>
    BY DEF Shutdown
  <2> HIDE DEF TypeOK
  <2>6. QED BY <1>3, <2>1, <2>2, <2>3, <2>4, <2>5
<1>4. QED BY <1>2, <1>3

(* Every variable keeps its type. *)
THEOREM TypeCorrect == Spec => []TypeOK
<1>1. Init => TypeOK
  <2> SUFFICES ASSUME Init PROVE TypeOK
    OBVIOUS
  <2>1. lifted \in BOOLEAN /\ tangles \in Nat
    BY DEF Init
  <2>2. flags \in Flags /\ file \in Flags /\ plan \in Plan /\ prev \in BOOLEAN
    BY DEF Init, Fresh, Flags, Idle, Plan
  <2>3. QED
    BY <2>1, <2>2, InputsAssumption, Names
       DEF Init, TypeOK, PC, Body, Jobs, Features, Subsystems
<1>2. TypeOK /\ [Next]_vars => TypeOK'
  <2> SUFFICES ASSUME TypeOK, [Next]_vars PROVE TypeOK'
    OBVIOUS
  <2> USE Names, InputsAssumption
      DEF TypeOK, world, task, streams, history, Flags, Plan, PC, Body, Jobs
  <2>1. ASSUME NEW s \in Streams, Boot(s) \/ GridChange(s) PROVE TypeOK'
    <3>1. CASE Boot(s)
      <4>1. pc' \in [Tasks -> PC] /\ job' \in [Tasks -> Jobs]
        BY <3>1 DEF Boot, Start
      <4>2. phase' \in {"boot", "up"}
        BY <3>1 DEF Boot
      <4>3. lifted' \in BOOLEAN /\ tangles' \in Nat
        BY <3>1 DEF Boot, StillLifted
      <4>4. /\ flags' = file /\ alive' = {s} /\ current' = s
            /\ UNCHANGED <<cfg, file, world, holder, plan, prev, need, asked, promised>>
        BY <3>1 DEF Boot
      <4>5. QED BY <4>1, <4>2, <4>3, <4>4
    <3>2. CASE GridChange(s)
      BY <3>2 DEF GridChange, Start
    <3>3. QED BY <2>1, <3>1, <3>2
  <2>2. CASE Tick
    BY <2>2 DEF Tick, Start
  <2>3. CASE Shutdown
    <3>1. PICK gone \in SUBSET {"tick"} : CloseNow(gone) \/ AskForLock(gone)
      BY <2>3 DEF Shutdown
    <3>2. /\ phase' \in {"closing", "stopping"}
          /\ alive' \in SUBSET Streams /\ current' \in Streams \union {Nobody}
          /\ holder' \in Tasks \union {Nobody}
          /\ house' \in {"on", "captured", "off"} /\ grid' \in {"plan", "max"}
          /\ pc' \in [Tasks -> PC]
      <4>1. CASE CloseNow(gone)
        BY <4>1 DEF CloseNow, Interrupt, Without
      <4>2. CASE AskForLock(gone)
        BY <4>2 DEF AskForLock, Interrupt, Without
      <4>3. QED BY <3>1, <4>1, <4>2
    <3>3. /\ need' \in SUBSET {"bring", "max"} /\ job' \in [Tasks -> Jobs]
          /\ UNCHANGED <<cfg, flags, file, plan, prev, tangles, history>>
      BY <2>3 DEF Shutdown
    <3>4. QED BY <3>2, <3>3
  <2>4. CASE Exit \/ Crash
    <3>1. AllIdle /\ UNCHANGED <<cfg, flags, file, world, promised>>
          /\ phase' \in {"down", "dead"}
      BY <2>4 DEF Exit, Crash
    <3>2. pc' \in [Tasks -> PC] /\ job' \in [Tasks -> Jobs]
      BY <3>1 DEF AllIdle
    <3>3. plan' \in Plan
      BY <3>1 DEF AllIdle, Idle
    <3>4. asked' \in [Clients -> SUBSET Promises]
      BY <3>1 DEF AllIdle
    <3>5. UNCHANGED <<tangles, lifted>>
      BY <2>4 DEF Exit, Crash
    <3>6. /\ holder' = Nobody /\ prev' = TRUE /\ need' = {} /\ alive' = {}
          /\ current' = Nobody
      BY <3>1 DEF AllIdle
    <3>7. /\ cfg' \in SUBSET Features /\ flags' \in Flags /\ file' \in Flags
          /\ house' \in {"on", "captured", "off"} /\ grid' \in {"plan", "max"}
          /\ promised' \in SUBSET Promises
      BY <3>1
    <3> HIDE DEF Flags, Plan, PC, Jobs
    <3>8. QED BY <3>1, <3>2, <3>3, <3>4, <3>5, <3>6, <3>7
  <2>5. ASSUME NEW c \in Clients, NEW ov \in Overrides, Request(c, ov) PROVE TypeOK'
    <3>1. ov \in Override
      OBVIOUS
    <3>2. flags' \in Flags
      BY <2>5, <3>1 DEF Request, Override
    <3>3. promised' \in SUBSET Promises
      BY <2>5 DEF Request
    <3>4. asked' \in [Clients -> SUBSET Promises]
      <4>1. ASSUME NEW d \in Clients
            PROVE  (ov.pause \ (flags'.force \union ov.resume))
                     \union (IF ov.shadow = "on" THEN {"shadow"} ELSE {})
                   \in SUBSET Promises
        BY <3>1 DEF Override, Promises
      <4>2. \A d \in Clients : asked[d] \ Undone(ov) \in SUBSET Promises
        OBVIOUS
      <4>3. QED BY <2>5, <4>1, <4>2 DEF Request
    <3>5. QED BY <2>5, <3>2, <3>3, <3>4 DEF Request, Start
  <2>6. ASSUME NEW c \in Clients, Kill(c) \/ Clear(c) PROVE TypeOK'
    <3>1. CASE Kill(c)
      BY <3>1 DEF Kill, Start, Promises
    <3>2. CASE Clear(c)
      <4>1. flags' \in Flags
        BY <3>2 DEF Clear
      <4>2. QED BY <3>2, <4>1 DEF Clear, Start, Save, Withdraw
    <3>3. QED BY <2>6, <3>1, <3>2
  <2>7. ASSUME NEW c \in Clients, Credentials(c) PROVE TypeOK'
    BY <2>7 DEF Credentials, CutStream, Interrupt, Without
  <2>8. ASSUME NEW c \in Clients, NEW what \in Requests, Ask(c, what) PROVE TypeOK'
    BY <2>8 DEF Ask, Start, Withdraw
  <2>9. ASSUME NEW t \in Tasks, StartCycle(t) PROVE TypeOK'
    BY <2>9 DEF StartCycle, Lock
  <2>10. ASSUME NEW c \in Clients, Reload(c) \/ Reset(c) \/ KillBegins(c)
         PROVE TypeOK'
    <3>1. CASE Reload(c)
      BY <3>1 DEF Reload, Lock
    <3>2. CASE Reset(c)
      <4>1. flags' \in Flags
        BY <3>2 DEF Reset, Fresh
      <4>2. lifted' \in BOOLEAN /\ UNCHANGED <<world, job, plan, prev, phase, need, streams>>
        BY <3>2 DEF Reset, StillLifted
      <4>3. /\ file' \in Flags /\ promised' \in SUBSET Promises
            /\ asked' \in [Clients -> SUBSET Promises]
        BY <3>2, <4>1 DEF Reset, Save, Withdraw
      <4>4. pc' \in [Tasks -> PC] /\ holder' \in Tasks /\ cfg' \in SUBSET Features
        BY <3>2 DEF Reset, Lock
      <4>5. QED BY <4>1, <4>2, <4>3, <4>4
    <3>3. CASE KillBegins(c)
      <4>1. flags' \in Flags
        BY <3>3 DEF KillBegins
      <4>2. pc' \in [Tasks -> PC]
        BY <3>3 DEF KillBegins, Lock
      <4>3. prev' \in BOOLEAN
        BY <3>3 DEF KillBegins
      <4>4. QED BY <3>3, <4>1, <4>2, <4>3 DEF KillBegins, Lock
    <3>4. QED BY <2>10, <3>1, <3>2, <3>3
  <2>11. ASSUME NEW c \in Clients, KillEnds(c) \/ KillFails(c) PROVE TypeOK'
    <3>1. CASE KillEnds(c)
      <4>1. flags' \in Flags
        BY <3>1 DEF KillEnds
      <4>2. file' \in Flags
        BY <3>1, <4>1 DEF KillEnds, Save
      <4>3. promised' \in SUBSET Promises
        BY <3>1 DEF KillEnds
      <4>4. QED BY <3>1, <4>1, <4>2, <4>3 DEF KillEnds, Leave
    <3>2. CASE KillFails(c)
      BY <3>2 DEF KillFails, Leave
    <3>3. QED BY <2>11, <3>1, <3>2
  <2>12. CASE ShutdownBegins \/ ShutdownEnds
    <3>1. flags' \in Flags
      BY <2>12 DEF ShutdownBegins, ShutdownEnds
    <3>2. CASE ShutdownBegins
      BY <3>1, <3>2 DEF ShutdownBegins, Lock
    <3>3. CASE ShutdownEnds
      BY <3>1, <3>3 DEF ShutdownEnds, Without
    <3>4. QED BY <2>12, <3>2, <3>3
  <2>13. ASSUME NEW t \in Tasks, Refresh(t) PROVE TypeOK'
    BY <2>13 DEF Refresh, Go
  <2>14. ASSUME NEW t \in Tasks, NewToken(t) PROVE TypeOK'
    BY <2>14 DEF NewToken, CutStream, Interrupt, Without
  <2>15. ASSUME NEW t \in Tasks, NEW s \in Streams, NewStream(t, s) PROVE TypeOK'
    BY <2>15 DEF NewStream, Leave, Go
  <2>16. ASSUME NEW t \in Tasks, Decide(t) PROVE TypeOK'
    BY <2>16 DEF Decide, Go, AfterGrid, GridPlans, ShedPlans
  <2>17. ASSUME NEW t \in Tasks, WriteGrid(t) \/ Snapshot(t) \/ WriteShed(t)
         PROVE TypeOK'
    <3>1. CASE WriteGrid(t)
      <4>1. AfterGrid(plan.shed) \in PC
        BY DEF AfterGrid
      <4>2. QED BY <3>1, <4>1 DEF WriteGrid, Go
    <3>2. CASE Snapshot(t)
      BY <3>2 DEF Snapshot, Go
    <3>3. CASE WriteShed(t)
      BY <3>3 DEF WriteShed, Go
    <3>4. QED BY <2>17, <3>1, <3>2, <3>3
  <2>18. ASSUME NEW t \in Tasks, Finish(t) \/ FinishFails(t) PROVE TypeOK'
    <3>1. plan' = Idle /\ plan' \in Plan
      <4>1. plan' = Idle
        BY <2>18 DEF Finish, FinishFails
      <4>2. QED BY <4>1 DEF Idle
    <3>2. pc' \in [Tasks -> PC] /\ job' \in [Tasks -> Jobs]
      BY <2>18 DEF Finish, FinishFails, Leave
    <3>3. holder' \in Tasks \union {Nobody}
      BY <2>18 DEF Finish, FinishFails, Leave
    <3>4. CASE Finish(t)
      <4>1. phase' \in {"boot", "up", "stopping", "closing", "down", "dead"}
        BY <3>4 DEF Finish
      <4>2. QED BY <3>1, <3>2, <3>3, <3>4, <4>1 DEF Finish
    <3>5. CASE FinishFails(t)
      <4>1. phase' \in {"boot", "up", "stopping", "closing", "down", "dead"}
        BY <3>5 DEF FinishFails
      <4>2. asked' \in [Clients -> SUBSET Promises]
        BY <3>5 DEF FinishFails
      <4>3. QED BY <3>1, <3>2, <3>3, <3>5, <4>1, <4>2 DEF FinishFails
    <3>6. QED BY <2>18, <3>4, <3>5
  <2>19. ASSUME NEW t \in Tasks, WriteMax(t) \/ BringBack(t) PROVE TypeOK'
    <3>1. CASE WriteMax(t)
      BY <3>1 DEF WriteMax, Go
    <3>2. CASE BringBack(t)
      BY <3>2 DEF BringBack, Go
    <3>3. QED BY <2>19, <3>1, <3>2
  <2>20. ASSUME NEW c \in Clients, Answer(c) PROVE TypeOK'
    <3>1. plan' \in Plan
      <4>1. plan' = Idle
        BY <2>20 DEF Answer
      <4>2. QED BY <4>1 DEF Idle
    <3>2. file' \in Flags /\ promised' \in SUBSET Promises
      BY <2>20 DEF Answer, Save
    <3>3. lifted' \in BOOLEAN /\ UNCHANGED <<cfg, flags, world, prev, phase, need, streams>>
      BY <2>20 DEF Answer, StillLifted
    <3>4. /\ pc' \in [Tasks -> PC] /\ job' \in [Tasks -> Jobs]
          /\ holder' \in Tasks \union {Nobody}
          /\ asked' \in [Clients -> SUBSET Promises]
      BY <2>20 DEF Answer, Leave
    <3>5. QED BY <3>1, <3>2, <3>3, <3>4
  <2>21. CASE UNCHANGED vars
    BY <2>21 DEF vars
  <2>22. QED
    BY <2>1, <2>2, <2>3, <2>4, <2>5, <2>6, <2>7, <2>8, <2>9, <2>10, <2>11,
       <2>12, <2>13, <2>14, <2>15, <2>16, <2>17, <2>18, <2>19, <2>20,
       <2>21, NextSplit
<1>3. QED
  BY <1>1, <1>2, PTL DEF Spec
-----------------------------------------------------------------------------
(* A cycle, the kill switch and the shutdown do their work holding the     *)
(* lock; credentials are reloaded without it.                              *)
Held(t) == \/ pc[t] \in Body \union {"max", "bring", "seal"}
           \/ pc[t] = "rewire" /\ job[t] # "credentials"

Mutex == \A t \in Tasks : /\ Held(t) => holder = t
                          /\ job[t] = "credentials" => t \in Clients

(* Nothing runs in a process that is not there.                            *)
Asleep ==
  phase \in {"down", "dead"} => alive = {} /\ \A t \in Tasks : pc[t] = "idle"

LEMMA LockInit == Init => Mutex /\ Asleep
  BY DEF Init, Mutex, Asleep, Held, Body

LEMMA LockStep ==
  ASSUME TypeOK, Mutex, Asleep, [Next]_vars
  PROVE  Mutex' /\ Asleep'
<1> USE Names DEF TypeOK, Mutex, Asleep, Held, Body, world, task, streams, history
<1>1. ASSUME NEW s \in Streams, Boot(s) \/ GridChange(s) PROVE Mutex' /\ Asleep'
  BY <1>1 DEF Boot, GridChange, Start
<1>2. CASE Tick
  BY <1>2 DEF Tick, Start
<1>3. CASE Shutdown
  <2>1. ASSUME NEW t \in Tasks, Held(t)' PROVE holder' = t
    <3>1. pc'[t] = pc[t] /\ Held(t)
      BY <1>3, <2>1, ShutdownMoves
    <3>2. QED BY <1>3, <2>1, <3>1, ShutdownMoves
  <2>2. QED BY <1>3, <2>1, ShutdownMoves
<1>4. CASE Exit \/ Crash
  BY <1>4 DEF Exit, Crash, AllIdle
<1>5. ASSUME NEW c \in Clients, NEW ov \in Overrides, Request(c, ov)
      PROVE Mutex' /\ Asleep'
  BY <1>5 DEF Request, Start
<1>6. ASSUME NEW c \in Clients, Kill(c) \/ Clear(c) PROVE Mutex' /\ Asleep'
  BY <1>6 DEF Kill, Clear, Start
<1>7. ASSUME NEW c \in Clients, Credentials(c) PROVE Mutex' /\ Asleep'
  BY <1>7 DEF Credentials, CutStream, Interrupt, Without
<1>8. ASSUME NEW c \in Clients, NEW what \in Requests, Ask(c, what)
      PROVE Mutex' /\ Asleep'
  BY <1>8 DEF Ask, Start
<1>9. ASSUME NEW t \in Tasks, StartCycle(t) PROVE Mutex' /\ Asleep'
  BY <1>9 DEF StartCycle, Lock
<1>10. ASSUME NEW c \in Clients, Reload(c) \/ Reset(c) \/ KillBegins(c)
       PROVE Mutex' /\ Asleep'
  BY <1>10 DEF Reload, Reset, KillBegins, Lock
<1>11. ASSUME NEW c \in Clients, KillEnds(c) \/ KillFails(c) \/ Answer(c)
       PROVE Mutex' /\ Asleep'
  BY <1>11 DEF KillEnds, KillFails, Answer, Leave
<1>12. CASE ShutdownBegins \/ ShutdownEnds
  BY <1>12 DEF ShutdownBegins, ShutdownEnds, Lock, Without
<1>13. ASSUME NEW t \in Tasks, Refresh(t) PROVE Mutex' /\ Asleep'
  BY <1>13 DEF Refresh, Go
<1>14. ASSUME NEW t \in Tasks, NewToken(t) PROVE Mutex' /\ Asleep'
  BY <1>14 DEF NewToken, CutStream, Interrupt, Without
<1>15. ASSUME NEW t \in Tasks, NEW s \in Streams, NewStream(t, s)
       PROVE Mutex' /\ Asleep'
  BY <1>15 DEF NewStream, Leave, Go
<1>16. ASSUME NEW t \in Tasks, Decide(t) PROVE Mutex' /\ Asleep'
  BY <1>16 DEF Decide, Go
<1>17. ASSUME NEW t \in Tasks, WriteGrid(t) \/ Snapshot(t) \/ WriteShed(t)
       PROVE Mutex' /\ Asleep'
  BY <1>17 DEF WriteGrid, Snapshot, WriteShed, Go
<1>18. ASSUME NEW t \in Tasks, Finish(t) \/ FinishFails(t) PROVE Mutex' /\ Asleep'
  BY <1>18 DEF Finish, FinishFails, Leave
<1>19. ASSUME NEW t \in Tasks, WriteMax(t) \/ BringBack(t) PROVE Mutex' /\ Asleep'
  BY <1>19 DEF WriteMax, BringBack, Go
<1>20. CASE UNCHANGED vars
  BY <1>20 DEF vars
<1>21. QED
  BY <1>1, <1>2, <1>3, <1>4, <1>5, <1>6, <1>7, <1>8, <1>9, <1>10, <1>11,
     <1>12, <1>13, <1>14, <1>15, <1>16, <1>17, <1>18, <1>19, <1>20, NextSplit

(* At most one task is inside a cycle, the kill switch or the shutdown.    *)
THEOREM OneAtATime == Spec => [](Mutex /\ Asleep)
<1>1. Init => Mutex /\ Asleep
  BY LockInit
<1>2. TypeOK /\ Mutex /\ Asleep /\ [Next]_vars => Mutex' /\ Asleep'
  BY LockStep
<1>3. QED
  BY <1>1, <1>2, TypeCorrect, PTL DEF Spec
-----------------------------------------------------------------------------
LEMMA ConfigStep ==
  ASSUME TypeOK, Mutex, Asleep, ConfigHonoured, [Next]_vars
  PROVE  ConfigHonoured'
<1> USE Names DEF TypeOK, Mutex, Asleep, ConfigHonoured, Held, Body, ShedPlaces,
                  world, task, streams, history
<1>1. ASSUME NEW s \in Streams, Boot(s) \/ GridChange(s)
      PROVE ConfigHonoured'
  BY <1>1 DEF Boot, GridChange, Start
<1>2. CASE Tick
  BY <1>2 DEF Tick, Start
<1>3. CASE Shutdown
  BY <1>3, ShutdownMoves
<1>4. CASE Exit \/ Crash
  BY <1>4 DEF Exit, Crash, AllIdle
<1>5. ASSUME NEW c \in Clients, NEW ov \in Overrides, Request(c, ov)
      PROVE ConfigHonoured'
  BY <1>5 DEF Request, Start
<1>6. ASSUME NEW c \in Clients, Kill(c) \/ Clear(c) PROVE ConfigHonoured'
  BY <1>6 DEF Kill, Clear, Start
<1>7. ASSUME NEW c \in Clients, Credentials(c) PROVE ConfigHonoured'
  BY <1>7 DEF Credentials, CutStream, Without
<1>8. ASSUME NEW c \in Clients, NEW what \in Requests, Ask(c, what)
      PROVE ConfigHonoured'
  BY <1>8 DEF Ask, Start
<1>9. ASSUME NEW t \in Tasks, StartCycle(t) PROVE ConfigHonoured'
  BY <1>9 DEF StartCycle, Lock
<1>10. ASSUME NEW c \in Clients, Reload(c) \/ Reset(c) \/ KillBegins(c)
      PROVE ConfigHonoured'
  BY <1>10 DEF Reload, Reset, KillBegins, Lock
<1>11. ASSUME NEW c \in Clients, KillEnds(c) \/ KillFails(c) \/ Answer(c)
      PROVE ConfigHonoured'
  BY <1>11 DEF KillEnds, KillFails, Answer, Leave
<1>12. CASE ShutdownBegins \/ ShutdownEnds
  BY <1>12 DEF ShutdownBegins, ShutdownEnds, Lock, Without
<1>13. ASSUME NEW t \in Tasks, Refresh(t) PROVE ConfigHonoured'
  BY <1>13 DEF Refresh, Go
<1>14. ASSUME NEW t \in Tasks, NewToken(t) PROVE ConfigHonoured'
  BY <1>14 DEF NewToken, CutStream, Without
<1>15. ASSUME NEW t \in Tasks, NEW s \in Streams, NewStream(t, s)
      PROVE ConfigHonoured'
  BY <1>15 DEF NewStream, Leave, Go
<1>16. ASSUME NEW t \in Tasks, Decide(t) PROVE ConfigHonoured'
  BY <1>16 DEF Decide, Go, AfterGrid, GridPlans, ShedPlans,
     grid_charge_writes_allowed, shedding_writes_allowed
<1>17. ASSUME NEW t \in Tasks, WriteGrid(t) \/ Snapshot(t) \/ WriteShed(t)
      PROVE ConfigHonoured'
  BY <1>17 DEF WriteGrid, Snapshot, WriteShed, Go, AfterGrid,
     shedding_writes_allowed
<1>18. ASSUME NEW t \in Tasks, Finish(t) \/ FinishFails(t)
      PROVE ConfigHonoured'
  BY <1>18 DEF Finish, FinishFails, Leave
<1>19. ASSUME NEW t \in Tasks, WriteMax(t) \/ BringBack(t)
      PROVE ConfigHonoured'
  BY <1>19 DEF WriteMax, BringBack, Go
<1>20. CASE UNCHANGED vars
  BY <1>20 DEF vars
<1>21. QED
  BY <1>1, <1>2, <1>3, <1>4, <1>5, <1>6, <1>7, <1>8, <1>9, <1>10, <1>11,
     <1>12, <1>13, <1>14, <1>15, <1>16, <1>17, <1>18, <1>19, <1>20, NextSplit

(* A cycle writes only for what the configuration in force enables: no     *)
(* reload or reset pulls it from under a cycle that is writing.            *)
THEOREM WritesUnderConfigInForce == Spec => []ConfigHonoured
<1>1. Init => ConfigHonoured
  BY DEF Init, ConfigHonoured, ShedPlaces
<1>2. TypeOK /\ Mutex /\ Asleep /\ ConfigHonoured /\ [Next]_vars => ConfigHonoured'
  BY ConfigStep
<1>3. QED
  BY <1>1, <1>2, TypeCorrect, OneAtATime, PTL DEF Spec
-----------------------------------------------------------------------------
(* What was promised is paused and not forced, in memory and in the file;  *)
(* what an override in progress asks for is so in memory.                  *)
Quiet(f, k) == k \in f.paused /\ k \notin f.force

PauseInv ==
  /\ \A k \in Subsystems : k \in promised => Quiet(flags, k) /\ Quiet(file, k)
  /\ \A c \in Clients, k \in Subsystems :
       job[c] = "override" /\ pc[c] # "idle" /\ k \in asked[c] => Quiet(flags, k)
  /\ PauseHonoured

LEMMA PauseStep ==
  ASSUME TypeOK, Mutex, Asleep, PauseInv, [Next]_vars, "save" \notin Faults
  PROVE  PauseInv'
<1> USE Names DEF TypeOK, Mutex, Asleep, PauseInv, PauseHonoured, Quiet, Held, Body,
                  ShedPlaces, Flags, Subsystems, world, task, streams, history
<1>1. ASSUME NEW s \in Streams, Boot(s) \/ GridChange(s) PROVE PauseInv'
  BY <1>1 DEF Boot, GridChange, Start
<1>2. CASE Tick
  BY <1>2 DEF Tick, Start
<1>3. CASE Shutdown
  BY <1>3, ShutdownMoves
<1>4. CASE Exit \/ Crash
  BY <1>4 DEF Exit, Crash, AllIdle
<1>5. ASSUME NEW c \in Clients, NEW ov \in Overrides, Request(c, ov)
      PROVE PauseInv'
  <2>1. ov \in Override /\ Subsystems \subseteq Promises
    BY InputsAssumption DEF Promises
  <2>2. \A k \in Subsystems :
          /\ k \in flags'.paused
               <=> (k \in ov.force \/ (k \in flags.paused \union ov.pause
                                       /\ k \notin ov.resume))
          /\ k \in flags'.force
               <=> (k \in ov.force \/ (k \in flags.force
                                       /\ k \notin ov.unforce \union ov.resume))
    BY <1>5 DEF Request
  <2>3. \A k \in Subsystems :
          k \in Undone(ov) <=> k \in ov.resume \union ov.force
    BY DEF Undone
  <2>4. \A k \in Subsystems :
          k \in promised' => Quiet(flags', k) /\ Quiet(file', k)
    BY <1>5, <2>2, <2>3 DEF Request
  <2>5. ASSUME NEW d \in Clients, NEW k \in Subsystems,
               job'[d] = "override", pc'[d] # "idle", k \in asked'[d]
        PROVE  Quiet(flags', k)
    <3>1. CASE d = c
      <4>1. k \in ov.pause /\ k \notin flags'.force \union ov.resume
        BY <1>5, <2>5, <3>1 DEF Request
      <4>2. QED BY <4>1, <2>2
    <3>2. CASE d # c
      <4>1. k \in asked[d] /\ k \notin Undone(ov) /\ Quiet(flags, k)
        BY <1>5, <2>5, <3>2 DEF Request, Start
      <4>2. QED BY <4>1, <2>2, <2>3
    <3>3. QED BY <3>1, <3>2
  <2>6. PauseHonoured'
    BY <1>5 DEF Request, Start
  <2>7. QED BY <2>4, <2>5, <2>6
<1>6. ASSUME NEW c \in Clients, Kill(c) \/ Clear(c) PROVE PauseInv'
  <2>1. CASE Kill(c)
    BY <2>1 DEF Kill, Start
  <2>2. CASE Clear(c)
    <3>1. /\ promised' = promised \ Subsystems
          /\ \A d \in Clients : asked'[d] = asked[d] \ Subsystems
      BY <2>2 DEF Clear, Withdraw
    <3>2. PauseHonoured'
      BY <2>2, <3>1 DEF Clear, Start
    <3>3. QED BY <3>1, <3>2
  <2>3. QED BY <1>6, <2>1, <2>2
<1>7. ASSUME NEW c \in Clients, Credentials(c) PROVE PauseInv'
  BY <1>7 DEF Credentials, CutStream, Without
<1>8. ASSUME NEW c \in Clients, NEW what \in Requests, Ask(c, what)
      PROVE PauseInv'
  BY <1>8 DEF Ask, Start, Withdraw
<1>9. ASSUME NEW t \in Tasks, StartCycle(t) PROVE PauseInv'
  BY <1>9 DEF StartCycle, Lock
<1>10. ASSUME NEW c \in Clients, Reload(c) \/ Reset(c) \/ KillBegins(c)
      PROVE PauseInv'
  <2>1. CASE Reload(c)
    BY <2>1 DEF Reload, Lock
  <2>2. CASE Reset(c)
    <3>1. /\ promised' = promised \ Promises
          /\ \A d \in Clients : asked'[d] = asked[d] \ Promises
      BY <2>2 DEF Reset, Withdraw
    <3>2. PauseHonoured'
      BY <2>2, <3>1 DEF Reset, Lock
    <3>3. QED BY <3>1, <3>2 DEF Promises
  <2>3. CASE KillBegins(c)
    <3>1. flags'.paused = flags.paused /\ flags'.force = flags.force
      BY <2>3 DEF KillBegins
    <3>2. QED BY <2>3, <3>1 DEF KillBegins, Lock
  <2>4. QED BY <1>10, <2>1, <2>2, <2>3
<1>11. ASSUME NEW c \in Clients, KillEnds(c) \/ KillFails(c) \/ Answer(c)
      PROVE PauseInv'
  <2>1. CASE KillEnds(c)
    <3>1. /\ flags'.paused = Subsystems /\ flags'.force = flags.force
          /\ file' = flags'
      BY <2>1 DEF KillEnds, Save
    <3>2. \A t \in Tasks \ {c} : ~Held(t)
      BY <2>1 DEF KillEnds
    <3>3. PauseHonoured'
      BY <2>1, <3>2 DEF KillEnds, Leave
    <3>4. QED BY <2>1, <3>1, <3>3 DEF KillEnds, Leave
  <2>2. CASE KillFails(c)
    BY <2>2 DEF KillFails, Leave
  <2>3. CASE Answer(c)
    <3>1. file' = flags' /\ flags' = flags
      BY <2>3 DEF Answer, Save
    <3>2. \A t \in Tasks \ {c} : ~Held(t)
      BY <2>3 DEF Answer
    <3>3. PauseHonoured'
      BY <2>3, <3>2 DEF Answer, Leave
    <3>4. QED BY <2>3, <3>1, <3>3 DEF Answer, Leave
  <2>4. QED BY <1>11, <2>1, <2>2, <2>3
<1>12. CASE ShutdownBegins \/ ShutdownEnds
  BY <1>12 DEF ShutdownBegins, ShutdownEnds, Lock, Without
<1>13. ASSUME NEW t \in Tasks, Refresh(t) PROVE PauseInv'
  BY <1>13 DEF Refresh, Go
<1>14. ASSUME NEW t \in Tasks, NewToken(t) PROVE PauseInv'
  BY <1>14 DEF NewToken, CutStream, Without
<1>15. ASSUME NEW t \in Tasks, NEW s \in Streams, NewStream(t, s)
      PROVE PauseInv'
  BY <1>15 DEF NewStream, Leave, Go
<1>16. ASSUME NEW t \in Tasks, Decide(t) PROVE PauseInv'
  BY <1>16 DEF Decide, Go, AfterGrid, GridPlans, ShedPlans,
     grid_charge_writes_allowed, shedding_writes_allowed
<1>17. ASSUME NEW t \in Tasks, WriteGrid(t) \/ Snapshot(t) \/ WriteShed(t)
      PROVE PauseInv'
  BY <1>17 DEF WriteGrid, Snapshot, WriteShed, Go, AfterGrid,
     shedding_writes_allowed
<1>18. ASSUME NEW t \in Tasks, Finish(t) \/ FinishFails(t) PROVE PauseInv'
  BY <1>18 DEF Finish, FinishFails, Leave
<1>19. ASSUME NEW t \in Tasks, WriteMax(t) \/ BringBack(t) PROVE PauseInv'
  BY <1>19 DEF WriteMax, BringBack, Go
<1>20. CASE UNCHANGED vars
  BY <1>20 DEF vars
<1>21. QED
  BY <1>1, <1>2, <1>3, <1>4, <1>5, <1>6, <1>7, <1>8, <1>9, <1>10, <1>11,
     <1>12, <1>13, <1>14, <1>15, <1>16, <1>17, <1>18, <1>19, <1>20, NextSplit

(* As long as the state file can be written, a pause that was answered is  *)
(* honoured until it is asked back: across crashes, reconnections, kill    *)
(* switches and any interleaving of requests.                              *)
THEOREM PausesAreHonoured ==
  ASSUME "save" \notin Faults
  PROVE  Spec => []PauseHonoured
<1>1. Init => PauseInv
  BY DEF Init, PauseInv, PauseHonoured, ShedPlaces
<1>2. TypeOK /\ Mutex /\ Asleep /\ PauseInv /\ [Next]_vars => PauseInv'
  BY PauseStep
<1>3. PauseInv => PauseHonoured
  BY DEF PauseInv
<1>4. QED
  BY <1>1, <1>2, <1>3, TypeCorrect, OneAtATime, PTL DEF Spec
-----------------------------------------------------------------------------
(* The task of start-up and shutdown tells the phase; the kill switch and  *)
(* the shutdown are where cycles never are.                                *)
Located ==
  /\ pc["main"] # "idle" => \/ job["main"] = "boot" /\ phase = "boot"
                            \/ job["main"] = "stop" /\ phase = "stopping"
  /\ \A t \in Tasks :
       /\ job[t] \in {"boot", "stop"} => t = "main"
       /\ pc[t] \in Emergency => job[t] \in {"kill", "stop"}
       /\ pc[t] \in Body \union {"rewire"} => job[t] \notin {"kill", "stop"}

LEMMA LocatedStep ==
  ASSUME TypeOK, Mutex, Asleep, Located, [Next]_vars
  PROVE  Located'
<1> USE Names DEF TypeOK, Asleep, Located, Emergency, Body, Plan, world, task, streams
<1>1. ASSUME NEW s \in Streams, Boot(s) \/ GridChange(s) PROVE Located'
  BY <1>1 DEF Boot, GridChange, Start
<1>2. CASE Tick
  BY <1>2 DEF Tick, Start
<1>3. CASE Shutdown
  BY <1>3, ShutdownMoves
<1>4. CASE Exit \/ Crash
  BY <1>4 DEF Exit, Crash, AllIdle
<1>5. ASSUME NEW c \in Clients, NEW ov \in Overrides, Request(c, ov) PROVE Located'
  BY <1>5 DEF Request, Start
<1>6. ASSUME NEW c \in Clients, Kill(c) \/ Clear(c) PROVE Located'
  BY <1>6 DEF Kill, Clear, Start
<1>7. ASSUME NEW c \in Clients, Credentials(c) PROVE Located'
  BY <1>7 DEF Credentials, CutStream, Without
<1>8. ASSUME NEW c \in Clients, NEW what \in Requests, Ask(c, what) PROVE Located'
  BY <1>8 DEF Ask, Start
<1>9. ASSUME NEW t \in Tasks, StartCycle(t) PROVE Located'
  BY <1>9 DEF StartCycle, Lock
<1>10. ASSUME NEW c \in Clients, Reload(c) \/ Reset(c) \/ KillBegins(c)
       PROVE Located'
  BY <1>10 DEF Reload, Reset, KillBegins, Lock
<1>11. ASSUME NEW c \in Clients, KillEnds(c) \/ KillFails(c) \/ Answer(c)
       PROVE Located'
  BY <1>11 DEF KillEnds, KillFails, Answer, Leave
<1>12. CASE ShutdownBegins \/ ShutdownEnds
  BY <1>12 DEF ShutdownBegins, ShutdownEnds, Lock, Without
<1>13. ASSUME NEW t \in Tasks, Refresh(t) PROVE Located'
  BY <1>13 DEF Refresh, Go
<1>14. ASSUME NEW t \in Tasks, NewToken(t) PROVE Located'
  BY <1>14 DEF NewToken, CutStream, Without
<1>15. ASSUME NEW t \in Tasks, NEW s \in Streams, NewStream(t, s) PROVE Located'
  BY <1>15 DEF NewStream, Leave, Go
<1>16. ASSUME NEW t \in Tasks, Decide(t) PROVE Located'
  BY <1>16 DEF Decide, Go, AfterGrid, ShedPlans
<1>17. ASSUME NEW t \in Tasks, WriteGrid(t) \/ Snapshot(t) \/ WriteShed(t)
       PROVE Located'
  BY <1>17 DEF WriteGrid, Snapshot, WriteShed, Go, AfterGrid
<1>18. ASSUME NEW t \in Tasks, Finish(t) \/ FinishFails(t) PROVE Located'
  BY <1>18 DEF Finish, FinishFails, Leave
<1>19. ASSUME NEW t \in Tasks, WriteMax(t) \/ BringBack(t) PROVE Located'
  BY <1>19 DEF WriteMax, BringBack, Go
<1>20. CASE UNCHANGED vars
  BY <1>20 DEF vars
<1>21. QED
  BY <1>1, <1>2, <1>3, <1>4, <1>5, <1>6, <1>7, <1>8, <1>9, <1>10, <1>11,
     <1>12, <1>13, <1>14, <1>15, <1>16, <1>17, <1>18, <1>19, <1>20, NextSplit

THEOREM WhereMainIs == Spec => []Located
<1>1. Init => Located
  BY Names DEF Init, Located, Emergency, Body
<1>2. TypeOK /\ Mutex /\ Asleep /\ Located /\ [Next]_vars => Located'
  BY LocatedStep
<1>3. QED
  BY <1>1, <1>2, TypeCorrect, OneAtATime, PTL DEF Spec
-----------------------------------------------------------------------------
(* What memory and file disagree about somebody is going to save, and the  *)
(* shutdown is going to put back.                                          *)
Shadow == IF pc["main"] \in Emergency THEN prev ELSE flags.shadow
Settled == /\ file.paused = flags.paused /\ file.force = flags.force
           /\ file.shadow = Shadow
Saver(c) == pc[c] # "idle" /\ job[c] \in {"override", "kill"}
SaveInv ==
  phase \in {"boot", "up", "stopping", "closing"}
    => Settled \/ \E c \in Clients : Saver(c)

LEMMA SaveStep ==
  ASSUME TypeOK, Mutex, Asleep, Located, SaveInv, [Next]_vars,
         Faults \intersect {"save", "db"} = {}
  PROVE  SaveInv'
<1> USE Names DEF TypeOK, Mutex, Asleep, Located, SaveInv, Settled, Shadow, Saver, Held,
                  Emergency, Body, Flags, Plan, world, task, streams
<1>1. ASSUME NEW s \in Streams, Boot(s) \/ GridChange(s) PROVE SaveInv'
  BY <1>1 DEF Boot, GridChange, Start
<1>2. CASE Tick
  BY <1>2 DEF Tick, Start
<1>3. CASE Shutdown
  BY <1>3, ShutdownMoves
<1>4. CASE Exit \/ Crash
  BY <1>4 DEF Exit, Crash, AllIdle
<1>5. ASSUME NEW c \in Clients, NEW ov \in Overrides, Request(c, ov) PROVE SaveInv'
  BY <1>5 DEF Request, Start
<1>6. ASSUME NEW c \in Clients, Kill(c) \/ Clear(c) PROVE SaveInv'
  <2>1. CASE Kill(c)
    BY <2>1 DEF Kill, Start
  <2>2. CASE Clear(c)
    <3>1. pc["main"] = "idle" /\ pc'["main"] = "idle"
      BY <2>2 DEF Clear, Start
    <3>2. file' = flags'
      BY <2>2 DEF Clear, Save
    <3>3. QED BY <3>1, <3>2
  <2>3. QED BY <1>6, <2>1, <2>2
<1>7. ASSUME NEW c \in Clients, Credentials(c) PROVE SaveInv'
  <2>1. /\ pc[c] = "idle" /\ pc'[c] = "rewire" /\ UNCHANGED <<flags, file, phase, prev>>
        /\ \A d \in Tasks \ Streams : d # c => pc'[d] = pc[d] /\ job'[d] = job[d]
    BY <1>7 DEF Credentials, CutStream, Without
  <2>2. /\ \A d \in Clients : d \notin Streams /\ (Saver(d) => Saver(d)')
        /\ pc["main"] \in Emergency <=> pc'["main"] \in Emergency
    BY <1>7, <2>1, NamesAssumption DEF Credentials
  <2>3. QED BY <2>1, <2>2
<1>8. ASSUME NEW c \in Clients, NEW what \in Requests, Ask(c, what) PROVE SaveInv'
  BY <1>8 DEF Ask, Start
<1>9. ASSUME NEW t \in Tasks, StartCycle(t) PROVE SaveInv'
  BY <1>9 DEF StartCycle, Lock
<1>10. ASSUME NEW c \in Clients, Reload(c) \/ Reset(c) \/ KillBegins(c)
       PROVE SaveInv'
  <2>1. \A t \in Tasks : pc[t] \notin Emergency
    BY <1>10 DEF Reload, Reset, KillBegins, Lock
  <2>2. CASE Reload(c)
    BY <2>1, <2>2 DEF Reload, Lock
  <2>3. CASE Reset(c)
    <3>1. file' = flags' /\ pc'["main"] = pc["main"]
      BY <2>3 DEF Reset, Lock, Save
    <3>2. QED BY <2>1, <3>1
  <2>4. CASE KillBegins(c)
    <3>1. Saver(c)'
      BY <2>4 DEF KillBegins, Lock
    <3>2. QED BY <3>1
  <2>5. QED BY <1>10, <2>2, <2>3, <2>4
<1>11. ASSUME NEW c \in Clients, KillEnds(c) \/ KillFails(c) \/ Answer(c)
       PROVE SaveInv'
  <2>1. file' = flags' /\ holder = c /\ pc'["main"] = pc["main"]
    BY <1>11 DEF KillEnds, KillFails, Answer, Leave, Save
  <2>2. pc["main"] \notin Emergency
    BY <2>1
  <2>3. QED BY <2>1, <2>2
<1>12. CASE ShutdownBegins \/ ShutdownEnds
  <2>1. CASE ShutdownBegins
    <3>1. /\ pc["main"] = "wait" /\ pc'["main"] \in Emergency
          /\ prev' = flags.shadow /\ UNCHANGED <<file, job, phase>>
          /\ flags'.paused = flags.paused /\ flags'.force = flags.force
          /\ \A c \in Clients : pc'[c] = pc[c]
      BY <2>1 DEF ShutdownBegins, Lock
    <3>2. QED BY <3>1
  <2>2. CASE ShutdownEnds
    <3>1. /\ pc["main"] = "seal" /\ pc'["main"] = "idle" /\ phase = "stopping"
          /\ flags'.shadow = prev /\ UNCHANGED <<file, job>>
          /\ flags'.paused = flags.paused /\ flags'.force = flags.force
          /\ \A c \in Clients : pc'[c] = pc[c]
      BY <2>2, NamesAssumption DEF ShutdownEnds, Without
    <3>2. QED BY <3>1
  <2>3. QED BY <1>12, <2>1, <2>2
<1>13. ASSUME NEW t \in Tasks, Refresh(t) PROVE SaveInv'
  BY <1>13 DEF Refresh, Go
<1>14. ASSUME NEW t \in Tasks, NewToken(t) PROVE SaveInv'
  <2>1. /\ pc[t] = "sense" /\ pc'[t] = "rewire" /\ UNCHANGED <<flags, file, phase, prev>>
        /\ \A d \in Tasks \ Streams : d # t => pc'[d] = pc[d] /\ job'[d] = job[d]
    BY <1>14 DEF NewToken, CutStream, Without
  <2>2. /\ \A d \in Clients : d \notin Streams /\ (Saver(d) => Saver(d)')
        /\ pc["main"] \in Emergency <=> pc'["main"] \in Emergency
    BY <1>14, <2>1, NamesAssumption DEF NewToken
  <2>3. QED BY <2>1, <2>2
<1>15. ASSUME NEW t \in Tasks, NEW s \in Streams, NewStream(t, s) PROVE SaveInv'
  BY <1>15 DEF NewStream, Leave, Go
<1>16. ASSUME NEW t \in Tasks, Decide(t) PROVE SaveInv'
  BY <1>16 DEF Decide, Go, AfterGrid, ShedPlans
<1>17. ASSUME NEW t \in Tasks, WriteGrid(t) \/ Snapshot(t) \/ WriteShed(t)
       PROVE SaveInv'
  BY <1>17 DEF WriteGrid, Snapshot, WriteShed, Go, AfterGrid
<1>18. ASSUME NEW t \in Tasks, Finish(t) \/ FinishFails(t) PROVE SaveInv'
  BY <1>18 DEF Finish, FinishFails, Leave
<1>19. ASSUME NEW t \in Tasks, WriteMax(t) \/ BringBack(t) PROVE SaveInv'
  BY <1>19 DEF WriteMax, BringBack, Go
<1>20. CASE UNCHANGED vars
  BY <1>20 DEF vars
<1>21. QED
  BY <1>1, <1>2, <1>3, <1>4, <1>5, <1>6, <1>7, <1>8, <1>9, <1>10, <1>11,
     <1>12, <1>13, <1>14, <1>15, <1>16, <1>17, <1>18, <1>19, <1>20, NextSplit

(* As long as the state file and the database can be written, what a       *)
(* restart would bring back is what is in force, whenever no request is in *)
(* progress.                                                               *)
THEOREM FlagsAreDurable ==
  ASSUME Faults \intersect {"save", "db"} = {}
  PROVE  Spec => []Durable
<1>1. Init => SaveInv
  BY DEF Init, SaveInv
<1>2. TypeOK /\ Mutex /\ Asleep /\ Located /\ SaveInv /\ [Next]_vars => SaveInv'
  BY SaveStep
<1>3. TypeOK /\ Located /\ SaveInv => Durable
  BY DEF TypeOK, Flags, Located, SaveInv, Durable, Settled, Shadow, Saver, Emergency
<1>4. QED
  BY <1>1, <1>2, <1>3, TypeCorrect, OneAtATime, WhereMainIs, PTL DEF Spec
-----------------------------------------------------------------------------
(* Shadow mode that was promised is on in the file and, but for the time   *)
(* the shutdown or the kill switch borrows it, in memory, unless the kill  *)
(* switch has lifted it.                                                   *)
Asks(c) == job[c] = "override" /\ pc[c] # "idle" /\ "shadow" \in asked[c]
Kept == IF Killing THEN prev \/ flags.shadow ELSE Shadow
ShadowInv ==
  /\ \A c \in Clients : job[c] = "kill" => "shadow" \notin asked[c]
  /\ lifted \/ ("shadow" \in promised => file.shadow)
  /\ lifted \/ (phase \notin {"down", "dead"}
                   /\ ("shadow" \in promised \/ \E c \in Clients : Asks(c))
                  => Kept)
  /\ ShadowHonoured

(* What most steps do to shadow mode and to those who want it: nothing.    *)
Calm ==
  /\ UNCHANGED <<flags, file, prev, lifted>>
  /\ "shadow" \in promised' => "shadow" \in promised
  /\ plan'.live => plan.live
  /\ phase' \notin {"down", "dead"} => phase \notin {"down", "dead"}
  /\ \A t \in Tasks : /\ pc'[t] = "grid" => pc[t] = "grid"
                      /\ pc'[t] \in ShedPlaces => pc[t] \in ShedPlaces
  /\ \A c \in Clients : /\ job'[c] = "kill" => job[c] = "kill" \/ "shadow" \notin asked'[c]
                        /\ "shadow" \in asked'[c] => "shadow" \in asked[c]
                        /\ Asks(c)' => Asks(c)
  /\ Killing' <=> Killing
  /\ pc'["main"] \in Emergency <=> pc["main"] \in Emergency

LEMMA CalmShadow ==
  ASSUME ShadowInv, Calm
  PROVE  ShadowInv'
<1>1. Kept' <=> Kept
  BY DEF Calm, Kept, Shadow
<1>2. (\E c \in Clients : Asks(c)') => \E c \in Clients : Asks(c)
  BY DEF Calm
<1>3. ShadowHonoured'
  BY DEF Calm, ShadowInv, ShadowHonoured
<1>4. \A c \in Clients : job'[c] = "kill" => "shadow" \notin asked'[c]
  BY DEF Calm, ShadowInv
<1>5. QED
  BY <1>1, <1>2, <1>3, <1>4 DEF Calm, ShadowInv

(* Only the holder of the lock kills, and while a cycle or the kill switch *)
(* has it the shutdown has not.                                            *)
LEMMA HolderKills ==
  ASSUME TypeOK, Mutex
  PROVE  /\ Killing => holder \in Clients /\ job[holder] = "kill" /\ pc[holder] \in Emergency
         /\ pc["main"] \in Emergency => holder = "main"
         /\ \A t \in Tasks : pc[t] \in Body => holder = t
  BY Names DEF TypeOK, Mutex, Held, Killing, Emergency

LEMMA ShadowStep ==
  ASSUME TypeOK, Mutex, Asleep, Located, ShadowInv, [Next]_vars, "save" \notin Faults
  PROVE  ShadowInv'
<1> USE Names, HolderKills
    DEF TypeOK, Located, Asks, Emergency, Body, ShedPlaces, Flags,
        world, task, streams, history
<1>1. ASSUME NEW s \in Streams, Boot(s) \/ GridChange(s) PROVE ShadowInv'
  <2>1. CASE Boot(s)
    <3>1. /\ flags' = file /\ file' = file /\ UNCHANGED <<plan, prev, asked, promised>>
          /\ \A t \in Clients \union Streams : pc'[t] = "idle" /\ job'[t] = job[t]
          /\ pc'["main"] \in {"idle", "wait"} /\ pc'["tick"] = "idle"
      BY <2>1, NamesAssumption DEF Boot, Start, Asleep
    <3>2. lifted' = (lifted /\ ~file.shadow)
      BY <2>1, <3>1 DEF Boot, StillLifted
    <3>3. ~Killing' /\ pc'["main"] \notin Emergency /\ \A c \in Clients : ~Asks(c)'
      BY <3>1 DEF Killing
    <3>4. \A t \in Tasks : pc'[t] \notin {"grid"} \union ShedPlaces
      BY <3>1 DEF Tasks
    <3>5. Kept' = file.shadow
      BY <3>1, <3>3 DEF Kept, Shadow
    <3>6. QED BY <3>1, <3>2, <3>3, <3>4, <3>5 DEF ShadowInv, ShadowHonoured
  <2>2. CASE GridChange(s)
    <3>1. Calm
      BY <2>2, NamesAssumption DEF GridChange, Start, Calm, Killing
    <3>2. QED BY <3>1, CalmShadow
  <2>3. QED BY <1>1, <2>1, <2>2
<1>2. CASE Tick
  <2>1. Calm
    BY <1>2, NamesAssumption DEF Tick, Start, Calm, Killing
  <2>2. QED BY <2>1, CalmShadow
<1>3. CASE Shutdown
  <2>1. \A c \in Clients : pc'[c] = "idle" /\ pc[c] = "idle" /\ job'[c] = job[c]
    BY <1>3, ShutdownMoves, NamesAssumption
  <2>2. /\ ~Killing /\ ~Killing' /\ \A c \in Clients : ~Asks(c)'
        /\ pc["main"] = "idle" /\ pc'["main"] \in {"idle", "wait"}
    BY <1>3, <2>1, ShutdownMoves DEF Killing
  <2>3. Calm
    BY <1>3, <2>1, <2>2, ShutdownMoves DEF Calm
  <2>4. QED BY <2>3, CalmShadow
<1>4. CASE Exit \/ Crash
  <2>1. /\ phase' \in {"down", "dead"} /\ UNCHANGED <<flags, file, promised, lifted>>
        /\ \A t \in Tasks : pc'[t] = "idle" /\ job'[t] = "none"
    BY <1>4 DEF Exit, Crash, AllIdle
  <2>2. QED BY <2>1 DEF ShadowInv, ShadowHonoured
<1>5. ASSUME NEW c \in Clients, NEW ov \in Overrides, Request(c, ov)
      PROVE ShadowInv'
  <2>1. /\ pc["main"] = "idle" /\ pc'["main"] = "idle"
        /\ \A t \in Tasks : t # c => pc'[t] = pc[t] /\ job'[t] = job[t]
        /\ pc[c] = "idle" /\ pc'[c] = "wait" /\ job'[c] = "override"
    BY <1>5 DEF Request, Start
  <2>2. /\ flags'.shadow = (IF ov.shadow = "keep" THEN flags.shadow
                            ELSE ov.shadow = "on")
        /\ ov.shadow \in {"keep", "on", "off"}
    BY <1>5, InputsAssumption DEF Request, Override
  <2>3. /\ UNCHANGED <<file, phase, prev, plan, lifted>>
        /\ "shadow" \in promised' => "shadow" \in promised /\ ov.shadow # "off"
        /\ \A d \in Clients : d # c /\ "shadow" \in asked'[d]
             => "shadow" \in asked[d] /\ ov.shadow # "off"
    BY <1>5 DEF Request, Undone
  <2>4. "shadow" \in asked'[c] => ov.shadow = "on"
    BY <1>5, InputsAssumption DEF Request, Override, Subsystems
  <2>5. Killing' <=> Killing
    BY <2>1 DEF Killing
  <2>6. ov.shadow = "keep" => (Kept' <=> Kept)
    BY <2>1, <2>2, <2>3, <2>5 DEF Kept, Shadow
  <2>7. ov.shadow = "on" => Kept'
    BY <2>1, <2>2 DEF Kept, Shadow
  <2>8. \/ lifted'
        \/ (phase' \notin {"down", "dead"}
              /\ ("shadow" \in promised' \/ \E d \in Clients : Asks(d)')
             => Kept')
    <3> SUFFICES ASSUME ~lifted, phase' \notin {"down", "dead"},
                        "shadow" \in promised' \/ \E d \in Clients : Asks(d)'
                 PROVE  Kept'
      BY <2>3
    <3>1. CASE ov.shadow = "on"
      BY <2>7, <3>1
    <3>2. CASE ov.shadow # "on"
      <4>1. ov.shadow = "keep"
            /\ ("shadow" \in promised \/ \E d \in Clients : Asks(d))
        BY <2>1, <2>2, <2>3, <2>4, <3>2
      <4>2. Kept
        BY <2>3, <4>1 DEF ShadowInv
      <4>3. QED BY <2>6, <4>1, <4>2
    <3>3. QED BY <3>1, <3>2
  <2>9. ShadowHonoured'
    BY <2>1, <2>3 DEF ShadowInv, ShadowHonoured
  <2>10. \A d \in Clients : job'[d] = "kill" => "shadow" \notin asked'[d]
    BY <2>1, <2>3 DEF ShadowInv
  <2>11. QED BY <2>3, <2>8, <2>9, <2>10 DEF ShadowInv
<1>6. ASSUME NEW c \in Clients, Kill(c) \/ Clear(c) PROVE ShadowInv'
  <2>1. CASE Kill(c)
    <3>1. Calm
      BY <2>1, NamesAssumption DEF Kill, Start, Calm, Killing, Subsystems
    <3>2. QED BY <3>1, CalmShadow
  <2>2. CASE Clear(c)
    <3>1. /\ flags'.shadow = flags.shadow /\ file' = flags'
          /\ UNCHANGED <<phase, prev, plan>>
      BY <2>2 DEF Clear, Save
    <3>2. /\ pc["main"] = "idle" /\ pc'["main"] = "idle"
          /\ \A t \in Tasks : t # c => pc'[t] = pc[t] /\ job'[t] = job[t]
          /\ pc[c] = "idle" /\ pc'[c] = "wait" /\ job'[c] = "clear"
      BY <2>2 DEF Clear, Start
    <3>3. /\ "shadow" \in promised' => "shadow" \in promised
          /\ \A d \in Clients : asked'[d] \subseteq asked[d]
          /\ lifted' = (lifted \/ (Killing /\ prev /\ ~flags.shadow /\ Wanted))
      BY <2>2 DEF Clear, Withdraw
    <3>4. (Killing' <=> Killing) /\ \A d \in Clients : Asks(d)' => Asks(d)
      BY <3>2, <3>3 DEF Killing
    <3>5. Kept' <=> Kept
      BY <3>1, <3>2, <3>4 DEF Kept, Shadow
    <3>6. ShadowHonoured'
      BY <3>1, <3>2, <3>3 DEF ShadowInv, ShadowHonoured
    <3>7. lifted' \/ ("shadow" \in promised' => file'.shadow)
      <4> SUFFICES ASSUME ~lifted', "shadow" \in promised PROVE flags.shadow
        BY <3>1, <3>3
      <4>1. Wanted /\ ~lifted
        BY <3>3 DEF Wanted
      <4>2. phase \notin {"down", "dead"}
        BY <2>2 DEF Clear
      <4>3. Kept
        BY <4>1, <4>2 DEF ShadowInv
      <4>4. CASE Killing
        BY <3>3, <4>1, <4>3, <4>4 DEF Kept
      <4>5. CASE ~Killing
        BY <3>2, <4>3, <4>5 DEF Kept, Shadow
      <4>6. QED BY <4>4, <4>5
    <3>8. \A d \in Clients : job'[d] = "kill" => "shadow" \notin asked'[d]
      BY <3>2, <3>3 DEF ShadowInv
    <3>9. QED BY <3>1, <3>3, <3>4, <3>5, <3>6, <3>7, <3>8 DEF ShadowInv
  <2>3. QED BY <1>6, <2>1, <2>2
<1>7. ASSUME NEW c \in Clients, Credentials(c) PROVE ShadowInv'
  <2>1. /\ UNCHANGED <<flags, file, phase, prev, plan, history>>
        /\ pc[c] = "idle" /\ job' = [job EXCEPT ![c] = "credentials"]
    BY <1>7 DEF Credentials, CutStream
  <2>2. /\ pc'[c] = "rewire"
        /\ \A t \in Tasks : t # c => pc'[t] = pc[t] \/ pc'[t] = "idle"
        /\ \A t \in Tasks \ Streams : t # c => pc'[t] = pc[t]
    BY <1>7, NamesAssumption DEF Credentials, CutStream, Without
  <2>3. \A d \in Clients \union {"main"} : d # c => pc'[d] = pc[d]
    BY <2>2, NamesAssumption
  <2>4. Calm
    BY <2>1, <2>2, <2>3 DEF Calm, Killing
  <2>5. QED BY <2>4, CalmShadow
<1>8. ASSUME NEW c \in Clients, NEW what \in Requests, Ask(c, what)
      PROVE ShadowInv'
  <2>1. /\ UNCHANGED <<flags, file, phase, prev, plan, lifted>>
        /\ promised' \subseteq promised
        /\ \A d \in Clients : asked'[d] \subseteq asked[d]
    BY <1>8 DEF Ask, Withdraw
  <2>2. /\ \A t \in Tasks : t # c => pc'[t] = pc[t] /\ job'[t] = job[t]
        /\ pc[c] = "idle" /\ pc'[c] = "wait" /\ job'[c] \in {"cycle", "reload", "reset"}
    BY <1>8 DEF Ask, Start
  <2>3. Calm
    BY <2>1, <2>2 DEF Calm, Killing
  <2>4. QED BY <2>3, CalmShadow
<1>9. ASSUME NEW t \in Tasks, StartCycle(t) PROVE ShadowInv'
  <2>1. Calm
    BY <1>9 DEF StartCycle, Lock, Calm, Killing
  <2>2. QED BY <2>1, CalmShadow
<1>10. ASSUME NEW c \in Clients, Reload(c) \/ Reset(c) \/ KillBegins(c)
       PROVE ShadowInv'
  <2>0. holder = Nobody /\ ~Killing /\ pc["main"] \notin Emergency
    BY <1>10 DEF Reload, Reset, KillBegins, Lock
  <2>1. CASE Reload(c)
    <3>1. Calm
      BY <2>1 DEF Reload, Lock, Calm, Killing
    <3>2. QED BY <3>1, CalmShadow
  <2>2. CASE Reset(c)
    <3>1. /\ "shadow" \notin promised'
          /\ \A d \in Clients : "shadow" \notin asked'[d]
      BY <2>2 DEF Reset, Withdraw, Promises
    <3>2. QED BY <3>1 DEF ShadowInv, ShadowHonoured
  <2>3. CASE KillBegins(c)
    <3>1. /\ prev' = flags.shadow /\ UNCHANGED <<file, plan, phase, job, history>>
          /\ pc[c] = "wait" /\ pc'[c] \in Emergency /\ job[c] = "kill"
          /\ \A t \in Tasks : t # c => pc'[t] = pc[t]
      BY <2>3 DEF KillBegins, Lock
    <3>2. Kept <=> flags.shadow
      BY <2>0 DEF Kept, Shadow
    <3>3. Killing'
      BY <3>1 DEF Killing
    <3>4. Kept => Kept'
      BY <3>1, <3>2, <3>3 DEF Kept
    <3>5. ShadowHonoured'
      BY <3>1 DEF ShadowInv, ShadowHonoured
    <3>6. \A d \in Clients : Asks(d)' => Asks(d)
      BY <3>1
    <3>7. QED BY <3>1, <3>4, <3>5, <3>6 DEF ShadowInv
  <2>4. QED BY <1>10, <2>1, <2>2, <2>3
<1>11. ASSUME NEW c \in Clients, KillEnds(c) \/ KillFails(c) \/ Answer(c)
       PROVE ShadowInv'
  <2>1. /\ holder = c /\ pc'[c] = "idle" /\ job'[c] = "none"
        /\ \A t \in Tasks : t # c => pc'[t] = pc[t] /\ job'[t] = job[t]
        /\ UNCHANGED <<phase, prev>>
        /\ \A d \in Clients : asked'[d] \subseteq asked[d]
    <3>1. pc[c] \in Body \union Emergency
      BY <1>11 DEF KillEnds, KillFails, Answer
    <3>2. holder = c
      BY <3>1 DEF Mutex, Held
    <3>3. /\ pc' = [pc EXCEPT ![c] = "idle"] /\ job' = [job EXCEPT ![c] = "none"]
          /\ asked' = [asked EXCEPT ![c] = {}] /\ UNCHANGED <<phase, prev>>
      BY <1>11 DEF KillEnds, KillFails, Answer, Leave
    <3>4. QED BY <3>2, <3>3
  <2>2. /\ \A t \in Tasks : pc'[t] \notin Body \union Emergency
        /\ pc["main"] \notin Emergency /\ phase \notin {"down", "dead"}
    <3>1. pc[c] \in Body \union Emergency
      BY <1>11 DEF KillEnds, KillFails, Answer
    <3>2. phase \notin {"down", "dead"}
      BY <3>1 DEF Asleep
    <3>3. \A t \in Tasks : t # c => pc[t] \notin Body \union Emergency
      BY <2>1 DEF Mutex, Held
    <3>4. QED BY <2>1, <3>2, <3>3
  <2>3. ShadowHonoured'
    BY <2>2 DEF ShadowHonoured
  <2>4. ~Killing' /\ (Kept' <=> flags'.shadow)
    BY <2>2 DEF Killing, Kept, Shadow
  <2>5. /\ \A d \in Clients : Asks(d)' => Asks(d)
        /\ \A d \in Clients : job'[d] = "kill" => "shadow" \notin asked'[d]
    BY <2>1 DEF ShadowInv
  <2>6. CASE KillEnds(c)
    <3>1. /\ flags'.shadow = prev /\ file' = flags' /\ Killing
          /\ promised' \subseteq promised \union asked[c] /\ job[c] = "kill"
      BY <2>6 DEF KillEnds, Save, Killing
    <3>2. "shadow" \in promised' => "shadow" \in promised
      BY <3>1 DEF ShadowInv
    <3>3. lifted' = ((lifted /\ ~prev) \/ (flags.shadow /\ ~prev /\ Wanted))
      BY <2>6, <3>1 DEF KillEnds, StillLifted
    <3>4. ASSUME ~lifted', "shadow" \in promised \/ \E d \in Clients : Asks(d)
          PROVE  prev
      <4>1. Wanted
        BY <3>4 DEF Wanted
      <4>2. CASE lifted
        BY <3>3, <3>4, <4>2
      <4>3. CASE ~lifted
        <5>1. prev \/ flags.shadow
          BY <2>2, <3>1, <3>4, <4>3 DEF ShadowInv, Kept
        <5>2. QED BY <3>3, <3>4, <4>1, <5>1
      <4>4. QED BY <4>2, <4>3
    <3>5. QED BY <2>3, <2>4, <2>5, <3>1, <3>2, <3>4 DEF ShadowInv
  <2>7. CASE KillFails(c)
    <3>1. /\ UNCHANGED <<flags, file, promised>> /\ Killing
          /\ lifted' = (lifted \/ (prev /\ ~flags.shadow /\ Wanted))
      BY <2>7 DEF KillFails, Killing
    <3>2. ASSUME ~lifted', "shadow" \in promised \/ \E d \in Clients : Asks(d)
          PROVE  flags.shadow
      <4>1. Wanted /\ ~lifted
        BY <3>1, <3>2 DEF Wanted
      <4>2. prev \/ flags.shadow
        BY <2>2, <3>1, <3>2, <4>1 DEF ShadowInv, Kept
      <4>3. QED BY <3>1, <3>2, <4>1, <4>2
    <3>3. lifted' \/ ("shadow" \in promised' => file'.shadow)
      BY <3>1 DEF ShadowInv
    <3>4. QED BY <2>3, <2>4, <2>5, <3>1, <3>2, <3>3 DEF ShadowInv
  <2>8. CASE Answer(c)
    <3>1. /\ flags' = flags /\ file' = flags /\ ~Killing
          /\ promised' = promised \union asked[c]
          /\ pc[c] = "end" /\ job[c] = "override"
      BY <2>1, <2>8 DEF Answer, Save
    <3>2. lifted' = (lifted /\ ~flags.shadow)
      BY <2>8, <3>1 DEF Answer, StillLifted
    <3>3. "shadow" \in promised' => "shadow" \in promised \/ Asks(c)
      BY <3>1
    <3>4. ASSUME ~lifted', "shadow" \in promised \/ \E d \in Clients : Asks(d)
          PROVE  flags.shadow
      <4>1. CASE lifted
        BY <3>2, <3>4, <4>1
      <4>2. CASE ~lifted
        BY <2>2, <3>1, <3>4, <4>2 DEF ShadowInv, Kept, Shadow
      <4>3. QED BY <4>1, <4>2
    <3>5. QED BY <2>3, <2>4, <2>5, <3>1, <3>3, <3>4 DEF ShadowInv
  <2>9. QED BY <1>11, <2>6, <2>7, <2>8
<1>12. CASE ShutdownBegins \/ ShutdownEnds
  <2>1. CASE ShutdownBegins
    <3>1. /\ prev' = flags.shadow /\ UNCHANGED <<file, plan, phase, job, history>>
          /\ holder = Nobody /\ pc'["main"] \in Emergency
          /\ \A t \in Tasks : t # "main" => pc'[t] = pc[t]
      BY <2>1 DEF ShutdownBegins, Lock
    <3>2. ~Killing /\ ~Killing' /\ pc["main"] \notin Emergency
      BY <3>1 DEF Killing
    <3>3. (Kept <=> flags.shadow) /\ (Kept' <=> flags.shadow)
      BY <3>1, <3>2 DEF Kept, Shadow
    <3>4. ShadowHonoured'
      BY <3>1 DEF ShadowInv, ShadowHonoured
    <3>5. \A d \in Clients : Asks(d)' => Asks(d)
      BY <3>1
    <3>6. QED BY <3>1, <3>3, <3>4, <3>5 DEF ShadowInv
  <2>2. CASE ShutdownEnds
    <3>1. /\ flags'.shadow = prev /\ UNCHANGED <<file, plan, job, history>>
          /\ pc["main"] = "seal" /\ pc'["main"] = "idle"
          /\ \A t \in Tasks : pc'[t] = pc[t] \/ pc'[t] = "idle"
          /\ \A c \in Clients : pc'[c] = pc[c]
      BY <2>2, NamesAssumption DEF ShutdownEnds, Without
    <3>2. ~Killing /\ ~Killing' /\ phase = "stopping"
      BY <3>1 DEF Killing
    <3>3. (Kept <=> prev) /\ (Kept' <=> prev)
      BY <3>1, <3>2 DEF Kept, Shadow
    <3>4. ShadowHonoured'
      BY <3>1 DEF ShadowInv, ShadowHonoured
    <3>5. \A d \in Clients : Asks(d)' => Asks(d)
      BY <3>1
    <3>6. QED BY <3>1, <3>2, <3>3, <3>4, <3>5 DEF ShadowInv
  <2>3. QED BY <1>12, <2>1, <2>2
<1>13. ASSUME NEW t \in Tasks, Refresh(t) PROVE ShadowInv'
  <2>1. Calm
    BY <1>13 DEF Refresh, Go, Calm, Killing
  <2>2. QED BY <2>1, CalmShadow
<1>14. ASSUME NEW t \in Tasks, NewToken(t) PROVE ShadowInv'
  <2>1. Calm
    BY <1>14, NamesAssumption DEF NewToken, CutStream, Without, Calm, Killing
  <2>2. QED BY <2>1, CalmShadow
<1>15. ASSUME NEW t \in Tasks, NEW s \in Streams, NewStream(t, s) PROVE ShadowInv'
  <2>1. Calm
    BY <1>15 DEF NewStream, Leave, Go, Calm, Killing
  <2>2. QED BY <2>1, CalmShadow
<1>16. ASSUME NEW t \in Tasks, Decide(t) PROVE ShadowInv'
  <2>1. /\ UNCHANGED <<flags, file, phase, prev, job, promised, asked, lifted>>
        /\ pc[t] = "decide" /\ holder = t
        /\ plan'.live = ~flags.shadow
        /\ pc'[t] \in ShedPlaces => ~flags.shadow
        /\ pc'[t] \in {"grid", "end"} \union ShedPlaces
        /\ \A u \in Tasks : u # t => pc'[u] = pc[u] /\ ~Held(u)
    BY <1>16 DEF Decide, Go, AfterGrid, ShedPlans, Mutex, Held
  <2>2. /\ pc["main"] \notin Emergency /\ pc'["main"] \notin Emergency
        /\ ~Killing /\ ~Killing' /\ phase \notin {"down", "dead"}
    BY <2>1 DEF Killing, Asleep
  <2>3. (Kept <=> flags.shadow) /\ (Kept' <=> flags.shadow)
    BY <2>1, <2>2 DEF Kept, Shadow
  <2>4. ShadowHonoured'
    BY <2>1, <2>2, <2>3 DEF ShadowInv, ShadowHonoured, Held
  <2>5. \A d \in Clients : Asks(d)' => Asks(d)
    BY <2>1
  <2>6. QED BY <2>1, <2>3, <2>4, <2>5 DEF ShadowInv
<1>17. ASSUME NEW t \in Tasks, WriteGrid(t) \/ Snapshot(t) \/ WriteShed(t)
       PROVE ShadowInv'
  <2>1. CASE WriteGrid(t)
    <3>1. /\ UNCHANGED <<flags, file, phase, prev, job, plan, history>>
          /\ pc[t] = "grid" /\ holder = t /\ pc'[t] \in ShedPlaces \union {"end"}
          /\ pc'[t] \in ShedPlaces => ~flags.shadow
          /\ \A u \in Tasks : u # t => pc'[u] = pc[u] /\ ~Held(u)
      BY <2>1 DEF WriteGrid, Go, AfterGrid, Plan, Mutex, Held
    <3>2. /\ pc["main"] \notin Emergency /\ pc'["main"] \notin Emergency
          /\ ~Killing /\ ~Killing' /\ phase \notin {"down", "dead"}
      BY <3>1 DEF Killing, Asleep
    <3>3. (Kept <=> flags.shadow) /\ (Kept' <=> flags.shadow)
      BY <3>1, <3>2 DEF Kept, Shadow
    <3>4. ShadowHonoured'
      BY <3>1, <3>2, <3>3 DEF ShadowInv, ShadowHonoured, Held
    <3>5. \A d \in Clients : Asks(d)' => Asks(d)
      BY <3>1
    <3>6. QED BY <3>1, <3>3, <3>4, <3>5 DEF ShadowInv
  <2>2. CASE Snapshot(t) \/ WriteShed(t)
    <3>1. Calm
      BY <2>2 DEF Snapshot, WriteShed, Go, Calm, Killing
    <3>2. QED BY <3>1, CalmShadow
  <2>3. QED BY <1>17, <2>1, <2>2
<1>18. ASSUME NEW t \in Tasks, Finish(t) \/ FinishFails(t) PROVE ShadowInv'
  <2>1. /\ UNCHANGED <<flags, file, prev, promised, lifted>> /\ plan' = Idle
        /\ \A c \in Clients : asked'[c] \subseteq asked[c]
        /\ phase' \notin {"down", "dead"} => phase \notin {"down", "dead"}
        /\ pc[t] = "end" /\ pc'[t] = "idle" /\ job'[t] = "none"
        /\ \A u \in Tasks : u # t => pc'[u] = pc[u] /\ job'[u] = job[u]
    BY <1>18 DEF Finish, FinishFails, Leave, Asleep
  <2>2. Calm
    BY <2>1 DEF Calm, Killing, Idle
  <2>3. QED BY <2>2, CalmShadow
<1>19. ASSUME NEW t \in Tasks, WriteMax(t) \/ BringBack(t) PROVE ShadowInv'
  <2>1. Calm
    BY <1>19 DEF WriteMax, BringBack, Go, Calm, Killing
  <2>2. QED BY <2>1, CalmShadow
<1>20. CASE UNCHANGED vars
  <2>1. Calm
    BY <1>20 DEF vars, Calm, Killing
  <2>2. QED BY <2>1, CalmShadow
<1>21. QED
  BY <1>1, <1>2, <1>3, <1>4, <1>5, <1>6, <1>7, <1>8, <1>9, <1>10, <1>11,
     <1>12, <1>13, <1>14, <1>15, <1>16, <1>17, <1>18, <1>19, <1>20, NextSplit

(* As long as the state file can be written, shadow mode that was answered *)
(* is honoured until it is asked back, across crashes, reloads,            *)
(* reconnections and shutdowns: only the kill switch undoes it, in the     *)
(* three ways that lifted marks.                                           *)
THEOREM ShadowIsHonoured ==
  ASSUME "save" \notin Faults
  PROVE  Spec => []ShadowHonoured
<1>1. Init => ShadowInv
  BY DEF Init, ShadowInv, ShadowHonoured, ShedPlaces, Asks
<1>2. TypeOK /\ Mutex /\ Asleep /\ Located /\ ShadowInv /\ [Next]_vars => ShadowInv'
  BY ShadowStep
<1>3. ShadowInv => ShadowHonoured
  BY DEF ShadowInv
<1>4. QED
  BY <1>1, <1>2, <1>3, TypeCorrect, OneAtATime, WhereMainIs, PTL DEF Spec
-----------------------------------------------------------------------------
(* The streams a reconnection has cut and those it will start: _stream_task *)
(* is one that runs, and while there is none somebody is about to make one *)
(* or there is one less than there may be.                                 *)
Rewiring == {t \in Tasks : pc[t] = "rewire"}

Known ==
  /\ current \in Streams => current \in alive
  /\ \A s \in Streams \ alive : pc[s] = "idle"

Counted ==
  /\ IsFiniteSet(alive) /\ IsFiniteSet(Rewiring)
  /\ Cardinality(alive) + Cardinality(Rewiring) <= 1 + tangles
  /\ current = Nobody /\ Rewiring = {} => Cardinality(alive) <= tangles

LEMMA KnownStep ==
  ASSUME TypeOK, Asleep, Located, Known, [Next]_vars
  PROVE  Known'
<1> USE Names, NamesAssumption
    DEF TypeOK, Asleep, Located, Known, Body, world, task, streams, history
<1>1. ASSUME NEW s \in Streams, Boot(s) \/ GridChange(s) PROVE Known'
  BY <1>1 DEF Boot, GridChange, Start
<1>2. CASE Tick
  BY <1>2 DEF Tick, Start
<1>3. CASE Shutdown
  <2>1. PICK gone \in SUBSET {"tick"} : CloseNow(gone) \/ AskForLock(gone)
    BY <1>3 DEF Shutdown
  <2>2. CASE CloseNow(gone)
    <3>1. alive' = alive \ {current} /\ current' = Nobody
      BY <2>2 DEF CloseNow
    <3>2. ASSUME NEW s \in Streams, s \notin alive' PROVE pc'[s] = "idle"
      <4>1. pc'[s] = IF s \in gone \union {current} THEN "idle" ELSE pc[s]
        BY <2>2 DEF CloseNow, Without
      <4>2. s \notin alive \/ s = current
        BY <3>1, <3>2
      <4>3. QED BY <4>1, <4>2
    <3>3. QED BY <3>1, <3>2
  <2>3. CASE AskForLock(gone)
    <3>1. UNCHANGED <<alive, current>>
      BY <2>3 DEF AskForLock
    <3>2. QED BY <1>3, <3>1, ShutdownMoves
  <2>4. QED BY <2>1, <2>2, <2>3
<1>4. CASE Exit \/ Crash
  BY <1>4 DEF Exit, Crash, AllIdle
<1>5. ASSUME NEW c \in Clients, NEW ov \in Overrides, Request(c, ov)
      PROVE Known'
  BY <1>5 DEF Request, Start
<1>6. ASSUME NEW c \in Clients, Kill(c) \/ Clear(c) PROVE Known'
  BY <1>6 DEF Kill, Clear, Start
<1>7. ASSUME NEW c \in Clients, Credentials(c) PROVE Known'
  BY <1>7 DEF Credentials, CutStream, Interrupt, Without
<1>8. ASSUME NEW c \in Clients, NEW what \in Requests, Ask(c, what)
      PROVE Known'
  BY <1>8 DEF Ask, Start
<1>9. ASSUME NEW t \in Tasks, StartCycle(t) PROVE Known'
  BY <1>9 DEF StartCycle, Lock
<1>10. ASSUME NEW c \in Clients, Reload(c) \/ Reset(c) \/ KillBegins(c)
      PROVE Known'
  BY <1>10 DEF Reload, Reset, KillBegins, Lock
<1>11. ASSUME NEW c \in Clients, KillEnds(c) \/ KillFails(c) \/ Answer(c)
      PROVE Known'
  BY <1>11 DEF KillEnds, KillFails, Answer, Leave
<1>12. CASE ShutdownBegins \/ ShutdownEnds
  BY <1>12 DEF ShutdownBegins, ShutdownEnds, Lock, Without
<1>13. ASSUME NEW t \in Tasks, Refresh(t) PROVE Known'
  BY <1>13 DEF Refresh, Go
<1>14. ASSUME NEW t \in Tasks, NewToken(t) PROVE Known'
  BY <1>14 DEF NewToken, CutStream, Interrupt, Without
<1>15. ASSUME NEW t \in Tasks, NEW s \in Streams, NewStream(t, s) PROVE Known'
  BY <1>15 DEF NewStream, Leave, Go
<1>16. ASSUME NEW t \in Tasks, Decide(t) PROVE Known'
  BY <1>16 DEF Decide, Go, AfterGrid, ShedPlans
<1>17. ASSUME NEW t \in Tasks, WriteGrid(t) \/ Snapshot(t) \/ WriteShed(t)
      PROVE Known'
  BY <1>17 DEF WriteGrid, Snapshot, WriteShed, Go, AfterGrid, Plan
<1>18. ASSUME NEW t \in Tasks, Finish(t) \/ FinishFails(t) PROVE Known'
  BY <1>18 DEF Finish, FinishFails, Leave
<1>19. ASSUME NEW t \in Tasks, WriteMax(t) \/ BringBack(t) PROVE Known'
  BY <1>19 DEF WriteMax, BringBack, Go
<1>20. CASE UNCHANGED vars
  BY <1>20 DEF vars
<1>21. QED
  BY <1>1, <1>2, <1>3, <1>4, <1>5, <1>6, <1>7, <1>8, <1>9, <1>10, <1>11,
     <1>12, <1>13, <1>14, <1>15, <1>16, <1>17, <1>18, <1>19, <1>20, NextSplit

(* A step after which nobody new reconnects and the streams are as before. *)
LEMMA QuietCount ==
  ASSUME TypeOK, Counted, UNCHANGED streams,
         \A t \in Tasks : pc'[t] = "rewire" => pc[t] = "rewire"
  PROVE  Counted'
<1>1. Rewiring' \subseteq Rewiring
  BY DEF Rewiring
<1>2. IsFiniteSet(Rewiring') /\ Cardinality(Rewiring') <= Cardinality(Rewiring)
  BY <1>1, FS_Subset DEF Counted
<1>3. /\ Cardinality(alive) \in Nat /\ Cardinality(Rewiring) \in Nat
      /\ Cardinality(Rewiring') \in Nat /\ tangles \in Nat
  BY <1>2, FS_CardinalityType DEF Counted, TypeOK
<1>4. Rewiring # {} => Cardinality(Rewiring) # 0
  BY FS_EmptySet DEF Counted
<1>5. QED BY <1>2, <1>3, <1>4 DEF Counted, streams

(* A step that cancels _stream_task for good.                              *)
LEMMA CutCount ==
  ASSUME TypeOK, Known, Counted, alive' = alive \ {current}, current' = Nobody,
         tangles' = tangles, \A t \in Tasks : pc'[t] = "rewire" => pc[t] = "rewire"
  PROVE  Counted'
<1>1. Rewiring' \subseteq Rewiring
  BY DEF Rewiring
<1>2. IsFiniteSet(Rewiring') /\ Cardinality(Rewiring') <= Cardinality(Rewiring)
  BY <1>1, FS_Subset DEF Counted
<1>3. /\ IsFiniteSet(alive')
      /\ Cardinality(alive') = IF current \in alive THEN Cardinality(alive) - 1
                               ELSE Cardinality(alive)
  BY FS_RemoveElement DEF Counted
<1>4. /\ Cardinality(alive) \in Nat /\ Cardinality(Rewiring) \in Nat
      /\ Cardinality(Rewiring') \in Nat /\ tangles \in Nat
  BY <1>2, FS_CardinalityType DEF Counted, TypeOK
<1>5. Rewiring # {} => Cardinality(Rewiring) # 0
  BY FS_EmptySet DEF Counted
<1>6. current \in alive \/ current = Nobody
  BY DEF TypeOK, Known
<1>7. Cardinality(alive') <= tangles
  BY <1>3, <1>4, <1>5, <1>6 DEF Counted
<1>8. QED BY <1>2, <1>3, <1>4, <1>7 DEF Counted

(* A reconnection begins: it cuts a stream, or it takes the place that is  *)
(* free, or it is counted as tangled.                                      *)
LEMMA TangledCount ==
  ASSUME TypeOK, Known, Counted, NEW t \in Tasks, NEW from, CutStream(t, from)
  PROVE  Counted'
<1> DEFINE cut == IF current \in Streams THEN {current} \ {t} ELSE {}
<1>1. /\ pc' = [Without(pc, cut, "idle") EXCEPT ![t] = "rewire"]
      /\ alive' = alive \ cut /\ current' = Nobody
      /\ tangles' = IF Tangled(t) THEN tangles + 1 ELSE tangles
  BY DEF CutStream
<1>2. /\ Rewiring' \subseteq Rewiring \union {t} /\ t \in Rewiring'
  BY <1>1 DEF Rewiring, Without, TypeOK
<1>3. /\ IsFiniteSet(Rewiring')
      /\ Cardinality(Rewiring') <= Cardinality(Rewiring) + 1
  <2>1. /\ IsFiniteSet(Rewiring \union {t})
        /\ Cardinality(Rewiring \union {t}) <= Cardinality(Rewiring) + 1
    <3>1. IsFiniteSet(Rewiring) /\ Cardinality(Rewiring) \in Nat
      BY FS_CardinalityType DEF Counted
    <3>2. /\ IsFiniteSet(Rewiring \union {t})
          /\ Cardinality(Rewiring \union {t}) =
               IF t \in Rewiring THEN Cardinality(Rewiring)
               ELSE Cardinality(Rewiring) + 1
      BY <3>1, FS_AddElement
    <3>3. QED BY <3>1, <3>2
  <2>2. /\ IsFiniteSet(Rewiring')
        /\ Cardinality(Rewiring') <= Cardinality(Rewiring \union {t})
    BY <1>2, <2>1, FS_Subset
  <2>3. QED BY <2>1, <2>2, FS_CardinalityType DEF Counted
<1>4. /\ IsFiniteSet(alive')
      /\ Cardinality(alive') = IF cut # {} THEN Cardinality(alive) - 1
                               ELSE Cardinality(alive)
  <2>1. CASE cut = {}
    BY <1>1, <2>1 DEF Counted
  <2>2. CASE cut # {}
    <3>1. cut = {current} /\ current \in alive
      BY <2>2 DEF Known
    <3>2. QED BY <1>1, <2>2, <3>1, FS_RemoveElement DEF Counted
  <2>3. QED BY <2>1, <2>2
<1>5. /\ Cardinality(alive) \in Nat /\ Cardinality(Rewiring) \in Nat
      /\ Cardinality(Rewiring') \in Nat /\ Cardinality(alive') \in Nat
      /\ tangles \in Nat
  BY <1>3, <1>4, FS_CardinalityType DEF Counted, TypeOK
<1>6. cut # {} \/ Tangled(t) \/ (current = Nobody /\ Rewiring = {})
  BY DEF Tangled, Rewiring, TypeOK
<1>7. Rewiring = {} => Cardinality(Rewiring) = 0
  BY FS_EmptySet
<1>8. Cardinality(alive') + Cardinality(Rewiring') <= 1 + tangles'
  <2> HIDE DEF cut
  <2>1. CASE cut # {}
    BY <1>1, <1>3, <1>4, <1>5, <2>1 DEF Counted
  <2>2. CASE cut = {} /\ Tangled(t)
    BY <1>1, <1>3, <1>4, <1>5, <2>2 DEF Counted
  <2>3. CASE cut = {} /\ ~Tangled(t)
    BY <1>1, <1>3, <1>4, <1>5, <1>6, <1>7, <2>3 DEF Counted
  <2>4. QED BY <2>1, <2>2, <2>3
<1>9. QED BY <1>2, <1>3, <1>4, <1>8 DEF Counted

LEMMA CountedStep ==
  ASSUME TypeOK, Asleep, Known, Counted, [Next]_vars
  PROVE  Counted'
<1> USE Names DEF TypeOK, world, task, history
<1>1. ASSUME NEW s \in Streams, Boot(s) \/ GridChange(s) PROVE Counted'
  <2>1. CASE Boot(s)
    <3>1. alive' = {s} /\ current' = s /\ tangles' = 0
      BY <2>1 DEF Boot
    <3>2. Rewiring' = {}
      BY <2>1 DEF Boot, Start, Asleep, Rewiring
    <3>3. /\ IsFiniteSet({s}) /\ Cardinality({s}) = 1
          /\ IsFiniteSet({}) /\ Cardinality({}) = 0
      BY FS_EmptySet, FS_Singleton
    <3>4. QED BY <3>1, <3>2, <3>3 DEF Counted
  <2>2. CASE GridChange(s)
    BY <2>2, QuietCount DEF GridChange, Start
  <2>3. QED BY <1>1, <2>1, <2>2
<1>2. CASE Tick
  BY <1>2, QuietCount DEF Tick, Start
<1>3. CASE Shutdown
  <2>1. PICK gone \in SUBSET {"tick"} : CloseNow(gone) \/ AskForLock(gone)
    BY <1>3 DEF Shutdown
  <2>2. /\ tangles' = tangles
        /\ \A t \in Tasks : pc'[t] = "rewire" => pc[t] = "rewire"
    BY <1>3, ShutdownMoves
  <2>3. CASE CloseNow(gone)
    BY <2>2, <2>3, CutCount DEF CloseNow
  <2>4. CASE AskForLock(gone)
    BY <2>2, <2>4, QuietCount DEF AskForLock, streams
  <2>5. QED BY <2>1, <2>3, <2>4
<1>4. CASE Exit \/ Crash
  <2>1. alive' = {} /\ current' = Nobody /\ tangles' = tangles /\ Rewiring' = {}
    BY <1>4 DEF Exit, Crash, AllIdle, Rewiring
  <2>2. IsFiniteSet({}) /\ Cardinality({}) = 0
    BY FS_EmptySet
  <2>3. QED BY <2>1, <2>2 DEF Counted
<1>5. ASSUME NEW c \in Clients, NEW ov \in Overrides, Request(c, ov)
      PROVE Counted'
  BY <1>5, QuietCount DEF Request, Start
<1>6. ASSUME NEW c \in Clients, Kill(c) \/ Clear(c) PROVE Counted'
  BY <1>6, QuietCount DEF Kill, Clear, Start
<1>7. ASSUME NEW c \in Clients, Credentials(c) PROVE Counted'
  BY <1>7, TangledCount DEF Credentials
<1>8. ASSUME NEW c \in Clients, NEW what \in Requests, Ask(c, what)
      PROVE Counted'
  BY <1>8, QuietCount DEF Ask, Start
<1>9. ASSUME NEW t \in Tasks, StartCycle(t) PROVE Counted'
  BY <1>9, QuietCount DEF StartCycle, Lock
<1>10. ASSUME NEW c \in Clients, Reload(c) \/ Reset(c) \/ KillBegins(c)
      PROVE Counted'
  BY <1>10, QuietCount DEF Reload, Reset, KillBegins, Lock
<1>11. ASSUME NEW c \in Clients, KillEnds(c) \/ KillFails(c) \/ Answer(c)
      PROVE Counted'
  BY <1>11, QuietCount DEF KillEnds, KillFails, Answer, Leave
<1>12. CASE ShutdownBegins \/ ShutdownEnds
  <2>1. CASE ShutdownBegins
    BY <2>1, QuietCount DEF ShutdownBegins, Lock
  <2>2. CASE ShutdownEnds
    BY <2>2, CutCount DEF ShutdownEnds, Without
  <2>3. QED BY <1>12, <2>1, <2>2
<1>13. ASSUME NEW t \in Tasks, Refresh(t) PROVE Counted'
  BY <1>13, QuietCount DEF Refresh, Go
<1>14. ASSUME NEW t \in Tasks, NewToken(t) PROVE Counted'
  BY <1>14, TangledCount DEF NewToken
<1>15. ASSUME NEW t \in Tasks, NEW s \in Streams, NewStream(t, s) PROVE Counted'
  <2>1. /\ alive' = alive \union {s} /\ s \notin alive /\ current' = s
        /\ tangles' = tangles /\ pc[t] = "rewire"
    BY <1>15 DEF NewStream
  <2>2. pc' = [pc EXCEPT ![t] = "idle"] \/ pc' = [pc EXCEPT ![t] = "decide"]
    BY <1>15 DEF NewStream, Leave, Go
  <2>3. t \in Rewiring /\ Rewiring' = Rewiring \ {t}
    BY <2>1, <2>2 DEF Rewiring
  <2>4. /\ IsFiniteSet(Rewiring') /\ Cardinality(Rewiring') = Cardinality(Rewiring) - 1
        /\ IsFiniteSet(alive') /\ Cardinality(alive') = Cardinality(alive) + 1
    BY <2>1, <2>3, FS_AddElement, FS_RemoveElement DEF Counted
  <2>5. Cardinality(alive) \in Nat /\ Cardinality(Rewiring) \in Nat
    BY FS_CardinalityType DEF Counted
  <2>6. current' # Nobody
    BY <2>1
  <2>7. QED BY <2>1, <2>4, <2>5, <2>6 DEF Counted
<1>16. ASSUME NEW t \in Tasks, Decide(t) PROVE Counted'
  BY <1>16, QuietCount DEF Decide, Go, AfterGrid, ShedPlans
<1>17. ASSUME NEW t \in Tasks, WriteGrid(t) \/ Snapshot(t) \/ WriteShed(t)
      PROVE Counted'
  BY <1>17, QuietCount DEF WriteGrid, Snapshot, WriteShed, Go, AfterGrid, Plan
<1>18. ASSUME NEW t \in Tasks, Finish(t) \/ FinishFails(t) PROVE Counted'
  BY <1>18, QuietCount DEF Finish, FinishFails, Leave
<1>19. ASSUME NEW t \in Tasks, WriteMax(t) \/ BringBack(t) PROVE Counted'
  BY <1>19, QuietCount DEF WriteMax, BringBack, Go
<1>20. CASE UNCHANGED vars
  BY <1>20, QuietCount DEF vars, streams
<1>21. QED
  BY <1>1, <1>2, <1>3, <1>4, <1>5, <1>6, <1>7, <1>8, <1>9, <1>10, <1>11,
     <1>12, <1>13, <1>14, <1>15, <1>16, <1>17, <1>18, <1>19, <1>20, NextSplit

LEMMA StreamsInv == Spec => [](Known /\ Counted)
<1>1. Init => Known /\ Counted
  <2> SUFFICES ASSUME Init PROVE Known /\ Counted
    OBVIOUS
  <2>1. alive = {} /\ Rewiring = {} /\ tangles = 0 /\ current = Nobody
    BY DEF Init, Rewiring
  <2>2. Known
    BY <2>1, Names DEF Init, Known
  <2>3. QED BY <2>1, <2>2, FS_EmptySet DEF Counted
<1>2. /\ TypeOK /\ Asleep /\ Located /\ Known /\ Counted /\ [Next]_vars
      => Known' /\ Counted'
  BY KnownStep, CountedStep
<1>3. QED
  BY <1>1, <1>2, TypeCorrect, OneAtATime, WhereMainIs, PTL DEF Spec

(* Whatever cycles, requests, cancellations and shutdowns do to the        *)
(* reconnections, for any number of them at once: there is one stream, and *)
(* at most one more for each that cut none, running in the stream itself   *)
(* or across another one.                                                  *)
THEOREM StreamsAreAccountedFor == Spec => []StreamsAccountedFor
<1>1. TypeOK /\ Counted => StreamsAccountedFor
  <2> SUFFICES ASSUME TypeOK, Counted PROVE Cardinality(alive) <= 1 + tangles
    BY DEF StreamsAccountedFor
  <2>1. Cardinality(alive) \in Nat /\ Cardinality(Rewiring) \in Nat /\ tangles \in Nat
    BY FS_CardinalityType DEF Counted, TypeOK
  <2>2. QED BY <2>1 DEF Counted
<1>2. QED
  BY <1>1, TypeCorrect, StreamsInv, PTL
-----------------------------------------------------------------------------
(* Without tangled reconnections the one stream there is is the one the    *)
(* orchestrator knows, and while it is being replaced there is none.       *)
LEMMA OneUntangled ==
  ASSUME TypeOK, Known, Counted, tangles = 0
  PROVE  /\ alive \subseteq {current}
         /\ \A t \in Tasks : pc[t] = "rewire" => alive = {} /\ t \notin Streams
<1>1. Cardinality(alive) \in Nat /\ Cardinality(Rewiring) \in Nat
  BY FS_CardinalityType DEF Counted
<1>2. /\ Cardinality(alive) = 0 <=> alive = {}
      /\ Cardinality(Rewiring) = 0 <=> Rewiring = {}
  BY FS_EmptySet DEF Counted
<1>3. ASSUME NEW t \in Tasks, pc[t] = "rewire" PROVE alive = {} /\ t \notin Streams
  <2>1. Rewiring # {}
    BY <1>3 DEF Rewiring
  <2>2. alive = {}
    BY <1>1, <1>2, <2>1 DEF Counted
  <2>3. QED BY <1>3, <2>2 DEF Known
<1>4. alive \subseteq {current}
  <2>1. CASE current = Nobody
    BY <1>1, <1>2, <2>1 DEF Counted
  <2>2. CASE current \in alive
    <3>1. Cardinality(alive) <= 1 /\ IsFiniteSet(alive)
      BY <1>1 DEF Counted
    <3>2. PICK x : alive = {x}
      BY <1>1, <1>2, <2>2, <3>1, FS_Singleton
    <3>3. QED BY <2>2, <3>2
  <2>3. QED BY <2>1, <2>2 DEF TypeOK, Known
<1>5. QED BY <1>3, <1>4

(* Shutdown, to the end of the process: what it found to be needed is what *)
(* the configuration asks for, it is the last to write, and when it is     *)
(* done nobody runs.                                                       *)
Silent(T) == \A t \in T : pc[t] = "idle"
Ending ==
  /\ phase \in {"stopping", "closing"} => Silent(Clients) /\ pc["tick"] # "wait"
  /\ phase = "stopping" =>
       /\ need # {} /\ ("failsafe" \in cfg => "max" \in need)
       /\ pc["main"] \in Emergency \union {"wait"} /\ job["main"] = "stop"
       /\ pc["main"] = "seal" /\ "max" \in need => grid = "max"
  /\ phase = "closing" /\ "failsafe" \in cfg /\ tangles = 0 =>
       alive = {} /\ Silent(Tasks) /\ grid = "max"
  /\ FailsafeStands

LEMMA EndingStep ==
  ASSUME TypeOK, Mutex, Asleep, Located, Known, Counted, Ending, [Next]_vars
  PROVE  Ending'
<1> USE Names, NamesAssumption
    DEF TypeOK, Mutex, Held, Asleep, Located, Emergency, Ending, Silent,
        Body, FailsafeStands, world, task, streams, history
<1>1. ASSUME NEW s \in Streams, Boot(s) \/ GridChange(s) PROVE Ending'
  BY <1>1 DEF Boot, GridChange, Start
<1>2. CASE Tick
  BY <1>2 DEF Tick, Start
<1>3. CASE Shutdown
  <2>1. /\ phase = "up" /\ cfg' = cfg /\ job'["main"] = "stop"
        /\ \A c \in Clients : pc'[c] = "idle"
        /\ pc'["tick"] \in {"idle", "rewire"}
    BY <1>3, ShutdownMoves
  <2>2. "failsafe" \in cfg => "max" \in need'
    BY <1>3 DEF Shutdown
  <2>3. \/ phase' = "closing" /\ need' = {}
        \/ phase' = "stopping" /\ need' # {} /\ pc'["main"] = "wait"
    BY <1>3, ShutdownMoves
  <2>4. QED BY <2>1, <2>2, <2>3
<1>4. CASE Exit \/ Crash
  BY <1>4 DEF Exit, Crash, AllIdle
<1>5. ASSUME NEW c \in Clients, NEW ov \in Overrides, Request(c, ov)
      PROVE Ending'
  BY <1>5 DEF Request, Start
<1>6. ASSUME NEW c \in Clients, Kill(c) \/ Clear(c) PROVE Ending'
  BY <1>6 DEF Kill, Clear, Start
<1>7. ASSUME NEW c \in Clients, Credentials(c) PROVE Ending'
  BY <1>7 DEF Credentials, CutStream, Interrupt, Without
<1>8. ASSUME NEW c \in Clients, NEW what \in Requests, Ask(c, what)
      PROVE Ending'
  BY <1>8 DEF Ask, Start
<1>9. ASSUME NEW t \in Tasks, StartCycle(t) PROVE Ending'
  BY <1>9 DEF StartCycle, Lock
<1>10. ASSUME NEW c \in Clients, Reload(c) \/ Reset(c) \/ KillBegins(c)
      PROVE Ending'
  BY <1>10 DEF Reload, Reset, KillBegins, Lock
<1>11. ASSUME NEW c \in Clients, KillEnds(c) \/ KillFails(c) \/ Answer(c)
      PROVE Ending'
  BY <1>11 DEF KillEnds, KillFails, Answer, Leave
<1>12. CASE ShutdownBegins \/ ShutdownEnds
  <2>1. CASE ShutdownBegins
    <3>1. /\ pc["main"] = "wait" /\ pc'["main"] = IF "bring" \in need THEN "bring" ELSE "max"
          /\ \A t \in Tasks : t # "main" => pc'[t] = pc[t]
          /\ UNCHANGED <<cfg, grid, job, phase, need, alive>>
      BY <2>1 DEF ShutdownBegins, Lock
    <3>2. phase = "stopping"
      BY <2>1, <3>1 DEF ShutdownBegins
    <3>3. QED BY <3>1, <3>2
  <2>2. CASE ShutdownEnds
    <3>1. /\ pc["main"] = "seal" /\ job["main"] = "stop" /\ phase' = "closing"
          /\ pc' = Without(pc, {"main", current}, "idle")
          /\ alive' = alive \ {current} /\ UNCHANGED <<cfg, grid>>
      BY <2>2 DEF ShutdownEnds
    <3>2. phase = "stopping" /\ Silent(Clients)' /\ pc'["tick"] # "wait"
      BY <3>1 DEF Without
    <3>3. CASE "failsafe" \in cfg /\ tangles = 0
      <4>1. grid = "max" /\ alive \subseteq {current} /\ holder = "main"
        BY <3>1, <3>2, <3>3, OneUntangled
      <4>2. pc["tick"] = "idle"
        <5>1. ~Held("tick") /\ job["tick"] # "credentials"
          BY <4>1
        <5>2. QED BY <3>2, <5>1 DEF PC
      <4>3. ASSUME NEW t \in Tasks PROVE pc'[t] = "idle"
        <5>1. pc'[t] = IF t \in {"main", current} THEN "idle" ELSE pc[t]
          BY <3>1 DEF Without
        <5>2. t \in Streams \ alive \/ t = current \/ t \in Clients \union {"tick", "main"}
          BY <4>1 DEF Tasks
        <5>3. QED BY <3>2, <4>2, <5>1, <5>2 DEF Known
      <4>4. QED BY <3>1, <3>2, <4>1, <4>3
    <3>4. CASE ~("failsafe" \in cfg /\ tangles = 0)
      <4>1. tangles' = tangles
        BY <2>2 DEF ShutdownEnds
      <4>2. QED BY <3>1, <3>2, <3>4, <4>1
    <3>5. QED BY <3>3, <3>4
  <2>3. QED BY <1>12, <2>1, <2>2
<1>13. ASSUME NEW t \in Tasks, Refresh(t) PROVE Ending'
  BY <1>13 DEF Refresh, Go
<1>14. ASSUME NEW t \in Tasks, NewToken(t) PROVE Ending'
  BY <1>14 DEF NewToken, CutStream, Interrupt, Without
<1>15. ASSUME NEW t \in Tasks, NEW s \in Streams, NewStream(t, s) PROVE Ending'
  BY <1>15 DEF NewStream, Leave, Go
<1>16. ASSUME NEW t \in Tasks, Decide(t) PROVE Ending'
  BY <1>16 DEF Decide, Go, AfterGrid, ShedPlans
<1>17. ASSUME NEW t \in Tasks, WriteGrid(t) \/ Snapshot(t) \/ WriteShed(t)
      PROVE Ending'
  <2>1. /\ pc[t] \in {"grid", "shed", "off", "restore"} /\ holder = t
        /\ pc' = [pc EXCEPT ![t] = pc'[t]]
        /\ UNCHANGED <<cfg, job, phase, need, alive, tangles>>
    BY <1>17 DEF WriteGrid, Snapshot, WriteShed, Go
  <2>2. phase = "stopping" => t # "main" /\ pc["main"] = "wait"
    BY <2>1
  <2>3. phase \in {"stopping", "closing", "down"} => t \notin Clients
    BY <2>1
  <2>4. pc'[t] # "wait"
    BY <1>17 DEF WriteGrid, Snapshot, WriteShed, Go, AfterGrid, Plan
  <2>5. phase = "closing" => ~("failsafe" \in cfg /\ tangles = 0)
    BY <2>1
  <2>6. QED BY <2>1, <2>2, <2>3, <2>4, <2>5
<1>18. ASSUME NEW t \in Tasks, Finish(t) \/ FinishFails(t) PROVE Ending'
  BY <1>18 DEF Finish, FinishFails, Leave
<1>19. ASSUME NEW t \in Tasks, WriteMax(t) \/ BringBack(t) PROVE Ending'
  BY <1>19 DEF WriteMax, BringBack, Go
<1>20. CASE UNCHANGED vars
  BY <1>20 DEF vars
<1>21. QED
  BY <1>1, <1>2, <1>3, <1>4, <1>5, <1>6, <1>7, <1>8, <1>9, <1>10, <1>11,
     <1>12, <1>13, <1>14, <1>15, <1>16, <1>17, <1>18, <1>19, <1>20, NextSplit

(* After a graceful shutdown the fail-safe stands: no cycle, kill switch,  *)
(* request, reload or reconnection, however it falls into the shutdown, a  *)
(* tick that survives its cancellation included, writes over it - unless a *)
(* tangled reconnection since the start has left a stream behind.          *)
THEOREM FailsafesStand == Spec => []FailsafeStands
<1>1. Init => Ending
  BY Names DEF Init, Ending, FailsafeStands
<1>2. /\ TypeOK /\ Mutex /\ Asleep /\ Located /\ Known /\ Counted /\ Ending
      /\ [Next]_vars
      => Ending'
  BY EndingStep
<1>3. Ending => FailsafeStands
  BY DEF Ending
<1>4. QED
  BY <1>1, <1>2, <1>3, TypeCorrect, OneAtATime, WhereMainIs, StreamsInv, PTL DEF Spec
=============================================================================
