---------------------------- MODULE StatusStream ----------------------------
(***************************************************************************)
(* Live status (broadcast.py, api/ws.py): the control loop and the         *)
(* collector change the status and broadcast it; each dashboard on /ws has *)
(* a queue of bounded length and a handler that sends what it finds there. *)
(* A broadcast never waits: a full queue gives up its oldest entry.  The   *)
(* handler learns that its dashboard is gone only when a send fails, which *)
(* the ping after 30 s of silence makes sure of.                           *)
(***************************************************************************)
EXTENDS Naturals, Sequences

CONSTANTS
    Readers,     \* dashboards
    QueueSize,   \* maxsize of a subscriber's queue
    MaxStatus    \* bound of the model: changes of the status

ASSUME StreamAssumption == QueueSize \in Nat \ {0} /\ MaxStatus \in Nat

VARIABLES
    status,        \* the version of the status build_status() would return
    published,     \* the version broadcast last
    subscribers,   \* _subscribers
    queue,         \* the queue of each reader
    phase,         \* where the handler of each reader is
    item,          \* the status the handler is sending
    open,          \* whether the dashboard still listens
    shown          \* the version the dashboard shows

streamVars == <<status, published, subscribers, queue, phase, item, open, shown>>

StreamInit ==
    /\ status = 0
    /\ published = 0
    /\ subscribers = {}
    /\ queue = [r \in Readers |-> <<>>]
    /\ phase = [r \in Readers |-> "none"]
    /\ item = [r \in Readers |-> 0]
    /\ open = [r \in Readers |-> FALSE]
    /\ shown = [r \in Readers |-> 0]

(* A sample, a decision or an override: what build_status() reads. *)
StatusChanges ==
    /\ status < MaxStatus
    /\ status' = status + 1
    /\ UNCHANGED <<published, subscribers, queue, phase, item, open, shown>>

(* Mutant of Push: a full queue drops the new status. *)
Push_DropsNew(q, v) == IF Len(q) = QueueSize THEN q ELSE Append(q, v)

(* A full queue drops its oldest status for the new one. *)
Push(q, v) == Append(IF Len(q) = QueueSize THEN Tail(q) ELSE q, v)

Broadcast ==
    /\ subscribers # {}
    /\ published' = status
    /\ queue' = [r \in Readers |->
                   IF r \in subscribers THEN Push(queue[r], status) ELSE queue[r]]
    /\ UNCHANGED <<status, subscribers, phase, item, open, shown>>

(* The upgrade: subscribed first, then the snapshot of this moment built. *)
Connect(r) ==
    /\ phase[r] = "none"
    /\ ~open[r]
    /\ open' = [open EXCEPT ![r] = TRUE]
    /\ shown' = [shown EXCEPT ![r] = 0]
    /\ subscribers' = subscribers \cup {r}
    /\ queue' = [queue EXCEPT ![r] = <<>>]
    /\ item' = [item EXCEPT ![r] = status]
    /\ phase' = [phase EXCEPT ![r] = "greeting"]
    /\ UNCHANGED <<status, published>>

(* Mutant of Greeting: the snapshot is built again when it is sent. *)
Greeting_Rebuilt(r) == status

(* What is sent first: the snapshot built when the handler started. *)
Greeting(r) == item[r]

(* The first send: whatever goes wrong with it is suppressed. *)
Greet(r) ==
    /\ phase[r] = "greeting"
    /\ shown' = IF open[r] THEN [shown EXCEPT ![r] = Greeting(r)] ELSE shown
    /\ phase' = [phase EXCEPT ![r] = "waiting"]
    /\ UNCHANGED <<status, published, subscribers, queue, item, open>>

Take(r) ==
    /\ phase[r] = "waiting"
    /\ queue[r] # <<>>
    /\ item' = [item EXCEPT ![r] = Head(queue[r])]
    /\ queue' = [queue EXCEPT ![r] = Tail(queue[r])]
    /\ phase' = [phase EXCEPT ![r] = "sending"]
    /\ UNCHANGED <<status, published, subscribers, open, shown>>

Deliver(r) ==
    /\ phase[r] = "sending"
    /\ open[r]
    /\ shown' = [shown EXCEPT ![r] = item[r]]
    /\ phase' = [phase EXCEPT ![r] = "waiting"]
    /\ UNCHANGED <<status, published, subscribers, queue, item, open>>

(* Every way out of the handler's loop goes through its finally. *)
EndHandler(r) ==
    /\ phase' = [phase EXCEPT ![r] = "none"]
    /\ subscribers' = subscribers \ {r}
    /\ UNCHANGED <<status, published, queue, item, open, shown>>

DeliverFails(r) == phase[r] = "sending" /\ ~open[r] /\ EndHandler(r)

(* 30 s without a status: the ping finds the dashboard gone. *)
PingFails(r) == phase[r] = "waiting" /\ queue[r] = <<>> /\ ~open[r] /\ EndHandler(r)

Leaves(r) ==
    /\ open[r]
    /\ open' = [open EXCEPT ![r] = FALSE]
    /\ UNCHANGED <<status, published, subscribers, queue, phase, item, shown>>

HandlerStep(r) == Greet(r) \/ Take(r) \/ Deliver(r) \/ DeliverFails(r) \/ PingFails(r)

StreamNext ==
    \/ StatusChanges
    \/ Broadcast
    \/ \E r \in Readers : Connect(r) \/ HandlerStep(r) \/ Leaves(r)

(* The event loop runs every handler that can go on. *)
StreamFairness == \A r \in Readers : WF_streamVars(HandlerStep(r))

StreamSpec == StreamInit /\ [][StreamNext]_streamVars /\ StreamFairness

-----------------------------------------------------------------------------
StreamTypeOK ==
    /\ status \in 0 .. MaxStatus /\ published \in 0 .. MaxStatus
    /\ subscribers \subseteq Readers
    /\ \A r \in Readers :
          /\ Len(queue[r]) <= QueueSize
          /\ \A k \in 1 .. Len(queue[r]) : queue[r][k] \in 0 .. MaxStatus
          /\ phase[r] \in {"none", "greeting", "waiting", "sending"}
          /\ item[r] \in 0 .. MaxStatus /\ shown[r] \in 0 .. MaxStatus

(* A dashboard never goes back to an older status: not from the greeting   *)
(* to a broadcast queued while it was sent, and not over entries dropped.  *)
NeverOlder ==
    [][\A r \in Readers : open[r] /\ open'[r] => shown'[r] >= shown[r]]_streamVars

(* A dashboard that stays catches up with what was broadcast, however slow *)
(* it is and however much its queue drops: the newest entry is never the   *)
(* one given up (the bound on changes makes the broadcasts quiet at last). *)
(* One that leaves is taken off the list of those broadcast to.            *)
ReadersServed ==
    \A r \in Readers :
       /\ []<>(open[r] => shown[r] >= published)
       /\ []<>(open[r] \/ r \notin subscribers)
=============================================================================
