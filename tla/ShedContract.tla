----------------------------- MODULE ShedContract -----------------------------
(***************************************************************************)
(* What load shedding promises the owner of the loads, told without        *)
(* snapshots, files or calls: a load that is taken off is owed, an owed    *)
(* load is switched on again or given up to its owner, and a load that the *)
(* owner has off is never switched on.  About a load that something has    *)
(* happened to which the executor cannot see nothing is promised, until    *)
(* it is found on or off, with nothing pending, and promised anew.         *)
(***************************************************************************)
CONSTANT Loads

VARIABLE state   \* of each load: on, off, owed or unknown

Init == state \in [Loads -> {"on", "off"}]

Become(ls, s) == state' = [l \in Loads |-> IF l \in ls THEN s ELSE state[l]]

In(l, s) == l \in Loads /\ state[l] = s

Shed(l)    == In(l, "on") /\ Become({l}, "owed")
Restore(l) == In(l, "owed") /\ Become({l}, "on")

(* Loads that leave the configuration are their owner's to switch on.      *)
Release(ls) == (\A l \in ls : In(l, "owed")) /\ Become(ls, "off")

(* One failed write of a file may concern several loads.                   *)
Lose(ls) == Become(ls, "unknown")

Regain(l, s) == In(l, "unknown") /\ Become({l}, s)

Next ==
  \/ \E l \in Loads : Shed(l) \/ Restore(l)
  \/ \E ls \in SUBSET Loads : Release(ls) \/ Lose(ls)
  \/ \E l \in Loads, s \in {"on", "off"} : Regain(l, s)

Spec == Init /\ [][Next]_state
=============================================================================
