------------------------------ MODULE MCAccess ------------------------------
(* The four parts of the HTTP surface.  They share a clock and no state, so *)
(* each behaviour runs one of them: the product would add states and no     *)
(* behaviour.                                                               *)
EXTENDS Pairing, Sessions, StatusStream, Gate

VARIABLE part

accessVars == <<pairingVars, sessionVars, streamVars, gateVars, now, part>>

NoRequest == [ingress |-> "none", fromProxy |-> FALSE, cookie |-> FALSE, bearer |-> {},
              path |-> "public", needs |-> "nothing"]
Bare == [addon |-> FALSE, trust_ingress_headers |-> FALSE,
         local |-> FALSE, api_token |-> FALSE, mcp_token |-> FALSE,
         allow_open_access |-> FALSE]

Init ==
    /\ now = 0
    /\ part \in {"pairing", "sessions", "stream", "gate"}
    /\ PairingInit /\ SessionsInit /\ StreamInit
    /\ IF part = "gate"
         THEN GateInit
         ELSE /\ settings = Bare /\ conn = NoRequest /\ session = Nobody
              /\ paired = FALSE /\ step = "arrived" /\ unlocked = FALSE

Next ==
    /\ UNCHANGED part
    /\ \/ /\ part = "pairing"
          /\ PairingNext \/ (Tick /\ UNCHANGED pairingVars)
          /\ UNCHANGED <<sessionVars, streamVars, gateVars>>
       \/ /\ part = "sessions"
          /\ SessionsNext \/ (Tick /\ UNCHANGED sessionVars)
          /\ UNCHANGED <<pairingVars, streamVars, gateVars>>
       \/ /\ part = "stream"
          /\ StreamNext
          /\ UNCHANGED <<pairingVars, sessionVars, gateVars, now>>
       \/ /\ part = "gate"
          /\ GateNext
          /\ UNCHANGED <<pairingVars, sessionVars, streamVars, now>>

Spec == Init /\ [][Next]_accessVars
          /\ \A r \in Readers : WF_accessVars(part = "stream" /\ HandlerStep(r)
                                    /\ UNCHANGED <<pairingVars, sessionVars, gateVars, now, part>>)
=============================================================================
