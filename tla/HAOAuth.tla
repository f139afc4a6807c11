------------------------------ MODULE HAOAuth -------------------------------
(***************************************************************************)
(* The tokens for Home Assistant (ha/oauth.py, api/ha_oauth_routes.py and  *)
(* the orchestrator's refresh and reconnect): an administrator authorises  *)
(* the program over IndieAuth, each control cycle refreshes an expired     *)
(* access token, and every change of the token rebuilds the HA client.     *)
(* Each of these reads the token file, awaits the hub, and writes the file *)
(* it read; no lock is shared between the cycle and the routes.            *)
(*                                                                         *)
(* Access tokens are numbered as the hub issues them.  The client's margin *)
(* on expires_at is abstracted: program and hub call a token expired at    *)
(* the same moment.                                                        *)
(***************************************************************************)
EXTENDS Naturals, Sequences

CONSTANTS Grants,        \* authorisations an administrator may start, by their state
          NoGrant,
          Cycle, Admin,  \* who may rebuild the client, besides a callback
          MaxIssued,     \* bound on access tokens
          MaxFaults      \* bound on outages, server errors, retries and restarts

ASSUME OAuthAssumption ==
    /\ NoGrant \notin Grants /\ Cycle # Admin /\ {Cycle, Admin} \cap Grants = {}
    /\ MaxIssued \in Nat /\ MaxFaults \in Nat

Actors == Grants \cup {Cycle, Admin}

VARIABLES
    hub,        \* does Home Assistant answer?
    issued,     \* the grant of each access token the hub has issued
    expired,    \* the tokens numbered up to this one have expired
    live,       \* grants the hub has given and not revoked
    codes,      \* authorisation codes the hub has redeemed
    file,       \* ha_oauth.json
    pending,    \* ha_oauth_pending.json: its state, and whether its ten minutes are over
    started,    \* states start_authorize has drawn
    cyc,        \* the refresh of the control cycle
    cb,         \* grant -> the callback that redeems it, and the token it was given
    rec,        \* actor -> its _reconnect_ha
    tok,        \* the token the HA client was built with: a number, 0 for HA_TOKEN or none
    newest,     \* history: the grant the administrator last obtained, none once disconnected
    crossed,    \* history: a refresh was under way when tokens were obtained or cleared
    strayed,    \* history: two reconnects ran at once, or the refresh gave the stored
                \* token up, and no reconnect has put the client right since
    faults

vars == <<hub, issued, expired, live, codes, file, pending, started, cyc, cb, rec, tok,
          newest, crossed, strayed, faults>>
hubVars == <<hub, issued, expired, live, codes, faults>>
fileVars == <<file, pending, started>>
historyVars == <<newest, crossed, strayed>>

NoFile == [grant |-> NoGrant, access |-> 0, degraded |-> FALSE]
NoAuthorization == [state |-> NoGrant, expired |-> FALSE]
Idle == [pc |-> "idle", data |-> NoFile, answer |-> "none"]
NoCallback == [pc |-> "idle", tok |-> 0]
NotRebuilding == [pc |-> "idle", tok |-> 0]

Tokens == 0..MaxIssued
Stale(k) == k <= expired                  \* expires_at has passed

\* _resolve_ha for a standalone deployment: the stored token unless degraded,
\* else HA_TOKEN (0).
_resolve_ha(f) == IF f # NoFile /\ ~f.degraded THEN f.access ELSE 0

Init ==
    /\ hub = "up" /\ issued = <<>> /\ expired = 0 /\ live = {} /\ codes = {}
    /\ file = NoFile /\ pending = NoAuthorization /\ started = {}
    /\ cyc = Idle /\ cb = [g \in Grants |-> NoCallback]
    /\ rec = [a \in Actors |-> NotRebuilding] /\ tok = 0
    /\ newest = NoGrant /\ crossed = FALSE /\ strayed = FALSE /\ faults = 0

Refreshing == cyc.pc # "idle"
Rebuilding == {a \in Actors : rec[a].pc # "idle"}

-----------------------------------------------------------------------------
(* _reconnect_ha: the credentials are resolved first, the client is built   *)
(* after the old stream task has ended.                                     *)

\* The call, as part of its caller's step on a token file that is now f.
Reconnect(a, f) ==
    /\ rec' = [rec EXCEPT ![a] = [pc |-> "resolved", tok |-> _resolve_ha(f)]]
    /\ strayed' = (strayed \/ Rebuilding # {})

BuildClient(a) ==
    /\ rec[a].pc = "resolved"
    /\ tok' = rec[a].tok
    /\ rec' = [rec EXCEPT ![a] = NotRebuilding]
    /\ strayed' = (strayed /\ (Rebuilding # {a} \/ rec[a].tok # _resolve_ha(file)))
    /\ UNCHANGED <<hubVars, fileVars, cyc, cb, newest, crossed>>

-----------------------------------------------------------------------------
(* IndieAuth: start, callback, disconnect.                                  *)

\* POST /start: a new state replaces the pending one.
start_authorize(g) ==
    /\ g \notin started
    /\ started' = started \cup {g}
    /\ pending' = [state |-> g, expired |-> FALSE]
    /\ UNCHANGED <<hubVars, file, cyc, cb, rec, tok, historyVars>>

\* GET /callback with the state g: pending must match and be in time.
CallbackSends(g) ==
    /\ g \in started /\ cb[g] = NoCallback
    /\ pending.state = g /\ ~pending.expired
    /\ cb' = [cb EXCEPT ![g].pc = "asking"]
    /\ UNCHANGED <<hubVars, fileVars, cyc, rec, tok, historyVars>>

CallbackTooLate(g) ==
    /\ pending = [state |-> g, expired |-> TRUE]
    /\ pending' = NoAuthorization
    /\ UNCHANGED <<hubVars, file, started, cyc, cb, rec, tok, historyVars>>

\* The hub redeems a code once.
HubRedeems(g) ==
    /\ cb[g].pc = "asking" /\ hub = "up" /\ g \notin codes
    /\ Len(issued) < MaxIssued
    /\ codes' = codes \cup {g} /\ live' = live \cup {g}
    /\ issued' = Append(issued, g)
    /\ cb' = [cb EXCEPT ![g] = [pc |-> "answered", tok |-> Len(issued) + 1]]
    /\ UNCHANGED <<hub, expired, faults, fileVars, cyc, rec, tok, historyVars>>

\* Unreachable, or the code was used before: OAuthError, nothing changes.
CallbackFails(g) ==
    /\ cb[g].pc = "asking" /\ (hub # "up" \/ g \in codes)
    /\ cb' = [cb EXCEPT ![g] = NoCallback]
    /\ UNCHANGED <<hubVars, fileVars, cyc, rec, tok, historyVars>>

\* Write the tokens, drop whatever is pending by now, rebuild the client.
finish_authorize(g) ==
    /\ cb[g].pc = "answered" /\ rec[g].pc = "idle"
    /\ file' = [grant |-> g, access |-> cb[g].tok, degraded |-> FALSE]
    /\ pending' = NoAuthorization
    /\ cb' = [cb EXCEPT ![g] = NoCallback]
    /\ Reconnect(g, file')
    /\ newest' = g /\ crossed' = Refreshing
    /\ UNCHANGED <<hubVars, started, cyc, tok>>

\* DELETE /disconnect: both files go, and the client is rebuilt.
Disconnect ==
    /\ rec[Admin].pc = "idle" /\ file # NoFile
    /\ file' = NoFile /\ pending' = NoAuthorization
    /\ Reconnect(Admin, NoFile)
    /\ newest' = NoGrant /\ crossed' = Refreshing
    /\ UNCHANGED <<hubVars, started, cyc, cb, tok>>

\* POST /api/ha/retry: rebuild from the files.
retry_ha_connection ==
    /\ rec[Admin].pc = "idle" /\ faults < MaxFaults
    /\ faults' = faults + 1
    /\ Reconnect(Admin, file)
    /\ UNCHANGED <<hub, issued, expired, live, codes, fileVars, cyc, cb, tok, newest,
                   crossed>>

-----------------------------------------------------------------------------
(* ensure_access_token, which each control cycle calls under the cycle lock.*)

\* Mutant of RefreshSends: degraded tokens are not refreshed any more.
RefreshSends_UnlessDegraded ==
    /\ cyc.pc = "idle" /\ rec[Cycle].pc = "idle"
    /\ file # NoFile /\ Stale(file.access) /\ ~file.degraded
    /\ cyc' = [pc |-> "asking", data |-> file, answer |-> "none"]
    /\ UNCHANGED <<hubVars, fileVars, cb, rec, tok, historyVars>>

RefreshSends ==
    /\ cyc.pc = "idle" /\ rec[Cycle].pc = "idle"
    /\ file # NoFile /\ Stale(file.access)
    /\ cyc' = [pc |-> "asking", data |-> file, answer |-> "none"]
    /\ UNCHANGED <<hubVars, fileVars, cb, rec, tok, historyVars>>

\* The hub answers: a new access token for a live grant, 400 for a revoked one,
\* or an error of its own.
RefreshGranted ==
    /\ cyc.pc = "asking" /\ hub = "up" /\ cyc.data.grant \in live
    /\ Len(issued) < MaxIssued
    /\ issued' = Append(issued, cyc.data.grant)
    /\ cyc' = [cyc EXCEPT !.pc = "answered", !.answer = "token",
                          !.data.access = Len(issued) + 1, !.data.degraded = FALSE]
    /\ UNCHANGED <<hub, expired, live, codes, faults, fileVars, cb, rec, tok, historyVars>>

RefreshRejected ==
    /\ cyc.pc = "asking" /\ hub = "up" /\ cyc.data.grant \notin live
    /\ cyc' = [cyc EXCEPT !.pc = "answered", !.answer = "invalid_grant"]
    /\ UNCHANGED <<hubVars, fileVars, cb, rec, tok, historyVars>>

RefreshErrors ==
    /\ cyc.pc = "asking" /\ hub = "up" /\ faults < MaxFaults
    /\ faults' = faults + 1
    /\ cyc' = [cyc EXCEPT !.pc = "answered", !.answer = "server_error"]
    /\ UNCHANGED <<hub, issued, expired, live, codes, fileVars, cb, rec, tok, historyVars>>

\* A network error: the old token is returned, so nothing changes.
RefreshUnreachable ==
    /\ cyc.pc = "asking" /\ hub # "up"
    /\ cyc' = Idle
    /\ UNCHANGED <<hubVars, fileVars, cb, rec, tok, historyVars>>

\* Mutant of RefreshStores: the answer is applied to the file as it is by now.
RefreshStores_OnCurrent ==
    /\ cyc.pc = "answered" /\ cyc.answer = "token"
    /\ file' = [file EXCEPT !.access = cyc.data.access, !.degraded = FALSE]
    /\ Reconnect(Cycle, file')
    /\ cyc' = Idle
    /\ UNCHANGED <<hubVars, pending, started, cb, tok, newest, crossed>>

\* The answer is applied to the data read before the request, and the whole
\* file written back; only a new token rebuilds the client.
RefreshStores ==
    /\ cyc.pc = "answered" /\ cyc.answer = "token"
    /\ file' = cyc.data
    /\ Reconnect(Cycle, file')
    /\ cyc' = Idle
    /\ UNCHANGED <<hubVars, pending, started, cb, tok, newest, crossed>>

\* 400 or 401: clear_oauth, which drops a pending authorisation too; the client
\* keeps the token it has.
RefreshClears ==
    /\ cyc.pc = "answered" /\ cyc.answer = "invalid_grant"
    /\ file' = NoFile /\ pending' = NoAuthorization /\ cyc' = Idle
    /\ newest' = NoGrant /\ strayed' = TRUE
    /\ UNCHANGED <<hubVars, started, cb, rec, tok, crossed>>

RefreshDegrades ==
    /\ cyc.pc = "answered" /\ cyc.answer = "server_error"
    /\ file' = [cyc.data EXCEPT !.degraded = TRUE] /\ cyc' = Idle
    /\ strayed' = TRUE
    /\ UNCHANGED <<hubVars, pending, started, cb, rec, tok, newest, crossed>>

-----------------------------------------------------------------------------
(* The hub, time, and restarts.                                             *)

HubChanges ==
    /\ faults < MaxFaults \/ hub = "down"
    /\ hub' = IF hub = "up" THEN "down" ELSE "up"
    /\ faults' = IF hub = "up" THEN faults + 1 ELSE faults
    /\ UNCHANGED <<issued, expired, live, codes, fileVars, cyc, cb, rec, tok, historyVars>>

TokenExpires ==
    /\ expired < Len(issued)
    /\ expired' = Len(issued)
    /\ UNCHANGED <<hub, issued, live, codes, faults, fileVars, cyc, cb, rec, tok, historyVars>>

PendingExpires ==
    /\ pending # NoAuthorization /\ ~pending.expired
    /\ pending' = [pending EXCEPT !.expired = TRUE]
    /\ UNCHANGED <<hubVars, file, started, cyc, cb, rec, tok, historyVars>>

HubRevokes(g) ==
    /\ g \in live
    /\ live' = live \ {g}
    /\ UNCHANGED <<hub, issued, expired, codes, faults, fileVars, cyc, cb, rec, tok, historyVars>>

\* The files are written atomically, the rest is gone; the constructor resolves.
CrashRestart ==
    /\ faults < MaxFaults /\ faults' = faults + 1
    /\ cyc' = Idle /\ cb' = [g \in Grants |-> NoCallback]
    /\ rec' = [a \in Actors |-> NotRebuilding] /\ tok' = _resolve_ha(file)
    /\ crossed' = FALSE /\ strayed' = FALSE /\ newest' = file.grant
    /\ UNCHANGED <<hub, issued, expired, live, codes, fileVars>>

CycleStep ==
    \/ RefreshSends \/ RefreshGranted \/ RefreshRejected \/ RefreshErrors
    \/ RefreshUnreachable \/ RefreshStores \/ RefreshClears \/ RefreshDegrades

CallbackStep(g) ==
    CallbackSends(g) \/ CallbackTooLate(g) \/ HubRedeems(g) \/ CallbackFails(g) \/ finish_authorize(g)

Next ==
    \/ CycleStep
    \/ \E g \in Grants : start_authorize(g) \/ CallbackStep(g) \/ HubRevokes(g)
    \/ \E a \in Actors : BuildClient(a)
    \/ Disconnect \/ retry_ha_connection
    \/ HubChanges \/ TokenExpires \/ PendingExpires \/ CrashRestart

\* The scheduler repeats the cycle, and a reconnect under way ends.
Fairness == WF_vars(CycleStep) /\ \A a \in Actors : WF_vars(BuildClient(a))

Spec == Init /\ [][Next]_vars /\ Fairness

-----------------------------------------------------------------------------
TypeOK ==
    LET Files == [grant : Grants \cup {NoGrant}, access : Tokens, degraded : BOOLEAN] IN
    /\ hub \in {"up", "down"} /\ issued \in Seq(Grants) /\ Len(issued) <= MaxIssued
    /\ expired \in Tokens /\ live \subseteq Grants /\ codes \subseteq Grants
    /\ file \in Files /\ started \subseteq Grants
    /\ pending \in [state : Grants \cup {NoGrant}, expired : BOOLEAN]
    /\ cyc \in [pc : {"idle", "asking", "answered"}, data : Files,
                answer : {"none", "token", "invalid_grant", "server_error"}]
    /\ cb \in [Grants -> [pc : {"idle", "asking", "answered"}, tok : Tokens]]
    /\ rec \in [Actors -> [pc : {"idle", "resolved"}, tok : Tokens]]
    /\ tok \in Tokens /\ newest \in Grants \cup {NoGrant}
    /\ crossed \in BOOLEAN /\ strayed \in BOOLEAN /\ faults \in 0..MaxFaults

\* The access token and the refresh token in the file are of one authorisation,
\* whatever refresh, callback and disconnect did to the file in between: an
\* answer is joined with the refresh token it was asked with.
TokensOfOneGrant == file # NoFile => issued[file.access] = file.grant

\* The file holds the authorisation the administrator obtained last, and none
\* after a disconnect, unless a refresh was awaiting the hub at that moment: then
\* the refresh may bring the older tokens back (oauth.py:390).
NewestGrantIsKept == ~crossed => file.grant = newest

\* With no reconnect under way the client speaks with the token that _resolve_ha
\* finds, unless the refresh gave the stored token up without a reconnect or two
\* reconnects ran at once, the one that resolved first building last.
ClientUsesStoredToken ==
    Rebuilding = {} /\ ~strayed => tok = _resolve_ha(file)

\* The token file, the administrator's last word and the client agree.
TokensAgree == TypeOK /\ TokensOfOneGrant /\ NewestGrantIsKept /\ ClientUsesStoredToken

\* A stored token that has expired is renewed or dropped in the end, once the hub
\* stays up, whatever outages and server errors came before; it cannot stay in
\* the file, expired, for good.
ExpiredIsRenewed ==
    <>[](hub = "up") => []<>(file = NoFile \/ ~Stale(file.access) \/ Len(issued) = MaxIssued)
=============================================================================
