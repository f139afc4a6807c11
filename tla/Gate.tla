-------------------------------- MODULE Gate --------------------------------
(***************************************************************************)
(* Who a request is and what it may do (api/session.py, api/auth.py).      *)
(*                                                                         *)
(* The outer middleware resolves the caller once, from several kinds of    *)
(* credentials in a fixed order; the inner one asks whether the path is    *)
(* gated; the handler may ask for a session or for an administrator.  Each *)
(* of the three looks at the settings again, and at the paired clients,    *)
(* which may come and go between the steps of one request.                 *)
(***************************************************************************)
EXTENDS Naturals

VARIABLES
    settings,  \* which credentials the deployment configures
    conn,      \* the request: what it carries, where it goes
    paired,    \* has_paired_clients, read anew each time
    session,   \* the session the middleware attached
    step,      \* how far the request got
    unlocked   \* history: whether nothing was configured at one of the looks

gateVars == <<settings, conn, paired, session, step, unlocked>>

(* addon stands for a supervisor token. *)
Settings == [addon : BOOLEAN, trust_ingress_headers : BOOLEAN,
             local : BOOLEAN, api_token : BOOLEAN, mcp_token : BOOLEAN,
             allow_open_access : BOOLEAN]

(* fromProxy: the peer is one of trusted_proxy_ips.                        *)
(* cookie: a session cookie that is still good, from a time when there was *)
(* a local password or from now; the code does not ask which.              *)
(* bearer is the set of the deployment's secrets that the token equals:    *)
(* API_TOKEN and MCP_TOKEN may have been given the same value.             *)
Conns == [ingress : {"none", "listed", "other"}, fromProxy : BOOLEAN,
          cookie : BOOLEAN,
          bearer : {{}, {"supervisor"}, {"api"}, {"mcp"}, {"api", "mcp"}, {"client"}},
          path : {"public", "docs", "api", "ui"},
          needs : {"nothing", "session", "admin"}]

IngressTrusted == settings.addon \/ settings.trust_ingress_headers

Mode(mode, admin) == [mode |-> mode, admin |-> admin]
Nobody == Mode("none", FALSE)
Authenticated == session.mode # "none"

ingress_headers_allowed == settings.addon \/ conn.fromProxy

credentials_configured ==
    settings.local \/ settings.api_token \/ settings.mcp_token \/ paired

has_auth_lock == IngressTrusted \/ credentials_configured

(* The first secret the token equals, in the code's order. *)
_match_provided_token ==
    IF settings.addon /\ "supervisor" \in conn.bearer THEN Mode("supervisor", TRUE)
    ELSE IF settings.api_token /\ "api" \in conn.bearer THEN Mode("token", TRUE)
    ELSE IF settings.mcp_token /\ "mcp" \in conn.bearer THEN Mode("mcp", FALSE)
    ELSE IF paired /\ "client" \in conn.bearer THEN Mode("client", TRUE)
    ELSE Nobody

open_session ==
    IF settings.allow_open_access /\ ~has_auth_lock THEN Mode("open", TRUE) ELSE Nobody

(* admin: what the HA admin lookup says of an ingress user not listed;     *)
(* a lookup that fails says no.                                            *)
resolve_session(admin) ==
    CASE IngressTrusted /\ conn.ingress # "none" /\ ingress_headers_allowed ->
            Mode("ingress", conn.ingress = "listed" \/ admin)
      [] OTHER ->
            IF conn.cookie THEN Mode("local", TRUE)
            ELSE IF _match_provided_token # Nobody THEN _match_provided_token
            ELSE open_session

(* Mutant of requires_auth_gate: only paired clients turn the gate on. *)
requires_auth_gate_PairedOnly ==
    /\ paired
    /\ conn.path \in {"docs", "api"}

(* Once any credential is configured, the API and its documentation ask    *)
(* for one.                                                                *)
requires_auth_gate ==
    /\ credentials_configured
    /\ conn.path \in {"docs", "api"}

-----------------------------------------------------------------------------
GateInit ==
    /\ settings \in Settings
    /\ conn \in Conns
    /\ conn.path \in {"public", "ui"} => conn.needs = "nothing"
    /\ conn.fromProxy => conn.ingress # "none"
    /\ paired \in BOOLEAN
    /\ session = Nobody
    /\ step = "arrived"
    /\ unlocked = FALSE

UserContext ==
    /\ step = "arrived"
    /\ \E admin \in BOOLEAN : session' = resolve_session(admin)
    /\ step' = "resolved"
    /\ unlocked' = ~credentials_configured
    /\ UNCHANGED <<settings, conn, paired>>

AuthGate ==
    /\ step = "resolved"
    /\ step' = IF requires_auth_gate /\ (~Authenticated \/ session.mode = "mcp")
                 THEN "refused" ELSE "admitted"
    /\ unlocked' = (unlocked \/ ~credentials_configured)
    /\ UNCHANGED <<settings, conn, paired, session>>

(* require_authenticated and require_admin, where the handler has them. *)
Handle ==
    /\ step = "admitted"
    /\ step' = IF \/ conn.needs # "nothing" /\ (~Authenticated \/ session.mode = "mcp")
                  \/ conn.needs = "admin" /\ ~session.admin
                 THEN "refused" ELSE "handled"
    /\ UNCHANGED <<settings, conn, paired, session, unlocked>>

PairingChanges ==
    /\ step \in {"arrived", "resolved"}
    /\ paired' = ~paired
    /\ UNCHANGED <<settings, conn, session, step, unlocked>>

GateNext == UserContext \/ AuthGate \/ Handle \/ PairingChanges

GateSpec == GateInit /\ [][GateNext]_gateVars

-----------------------------------------------------------------------------
GateTypeOK ==
    /\ settings \in Settings /\ conn \in Conns
    /\ session.mode \in {"ingress", "local", "token", "client", "supervisor", "mcp",
                         "open", "none"}
    /\ step \in {"arrived", "resolved", "admitted", "refused", "handled"}

Sees(path) == step = "handled" /\ conn.path = path

(* The agent's token drives the MCP server only: with nothing else to show,*)
(* it reaches no handler of the REST API or the docs, whatever else the    *)
(* deployment configures and whether the handler asks for a session or not.*)
(* Whoever reaches the API without having shown a credential did so while  *)
(* none was configured, and without a session reaches only what asks for   *)
(* none: clients paired in the middle of one request close the API for the *)
(* requests that follow.                                                   *)
GateHolds ==
    /\ GateTypeOK
    /\ session.mode = "mcp" => ~Sees("api") /\ ~Sees("docs")
    /\ Sees("api") /\ session.mode \in {"open", "none"}
         => unlocked /\ (session.mode = "none" => conn.needs = "nothing")
=============================================================================
