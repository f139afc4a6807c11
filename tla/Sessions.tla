------------------------------ MODULE Sessions ------------------------------
(***************************************************************************)
(* Local sessions (api/session.py, auth_routes.py, login_rate_limit.py)    *)
(* and the tickets of WebSocket upgrades (ws_tickets.py).                  *)
(*                                                                         *)
(* A login is a signed cookie that says when it ends; it is stored nowhere.*)
(* A logout is remembered, by the cookie's id and until its end, in a      *)
(* dictionary that is pruned whenever it is used.  A request for a ticket  *)
(* is resolved by the middleware and answered by the handler, which reads  *)
(* the cookie a second time; a logout may fall between the two.  Revoked   *)
(* ids, tickets and counted failures are in memory, the key that signs     *)
(* cookies is on disk.                                                     *)
(***************************************************************************)
EXTENDS AccessClock, Sequences, FiniteSets, SequencesExt

CONSTANTS
    Origins,        \* addresses of browsers
    SessionTTL,     \* session_ttl_hours
    TicketTTL,      \* _TICKET_TTL_SECONDS
    MaxFailures,    \* MAX_FAILURES
    FailureWindow,  \* WINDOW_SECONDS
    MaxSessions,    \* bound of the model: logins
    MaxTickets      \* bound of the model: tickets

ASSUME SessionsAssumption ==
    MaxNow \in Nat /\ SessionTTL \in Nat /\ TicketTTL \in Nat

VARIABLES
    cookies,      \* the end of each session that was handed out, by its jti
    revokedJtis,  \* _REVOKED_JTIS
    tickets,      \* _tickets
    asking,       \* ticket requests the middleware has resolved
    failures,     \* _failures, by address
    given,        \* history: how many tickets there were
    used,         \* history: the tickets that opened a WebSocket, with the moment,
                  \*   whether the session that asked had logged out by then (over)
                  \*   and whether already when the ticket was made (late)
    out           \* history: sessions logged out since the process started

sessionVars == <<cookies, revokedJtis, tickets, asking, failures, given, used, out>>

SessionsInit ==
    /\ cookies = <<>>
    /\ revokedJtis = {}
    /\ tickets = {}
    /\ asking = {}
    /\ failures = [o \in Origins |-> <<>>]
    /\ given = 0
    /\ used = <<>>
    /\ out = {}

Jtis == 1 .. Len(cookies)
NoJti == 0       \* a caller without a local cookie, such as a token

_purge_revoked_jtis == {r \in revokedJtis : r.exp > now}

(* Mutant of IsRevoked: a logout is not looked up. *)
IsRevoked_Never(jti) == FALSE

(* _is_revoked: the session has logged out and would still run. *)
IsRevoked(jti) == \E r \in _purge_revoked_jtis : r.jti = jti

(* _decode_cookie: still running and not logged out. *)
Accepted(jti) == cookies[jti] >= now /\ ~IsRevoked(jti)

-----------------------------------------------------------------------------
(* Logging in, with its limit on failures from one address.                *)

Prune(times) == SelectSeq(times, LAMBDA t : t > now - FailureWindow)
LoginAllowed(o) == Len(Prune(failures[o])) < MaxFailures

LoginFails(o) ==
    /\ LoginAllowed(o)
    /\ failures' = [failures EXCEPT ![o] = Append(Prune(@), now)]
    /\ UNCHANGED <<cookies, revokedJtis, tickets, asking, given, used, out, now>>

LoginRefused(o) ==
    /\ ~LoginAllowed(o)
    /\ failures' = [failures EXCEPT ![o] = Prune(@)]
    /\ UNCHANGED <<cookies, revokedJtis, tickets, asking, given, used, out, now>>

Login(o) ==
    /\ Len(cookies) < MaxSessions
    /\ LoginAllowed(o)
    /\ failures' = [failures EXCEPT ![o] = <<>>]
    /\ cookies' = Append(cookies, now + SessionTTL)
    /\ UNCHANGED <<revokedJtis, tickets, asking, given, used, out, now>>

drop_tickets_for_jti(jti) == {t \in tickets : t.jti # jti}

Logout(jti) ==
    /\ Accepted(jti)
    /\ revokedJtis' = _purge_revoked_jtis \cup {[jti |-> jti, exp |-> cookies[jti]]}
    /\ tickets' = drop_tickets_for_jti(jti)
    /\ out' = out \cup {jti}
    /\ UNCHANGED <<cookies, asking, failures, given, used, now>>

-----------------------------------------------------------------------------
(* Tickets.                                                                *)

Live == {t \in tickets : t.until > now}

(* The middleware knows the caller, by its cookie or by its token. *)
AskTicket ==
    /\ \E jti \in {j \in Jtis : Accepted(j)} \cup {NoJti} : asking' = asking \cup {jti}
    /\ asking' # asking
    /\ UNCHANGED <<cookies, revokedJtis, tickets, failures, given, used, out, now>>

(* The handler: a cookie that no longer counts leaves the ticket untied.   *)
(* Of whom it was asked (of), and whether a logout had overtaken the       *)
(* request (late), is history: the ticket of the code knows neither.       *)
MintTicket(jti) ==
    /\ given < MaxTickets
    /\ jti \in asking
    /\ asking' = asking \ {jti}
    /\ given' = given + 1
    /\ tickets' = Live \cup {[id |-> given', until |-> now + TicketTTL,
                              jti |-> IF jti # NoJti /\ Accepted(jti) THEN jti ELSE NoJti,
                              of |-> jti, late |-> jti \in out]}
    /\ UNCHANGED <<cookies, revokedJtis, failures, used, out, now>>

Popped(t) == Live \ {t}

ConsumeTicket(t) ==
    /\ t \in Live
    /\ tickets' = Popped(t)
    /\ used' = IF t.jti # NoJti /\ IsRevoked(t.jti) THEN used
               ELSE Append(used, [id |-> t.id, until |-> t.until, at |-> now,
                                  over |-> t.of \in out /\ now < cookies[t.of],
                                  late |-> t.late])
    /\ UNCHANGED <<cookies, revokedJtis, asking, failures, given, out, now>>

(* The signing key survives, and with it every cookie; logouts do not. *)
SessionsRestart ==
    /\ revokedJtis' = {} /\ tickets' = {} /\ asking' = {} /\ out' = {}
    /\ failures' = [o \in Origins |-> <<>>]
    /\ UNCHANGED <<cookies, given, used, now>>

SessionsNext ==
    \/ \E o \in Origins : LoginFails(o) \/ LoginRefused(o) \/ Login(o)
    \/ \E j \in Jtis : Logout(j)
    \/ AskTicket
    \/ \E j \in asking : MintTicket(j)
    \/ \E t \in tickets : ConsumeTicket(t)
    \/ SessionsRestart

SessionsSpec ==
    /\ SessionsInit /\ now = 0
    /\ [][SessionsNext \/ (Tick /\ UNCHANGED sessionVars)]_<<sessionVars, now>>

-----------------------------------------------------------------------------
SessionsTypeOK ==
    /\ now \in 0 .. MaxNow
    /\ cookies \in Seq(SessionTTL .. MaxNow + SessionTTL)
    /\ \A r \in revokedJtis : r.jti \in Jtis /\ r.exp = cookies[r.jti]
    /\ \A t \in tickets : t.id \in 1 .. given /\ {t.jti, t.of} \subseteq Jtis \cup {NoJti}
    /\ asking \subseteq Jtis \cup {NoJti}
    /\ out \subseteq Jtis

(* While the process runs, a session that logged out is not taken again    *)
(* before its own end: the pruning of the logouts forgets none early.  Nor *)
(* does a ticket it asked for open a WebSocket after its logout, tied to   *)
(* it or not - but for the ticket of a request that the logout overtook    *)
(* between the middleware and the handler, which the code leaves untied.   *)
(* That one too opens a single WebSocket, before its 30 s are up.          *)
SessionsEnd ==
    /\ SessionsTypeOK
    /\ \A j \in out : now < cookies[j] => ~Accepted(j)
    /\ \A k \in 1 .. Len(used) :
          /\ used[k].over => used[k].late
          /\ used[k].at < used[k].until
          /\ \A l \in 1 .. k - 1 : used[l].id # used[k].id
=============================================================================
