---------------------------- MODULE AccessProofs ----------------------------
(***************************************************************************)
(* Proofs about the HTTP surface, one part after the other: the pairing of *)
(* machine clients (Pairing), the sessions and the tickets (Sessions), the *)
(* status stream (StatusStream), the gate of a request (Gate) and the      *)
(* administrator's authorisation at Home Assistant (HAOAuth).  The parts   *)
(* share no state but a clock, so each has a specification and an          *)
(* inductive invariant of its own.                                         *)
(***************************************************************************)
EXTENDS Pairing, Sessions, StatusStream, Gate, HAOAuth, TLAPS

-----------------------------------------------------------------------------
(***************************************************************************)
(* Proofs about the pairing of machine clients, for any codes, addresses,  *)
(* limits and number of faults.                                            *)
(*                                                                         *)
(* Both results rest on the lock: whoever is inside has read the file as   *)
(* it is now, or could not read it.  The file then decides alike with what *)
(* it says (Issued) and whom it lists (Account).                           *)
(***************************************************************************)

Pendings == [code : Codes \cup {NoCode}, until : 0 .. MaxNow + CodeTTL,
             fails : 0 .. BurnAfter - 1]
Stores(n) == [pending : Pendings, clients : SUBSET (1 .. n)]

PairingTypes ==
    /\ now \in 0 .. MaxNow
    /\ minted \in Seq(Codes)
    /\ revoked \in SUBSET (1 .. Len(minted))
    /\ lost \in SUBSET (1 .. Len(minted))
    /\ store \in Stores(Len(minted))
    /\ issue \in [code : Codes \cup {NoCode}, until : Nat, wrong : 0 .. BurnAfter,
                  open : BOOLEAN]

(* Whoever is inside is alone there, with the file or with nothing. *)
Callers ==
    /\ \A t \in inside : /\ t.read \in {store, Unreadable}
                         /\ t.call.op = "redeem" => t.call.code \in Codes
    /\ \A t, u \in inside : t = u

(* The code that pends is the one issued last, with its failures. *)
Issued ==
    store.pending # NoPending =>
       /\ issue.open
       /\ issue.code = store.pending.code
       /\ issue.until = store.pending.until
       /\ issue.wrong = store.pending.fails

Account ==
    /\ store.clients \cap revoked = {}
    /\ store.clients \cup revoked \cup lost = 1 .. Len(minted)

PairInv == PairingTypes /\ Callers /\ Issued /\ Account

LEMMA Empty ==
    /\ NoPending \in Pendings /\ \A n \in Nat : Unreadable \in Stores(n)
    /\ Unreadable.pending = NoPending /\ Unreadable.clients = {}
BY PairingAssumption DEF NoPending, Unreadable, Pendings, Stores

LEMMA PairInit_Inv == PairingInit /\ now = 0 => PairInv
<1> SUFFICES ASSUME PairingInit, now = 0 PROVE PairInv
  OBVIOUS
<1>1. minted = <<>> /\ Len(minted) = 0 /\ minted \in Seq(Codes)  BY DEF PairingInit
<1>2. store \in Stores(Len(minted))  BY <1>1, Empty DEF PairingInit
<1> QED
  BY <1>1, <1>2, PairingAssumption
     DEF PairingInit, PairInv, PairingTypes, Callers, Issued, Account, Unreadable, NoPending

-----------------------------------------------------------------------------
(* A write by whoever is inside leaves nobody inside. *)
LEMMA WritesLeaves ==
    ASSUME PairInv, NEW t, NEW new, Writes(t, new)
    PROVE  /\ t.read \in {store, Unreadable} /\ t \in inside
           /\ inside' = {} /\ store' = new /\ now' = now
           /\ t.call.op = "redeem" => t.call.code \in Codes
BY DEF Writes, PairInv, Callers

(* Writing back what was read with another pending code loses no client    *)
(* unless the file could not be read.                                      *)
LEMMA WritesPending ==
    ASSUME PairInv, NEW t, NEW p \in Pendings,
           Writes(t, [t.read EXCEPT !.pending = p]),
           UNCHANGED <<minted, revoked>>,
           issue' \in [code : Codes \cup {NoCode}, until : Nat, wrong : 0 .. BurnAfter,
                       open : BOOLEAN]
    PROVE  PairingTypes' /\ Callers' /\ Account' /\ store'.pending = p
<1>1. /\ t.read \in {store, Unreadable} /\ inside' = {} /\ now' = now
      /\ store' = [t.read EXCEPT !.pending = p]
  BY WritesLeaves
<1>2. Unreadable \in Stores(Len(minted)) /\ store \in Stores(Len(minted))
      /\ Unreadable.clients = {}
  BY Empty DEF PairInv, PairingTypes
<1>3. store'.pending = p /\ store'.clients = t.read.clients
      /\ store' \in Stores(Len(minted))
  BY <1>1, <1>2 DEF Stores
<1>4. /\ lost' \in SUBSET (1 .. Len(minted))
      /\ t.read.clients \cap revoked = {}
      /\ t.read.clients \cup revoked \cup lost' = 1 .. Len(minted)
  <2>1. store.clients \in SUBSET (1 .. Len(minted))  BY <1>2 DEF Stores
  <2>2. lost' = IF t.read = Unreadable THEN lost \cup (store.clients \ t.read.clients)
                                       ELSE lost
    BY <1>1, <1>3 DEF Writes
  <2>3. CASE t.read = Unreadable
    BY <1>2, <2>1, <2>2, <2>3 DEF PairInv, PairingTypes, Account
  <2>4. CASE t.read # Unreadable
    BY <1>1, <2>2, <2>4 DEF PairInv, PairingTypes, Account
  <2> QED  BY <2>3, <2>4
<1> QED  BY <1>1, <1>3, <1>4 DEF PairInv, PairingTypes, Callers, Account

LEMMA KeepsInv ==
    ASSUME PairInv, NEW t, Keeps(t), UNCHANGED <<issue, minted, revoked>>
    PROVE  PairInv'
BY DEF Keeps, PairInv, PairingTypes, Callers, Issued, Account

LEMMA EnterInv ==
    ASSUME PairInv, NEW call, Enter(call), call.op = "redeem" => call.code \in Codes
    PROVE  PairInv'
<1>1. PICK read \in {store, Unreadable} :
         inside' = inside \cup {[call |-> call, read |-> read]}
  BY DEF Enter
<1>2. inside' = {[call |-> call, read |-> read]}  BY <1>1 DEF Enter, MayEnter
<1>3. UNCHANGED <<store, issue, minted, revoked, lost, now>>  BY DEF Enter
<1>4. Callers'  BY <1>2, <1>3 DEF Callers
<1> QED  BY <1>3, <1>4 DEF PairInv, PairingTypes, Issued, Account

LEMMA AfterWrongPends ==
    ASSUME NEW p \in Pendings
    PROVE  /\ AfterWrong(p) \in Pendings
           /\ AfterWrong(p) # NoPending =>
                 /\ AfterWrong(p) = [p EXCEPT !.fails = @ + 1]
                 /\ AfterWrong(p).code = p.code /\ AfterWrong(p).until = p.until
                 /\ AfterWrong(p).fails = p.fails + 1 /\ p.fails < BurnAfter
BY Empty, PairingAssumption DEF AfterWrong, Pendings

(* The invariant through every way out of an operation. *)
LEMMA Leave_Inv == ASSUME PairInv, NEW t \in inside,
                       \/ StartPairing(t) \/ CancelPairing(t) \/ PendingStatus(t)
                       \/ RedeemNothing(t) \/ RedeemExpired(t) \/ RedeemWrong(t)
                       \/ RedeemMints(t) \/ RevokeClient(t) \/ MatchClientToken(t)
                       \/ WriteFails(t)
                 PROVE PairInv'
<1> DEFINE IssueType == [code : Codes \cup {NoCode}, until : Nat, wrong : 0 .. BurnAfter,
                         open : BOOLEAN]
<1>0. /\ issue \in IssueType /\ NoPending \in Pendings
      /\ Unreadable \in Stores(Len(minted)) /\ store \in Stores(Len(minted))
      /\ t.read \in {store, Unreadable} /\ Unreadable.pending = NoPending
      /\ Unreadable.clients = {} /\ now \in 0 .. MaxNow
      /\ t.call.op = "redeem" => t.call.code \in Codes
  BY Empty DEF PairInv, PairingTypes, Callers
<1>00. t.read.pending \in Pendings  BY <1>0 DEF Stores
<1>1. CASE StartPairing(t)
  <2>1. PICK code \in Codes :
           LET until == now + CodeTTL IN
           /\ Writes(t, [t.read EXCEPT
                           !.pending = [code |-> code, until |-> until, fails |-> 0]])
           /\ issue' = [code |-> code, until |-> until, wrong |-> 0, open |-> TRUE]
    BY <1>1 DEF StartPairing
  <2>2. [code |-> code, until |-> now + CodeTTL, fails |-> 0] \in Pendings
    BY <1>0, PairingAssumption DEF Pendings
  <2>3. issue' \in IssueType  BY <1>0, <2>1, PairingAssumption
  <2>4. UNCHANGED <<minted, revoked>>  BY <1>1 DEF StartPairing
  <2>5. /\ PairingTypes' /\ Callers' /\ Account'
        /\ store'.pending = [code |-> code, until |-> now + CodeTTL, fails |-> 0]
    BY <2>1, <2>2, <2>3, <2>4, WritesPending
  <2>6. Issued'  BY <2>1, <2>5 DEF Issued
  <2> QED  BY <2>5, <2>6 DEF PairInv
<1>2. CASE Writes(t, [t.read EXCEPT !.pending = NoPending])
           /\ issue' = [issue EXCEPT !.open = FALSE] /\ UNCHANGED <<minted, revoked>>
  <2>1. issue' \in IssueType  BY <1>0, <1>2
  <2>2. PairingTypes' /\ Callers' /\ Account' /\ store'.pending = NoPending
    BY <1>0, <1>2, <2>1, WritesPending
  <2>3. Issued'  BY <2>2 DEF Issued, NoPending
  <2> QED  BY <2>2, <2>3 DEF PairInv
<1>3. CASE CancelPairing(t)  BY <1>2, <1>3 DEF CancelPairing
<1>4. CASE PendingStatus(t)  BY <1>2, <1>4, KeepsInv DEF PendingStatus
<1>5. CASE RedeemNothing(t)  BY <1>5, KeepsInv DEF RedeemNothing
<1>6. CASE RedeemExpired(t)  BY <1>2, <1>6 DEF RedeemExpired
<1>7. CASE RedeemWrong(t)
  <2> DEFINE p == AfterWrong(t.read.pending)
  <2>1. t.read = store /\ store.pending # NoPending
    BY <1>0, <1>7 DEF RedeemWrong
  <2>2. Writes(t, [t.read EXCEPT !.pending = p]) /\ UNCHANGED <<minted, revoked>>
        /\ issue' = [issue EXCEPT !.wrong = IF @ < BurnAfter THEN @ + 1 ELSE @]
    BY <1>7 DEF RedeemWrong
  <2>3. p \in Pendings  BY <1>00, AfterWrongPends
  <2>4. issue' \in IssueType  BY <1>0, <2>2, PairingAssumption
  <2>5. PairingTypes' /\ Callers' /\ Account' /\ store'.pending = p
    BY <2>2, <2>3, <2>4, WritesPending
  <2>6. Issued'
    <3> SUFFICES ASSUME p # NoPending
                 PROVE  /\ issue'.open /\ issue'.code = p.code /\ issue'.until = p.until
                        /\ issue'.wrong = p.fails
      BY <2>5 DEF Issued
    <3>1. /\ p.code = store.pending.code /\ p.until = store.pending.until
          /\ p.fails = store.pending.fails + 1 /\ store.pending.fails < BurnAfter
      BY <1>00, <2>1, AfterWrongPends
    <3>2. issue.open /\ issue.code = store.pending.code /\ issue.until = store.pending.until
          /\ issue.wrong = store.pending.fails
      BY <2>1 DEF PairInv, Issued
    <3> HIDE DEF p
    <3> QED  BY <1>0, <2>2, <3>1, <3>2
  <2> QED  BY <2>5, <2>6 DEF PairInv
<1>8. CASE RedeemMints(t)
  <2> DEFINE n == Len(minted)
             new == [pending |-> NoPending, clients |-> t.read.clients \cup {n + 1}]
  <2>1. t.read = store /\ t.call.code \in Codes
    BY <1>0, <1>8 DEF RedeemMints
  <2>2. /\ minted' = Append(minted, t.call.code) /\ minted' \in Seq(Codes)
        /\ Len(minted') = n + 1 /\ n \in Nat
    BY <1>8, <2>1 DEF RedeemMints, PairInv, PairingTypes
  <2>3. Writes(t, new) /\ issue' = [issue EXCEPT !.open = FALSE] /\ UNCHANGED revoked
    BY <1>8, <2>2 DEF RedeemMints
  <2>4. inside' = {} /\ store' = new /\ now' = now  BY <2>3, WritesLeaves
  <2>5. store.clients \in SUBSET (1 .. n)  BY <1>0 DEF Stores
  <2>6. store.pending # NoPending  BY <1>8, <2>1 DEF RedeemMints
  <2>7. lost' = lost  BY <1>0, <2>1, <2>3, <2>6 DEF Writes
  <2>8. store'.clients = store.clients \cup {n + 1} /\ store'.pending = NoPending
        /\ store' \in Stores(n + 1)
    BY <1>0, <2>1, <2>2, <2>4, <2>5 DEF Stores
  <2>9. Account'
    BY <2>2, <2>3, <2>5, <2>7, <2>8 DEF PairInv, Account, PairingTypes
  <2>10. issue' \in IssueType  BY <1>0, <2>3
  <2>11. /\ revoked' \in SUBSET (1 .. Len(minted'))
         /\ lost' \in SUBSET (1 .. Len(minted'))
         /\ store' \in Stores(Len(minted'))
    BY <2>2, <2>3, <2>7, <2>8 DEF PairInv, PairingTypes
  <2>12. PairingTypes'
    BY <1>0, <2>2, <2>4, <2>10, <2>11 DEF PairingTypes, Stores, Pendings
  <2> QED  BY <2>4, <2>8, <2>9, <2>12 DEF PairInv, Callers, Issued, NoPending
<1>9. CASE RevokeClient(t)
  <2>1. CASE t.call.client \notin t.read.clients
    BY <1>9, <2>1, KeepsInv DEF RevokeClient
  <2>2. CASE t.call.client \in t.read.clients
    <3>1. t.read = store /\ store # Unreadable  BY <1>0, <2>2
    <3>2. /\ Writes(t, [store EXCEPT !.clients = @ \ {t.call.client}])
          /\ revoked' = revoked \cup {t.call.client} /\ UNCHANGED <<issue, minted>>
      BY <1>9, <2>2, <3>1 DEF RevokeClient
    <3>3. inside' = {} /\ now' = now
          /\ store' = [store EXCEPT !.clients = @ \ {t.call.client}]
      BY <3>2, WritesLeaves
    <3>4. lost' = lost  BY <3>1, <3>2 DEF Writes
    <3>5. /\ store'.clients = store.clients \ {t.call.client}
          /\ store'.pending = store.pending /\ store' \in Stores(Len(minted))
          /\ t.call.client \in 1 .. Len(minted)
      BY <1>0, <2>2, <3>1, <3>3 DEF Stores
    <3> QED
      BY <2>2, <3>1, <3>2, <3>3, <3>4, <3>5 DEF PairInv, PairingTypes, Callers, Issued, Account
  <2> QED  BY <2>1, <2>2
<1>10. CASE MatchClientToken(t)
  <2>1. CASE t.call.client \notin t.read.clients
    BY <1>10, <2>1, KeepsInv DEF MatchClientToken
  <2>2. CASE t.call.client \in t.read.clients
    <3>1. t.read = store /\ store # Unreadable  BY <1>0, <2>2
    <3>2. Writes(t, store) /\ UNCHANGED <<issue, minted, revoked>>
      BY <1>10, <2>2, <3>1 DEF MatchClientToken
    <3>3. inside' = {} /\ now' = now /\ store' = store  BY <3>2, WritesLeaves
    <3>4. lost' = lost  BY <3>1, <3>2 DEF Writes
    <3> QED  BY <3>2, <3>3, <3>4 DEF PairInv, PairingTypes, Callers, Issued, Account
  <2> QED  BY <2>1, <2>2
<1>11. CASE WriteFails(t)
  BY <1>11 DEF WriteFails, PairInv, PairingTypes, Callers, Issued, Account
<1> QED  BY <1>1, <1>3, <1>4, <1>5, <1>6, <1>7, <1>8, <1>9, <1>10, <1>11

PairingStep == PairingNext \/ (Tick /\ UNCHANGED pairingVars)

LEMMA PairStep_Inv == PairInv /\ [PairingStep]_<<pairingVars, now>> => PairInv'
<1> SUFFICES ASSUME PairInv, [PairingStep]_<<pairingVars, now>> PROVE PairInv'
  OBVIOUS
<1>1. CASE EnterStart
  BY <1>1, EnterInv DEF EnterStart, Call
<1>2. ASSUME NEW code \in Codes, NEW host \in Hosts, EnterRedeem(code, host) PROVE PairInv'
  BY <1>2, EnterInv DEF EnterRedeem, Call
<1>3. CASE EnterOther
  <2>1. \A op, n : Call(op, NoCode, "", n).op = op  BY DEF Call
  <2>2. ASSUME NEW op \in {"cancel", "status"}, Enter(Call(op, NoCode, "", 0))
        PROVE  PairInv'
    <3>1. Call(op, NoCode, "", 0).op # "redeem"  BY <2>1
    <3> QED  BY <2>2, <3>1, EnterInv
  <2>3. ASSUME NEW op \in {"revoke", "match"}, NEW c \in 1 .. Len(minted),
               Enter(Call(op, NoCode, "", c))
        PROVE  PairInv'
    <3>1. Call(op, NoCode, "", c).op # "redeem"  BY <2>1
    <3> QED  BY <2>3, <3>1, EnterInv
  <2> QED  BY <1>3, <2>2, <2>3 DEF EnterOther
<1>4. CASE Leave  BY <1>4, Leave_Inv DEF Leave
<1>5. CASE PairingRestart
  BY <1>5 DEF PairingRestart, PairInv, PairingTypes, Callers, Issued, Account
<1>6. CASE Tick /\ UNCHANGED pairingVars
  BY <1>6, PairingAssumption
     DEF Tick, pairingVars, PairInv, PairingTypes, Callers, Issued, Account
<1>7. CASE UNCHANGED <<pairingVars, now>>
  BY <1>7 DEF pairingVars, PairInv, PairingTypes, Callers, Issued, Account
<1> QED  BY <1>1, <1>2, <1>3, <1>4, <1>5, <1>6, <1>7 DEF PairingStep, PairingNext

-----------------------------------------------------------------------------
(* Whatever fails and whenever the process restarts, the clients minted    *)
(* are those in api_clients.json, those revoked and those an operation     *)
(* wrote over because it could not read the file (_read_store).            *)
THEOREM ClientsAreAccountedFor == PairingSpec => []ClientsAccountedFor
<1>1. PairingInit /\ now = 0 => PairInv  BY PairInit_Inv
<1>2. PairInv /\ [PairingStep]_<<pairingVars, now>> => PairInv'  BY PairStep_Inv
<1>3. PairInv => ClientsAccountedFor
  BY DEF PairInv, PairingTypes, Account, Stores, Pendings, ClientsAccountedFor, PairingTypeOK
<1> QED  BY <1>1, <1>2, <1>3, PTL DEF PairingSpec, PairingStep

(* redeem_pairing mints a client only for the newest code, once, in time   *)
(* and after fewer than BurnAfter wrong ones, restarts and faults included.*)
THEOREM CodesMintOnlyWhileGood == PairingSpec => MintsOnlyWhileGood
<1>1. PairingInit /\ now = 0 => PairInv  BY PairInit_Inv
<1>2. PairInv /\ [PairingStep]_<<pairingVars, now>> => PairInv'  BY PairStep_Inv
<1>3. PairInv /\ [PairingStep]_<<pairingVars, now>> =>
         [Len(minted') > Len(minted) =>
            /\ Last(minted') = issue.code
            /\ issue.open
            /\ now < issue.until
            /\ issue.wrong < BurnAfter]_<<pairingVars, now>>
  <2> SUFFICES ASSUME PairInv, [PairingStep]_<<pairingVars, now>>, Len(minted') > Len(minted)
               PROVE  /\ Last(minted') = issue.code /\ issue.open
                      /\ now < issue.until /\ issue.wrong < BurnAfter
    OBVIOUS
  <2>0. minted \in Seq(Codes) /\ Len(minted) \in Nat  BY DEF PairInv, PairingTypes
  <2>1. minted' # minted  BY <2>0
  <2>2. PICK t \in inside : RedeemMints(t)
    BY <2>1 DEF PairingStep, PairingNext, EnterStart, EnterRedeem, EnterOther, Enter, Leave,
       StartPairing, CancelPairing, PendingStatus, RedeemNothing, RedeemExpired,
       RedeemWrong, RevokeClient, MatchClientToken, WriteFails, PairingRestart,
       pairingVars
  <2>3. /\ t.read.pending # NoPending /\ ~(t.read.pending.until <= now)
        /\ t.call.code = t.read.pending.code /\ t.call.code \in Codes
        /\ minted' = Append(minted, t.call.code)
    BY <2>2 DEF RedeemMints, Expired, PairInv, Callers
  <2>4. t.read = store
    BY <2>3 DEF PairInv, Callers, Unreadable
  <2>5. issue.open /\ issue.code = t.call.code /\ issue.until = store.pending.until
        /\ issue.wrong = store.pending.fails
    BY <2>3, <2>4 DEF PairInv, Issued
  <2>6. store.pending \in Pendings /\ now \in Nat  BY DEF PairInv, PairingTypes, Stores
  <2>7. now < issue.until /\ issue.wrong < BurnAfter
    BY <2>3, <2>4, <2>5, <2>6, PairingAssumption DEF Pendings
  <2>8. Last(minted') = t.call.code  BY <2>0, <2>3 DEF Last
  <2> QED  BY <2>5, <2>7, <2>8
<1> QED  BY <1>1, <1>2, <1>3, PTL DEF PairingSpec, PairingStep, MintsOnlyWhileGood

-----------------------------------------------------------------------------
(***************************************************************************)
(* Proof that a session that logged out is over, for any number of         *)
(* sessions and tickets and any lengths of time.                           *)
(*                                                                         *)
(* The pruning of the logouts (session.py:205) and the end of a session    *)
(* (session.py:188) agree on the moment: as long as a session that logged  *)
(* out would still run, its logout is on the list (LoggedOut).             *)
(*                                                                         *)
(* A ticket is untied only when nobody's cookie came with the request, the *)
(* logout had overtaken it or the session had come to its own end (Tied).  *)
(***************************************************************************)

TicketTypes(n, c) == [id : 1 .. n, until : Nat, jti : (1 .. Len(c)) \cup {NoJti},
                      of : (1 .. Len(c)) \cup {NoJti}, late : BOOLEAN]
UsedTypes(n) == [id : 1 .. n, until : Nat, at : Nat, over : BOOLEAN, late : BOOLEAN]

SessionsTypes ==
    /\ now \in 0 .. MaxNow
    /\ given \in Nat
    /\ cookies \in Seq(SessionTTL .. MaxNow + SessionTTL)
    /\ \A r \in revokedJtis : r.jti \in Jtis /\ r.exp = cookies[r.jti]
    /\ tickets \subseteq TicketTypes(given, cookies)
    /\ asking \subseteq Jtis \cup {NoJti}
    /\ out \subseteq Jtis
    /\ used \in Seq(UsedTypes(given))

LoggedOut ==
    /\ \A j \in out : now < cookies[j] => [jti |-> j, exp |-> cookies[j]] \in revokedJtis
    /\ \A r \in revokedJtis : r.jti \in out

Tied ==
    \A t \in tickets :
        \/ t.of = NoJti \/ t.late
        \/ t.jti = t.of \/ cookies[t.of] < now

UsedOnce ==
    /\ \A t, u \in tickets : t.id = u.id => t = u
    /\ \A k \in 1 .. Len(used) :
          /\ used[k].over => used[k].late
          /\ used[k].at < used[k].until
          /\ \A l \in 1 .. k - 1 : used[l].id # used[k].id
          /\ \A t \in tickets : t.id # used[k].id

SessionsInv == SessionsTypes /\ LoggedOut /\ Tied /\ UsedOnce

LEMMA SessionsInit_Inv == SessionsInit /\ now = 0 => SessionsInv
<1> SUFFICES ASSUME SessionsInit, now = 0 PROVE SessionsInv
  OBVIOUS
<1>1. /\ cookies \in Seq(SessionTTL .. MaxNow + SessionTTL)
      /\ used \in Seq(UsedTypes(given)) /\ Len(used) = 0
  BY DEF SessionsInit
<1> QED
  BY <1>1, SessionsAssumption
     DEF SessionsInit, SessionsInv, SessionsTypes, LoggedOut, Tied, UsedOnce

(* Whoever logged out and would still run is found on the list. *)
LEMMA LoggedOutIsRevoked ==
    ASSUME SessionsInv, NEW j \in out, now < cookies[j]
    PROVE  IsRevoked(j)
<1>1. [jti |-> j, exp |-> cookies[j]] \in revokedJtis  BY DEF SessionsInv, LoggedOut
<1>2. cookies[j] \in Nat /\ now \in Nat
  BY SessionsAssumption DEF SessionsInv, SessionsTypes, Jtis
<1>3. [jti |-> j, exp |-> cookies[j]] \in _purge_revoked_jtis
  BY <1>1, <1>2 DEF _purge_revoked_jtis
<1> QED  BY <1>3 DEF IsRevoked

(* The invariant depends on the login failures in no way. *)
LEMMA SessionsFrame ==
    SessionsInv /\ UNCHANGED <<cookies, revokedJtis, tickets, asking, given, used, out, now>>
        => SessionsInv'
BY DEF SessionsInv, SessionsTypes, LoggedOut, Tied, UsedOnce, Jtis, TicketTypes, UsedTypes

LEMMA SessionsLogin ==
    ASSUME SessionsInv, NEW o \in Origins, Login(o)
    PROVE  SessionsInv'
<1> DEFINE n == Len(cookies)
           e == now + SessionTTL
<1>1. /\ cookies \in Seq(SessionTTL .. MaxNow + SessionTTL) /\ n \in Nat
      /\ e \in SessionTTL .. MaxNow + SessionTTL
  BY SessionsAssumption DEF SessionsInv, SessionsTypes
<1>2. /\ cookies' = Append(cookies, e)
      /\ UNCHANGED <<revokedJtis, tickets, asking, given, used, out, now>>
  BY DEF Login
<1>3. /\ cookies' \in Seq(SessionTTL .. MaxNow + SessionTTL)
      /\ Len(cookies') = n + 1
      /\ \A k \in 1 .. n : k \in 1 .. n + 1 /\ cookies'[k] = cookies[k]
  BY <1>1, <1>2
<1> HIDE DEF n, e
<1>4. Jtis = 1 .. n /\ Jtis' = 1 .. n + 1  BY <1>3 DEF Jtis, n
<1>5. SessionsTypes'
  <2>1. \A r \in revokedJtis' : r.jti \in Jtis' /\ r.exp = cookies'[r.jti]
    BY <1>2, <1>3, <1>4 DEF SessionsInv, SessionsTypes
  <2>2. TicketTypes(given, cookies) \subseteq TicketTypes(given, cookies')
    BY <1>1, <1>3 DEF TicketTypes, n
  <2>3. asking' \subseteq Jtis' \cup {NoJti} /\ out' \subseteq Jtis'
    BY <1>1, <1>2, <1>4 DEF SessionsInv, SessionsTypes
  <2> QED  BY <1>2, <1>3, <2>1, <2>2, <2>3 DEF SessionsInv, SessionsTypes
<1>6. LoggedOut'
  BY <1>2, <1>3, <1>4 DEF SessionsInv, SessionsTypes, LoggedOut
<1>7. UsedOnce'  BY <1>2 DEF SessionsInv, UsedOnce
<1>8. Tied'
  <2>1. \A t \in tickets : t.of = NoJti \/ t.of \in 1 .. n
    BY <1>4 DEF SessionsInv, SessionsTypes, TicketTypes, n
  <2> QED  BY <1>2, <1>3, <2>1 DEF SessionsInv, Tied
<1> QED  BY <1>5, <1>6, <1>7, <1>8 DEF SessionsInv

LEMMA SessionsLogout ==
    ASSUME SessionsInv, NEW j \in Jtis, Logout(j)
    PROVE  SessionsInv'
<1>1. /\ revokedJtis' = _purge_revoked_jtis \cup {[jti |-> j, exp |-> cookies[j]]}
      /\ tickets' \subseteq tickets /\ \A t \in tickets' : t.jti # j
      /\ out' = out \cup {j}
      /\ UNCHANGED <<cookies, asking, failures, given, used, now>>
  BY DEF Logout, drop_tickets_for_jti
<1>0. cookies[j] \in Nat /\ now \in Nat /\ ~(cookies[j] < now)
  BY SessionsAssumption DEF Logout, Accepted, SessionsInv, SessionsTypes, Jtis
<1>2. SessionsTypes'
  BY <1>1 DEF SessionsInv, SessionsTypes, Jtis, _purge_revoked_jtis, TicketTypes, UsedTypes
<1>3. LoggedOut'
  <2>0. \A r \in revokedJtis' : r.jti \in out'
    BY <1>1 DEF SessionsInv, LoggedOut, _purge_revoked_jtis
  <2> SUFFICES ASSUME NEW i \in out', now < cookies[i]
               PROVE  [jti |-> i, exp |-> cookies[i]] \in revokedJtis'
    BY <1>1, <2>0 DEF LoggedOut
  <2>1. CASE i = j  BY <1>1, <2>1
  <2>2. CASE i # j
    <3>1. i \in out /\ [jti |-> i, exp |-> cookies[i]] \in revokedJtis
      BY <1>1, <2>2 DEF SessionsInv, LoggedOut
    <3>2. cookies[i] \in Nat /\ now \in Nat
      BY <3>1, SessionsAssumption DEF SessionsInv, SessionsTypes, Jtis
    <3>3. [jti |-> i, exp |-> cookies[i]] \in _purge_revoked_jtis
      BY <3>1, <3>2 DEF _purge_revoked_jtis
    <3> QED  BY <1>1, <3>3
  <2> QED  BY <2>1, <2>2
<1>4. UsedOnce'  BY <1>1 DEF SessionsInv, UsedOnce
<1>5. Tied'  BY <1>1 DEF SessionsInv, Tied
<1> QED  BY <1>2, <1>3, <1>4, <1>5 DEF SessionsInv

LEMMA SessionsMint ==
    ASSUME SessionsInv, NEW j \in asking, MintTicket(j)
    PROVE  SessionsInv'
<1> DEFINE tied == IF j # NoJti /\ Accepted(j) THEN j ELSE NoJti
           new  == [id |-> given + 1, until |-> now + TicketTTL, jti |-> tied,
                    of |-> j, late |-> j \in out]
<1>1. /\ given' = given + 1 /\ asking' = asking \ {j}
      /\ tickets' = Live \cup {new}
      /\ UNCHANGED <<cookies, revokedJtis, failures, used, out, now>>
  BY DEF MintTicket
<1>2. /\ given \in Nat /\ now \in Nat /\ tied \in Jtis \cup {NoJti}
      /\ tickets \subseteq TicketTypes(given, cookies) /\ j \in Jtis \cup {NoJti}
  BY DEF SessionsInv, SessionsTypes
<1>12. j = NoJti \/ j \in out \/ tied = j \/ cookies[j] < now
  <2> SUFFICES ASSUME j # NoJti, tied # j, ~(cookies[j] < now) PROVE j \in out
    OBVIOUS
  <2>1. cookies[j] \in Nat
    BY <1>2, SessionsAssumption DEF SessionsInv, SessionsTypes, Jtis
  <2>2. IsRevoked(j)  BY <1>2, <2>1 DEF Accepted
  <2> QED  BY <2>2 DEF IsRevoked, _purge_revoked_jtis, SessionsInv, LoggedOut
<1> HIDE DEF tied
<1>3. TicketTypes(given, cookies) \subseteq TicketTypes(given + 1, cookies)
      /\ new \in TicketTypes(given + 1, cookies)
  BY <1>2, SessionsAssumption DEF TicketTypes, Jtis
<1>4. used \in Seq(UsedTypes(given + 1)) /\ \A k \in 1 .. Len(used) : used[k] \in UsedTypes(given)
  <2>1. UsedTypes(given) \subseteq UsedTypes(given + 1)  BY <1>2 DEF UsedTypes
  <2>2. used \in Seq(UsedTypes(given))  BY DEF SessionsInv, SessionsTypes
  <2> QED  BY <2>1, <2>2
<1>5. SessionsTypes'
  BY <1>1, <1>2, <1>3, <1>4 DEF SessionsInv, SessionsTypes, Live, Jtis
<1>6. LoggedOut'  BY <1>1 DEF SessionsInv, LoggedOut
<1>7. \A t \in tickets : t.id \in 1 .. given  BY <1>2 DEF TicketTypes
<1>8. \A k \in 1 .. Len(used) : used[k].id \in 1 .. given  BY <1>4 DEF UsedTypes
<1>9. new.id = given + 1 /\ given + 1 \notin 1 .. given  BY <1>2
<1>13. new.of = NoJti \/ new.late \/ new.jti = new.of \/ cookies[new.of] < now  BY <1>12
<1> HIDE DEF new
<1>10. \A t, u \in tickets' : t.id = u.id => t = u
  BY <1>1, <1>7, <1>9 DEF SessionsInv, UsedOnce, Live
<1>11. UsedOnce'
  BY <1>1, <1>8, <1>9, <1>10 DEF SessionsInv, UsedOnce, Live
<1>14. Tied'  BY <1>1, <1>13 DEF SessionsInv, Tied, Live
<1> QED  BY <1>5, <1>6, <1>11, <1>14 DEF SessionsInv

LEMMA SessionsConsume ==
    ASSUME SessionsInv, NEW t \in tickets, ConsumeTicket(t)
    PROVE  SessionsInv'
<1> DEFINE new == [id |-> t.id, until |-> t.until, at |-> now,
                   over |-> t.of \in out /\ now < cookies[t.of], late |-> t.late]
<1>1. /\ t \in Live /\ tickets' = Live \ {t}
      /\ used' = IF t.jti # NoJti /\ IsRevoked(t.jti) THEN used ELSE Append(used, new)
      /\ UNCHANGED <<cookies, revokedJtis, asking, failures, given, out, now>>
  BY DEF ConsumeTicket, Popped
<1>2. /\ t \in TicketTypes(given, cookies) /\ now \in Nat /\ t.until > now
      /\ used \in Seq(UsedTypes(given)) /\ Len(used) \in Nat
  BY <1>1 DEF SessionsInv, SessionsTypes, Live
<1>3. CASE t.jti # NoJti /\ IsRevoked(t.jti)
  <2>1. used' = used  BY <1>1, <1>3
  <2> QED
    BY <1>1, <2>1
       DEF SessionsInv, SessionsTypes, LoggedOut, Tied, UsedOnce, Live, Jtis, TicketTypes,
           UsedTypes
<1>4. CASE ~(t.jti # NoJti /\ IsRevoked(t.jti))
  <2>1. t.of \in out /\ now < cookies[t.of] => t.late
    <3> SUFFICES ASSUME t.of \in out, now < cookies[t.of], ~t.late PROVE FALSE
      OBVIOUS
    <3>1. IsRevoked(t.of)  BY LoggedOutIsRevoked
    <3>2. t.of # NoJti  BY DEF SessionsInv, SessionsTypes, Jtis, NoJti
    <3>6. t.of \in 1 .. Len(cookies) /\ cookies \in Seq(SessionTTL .. MaxNow + SessionTTL)
      BY DEF SessionsInv, SessionsTypes, Jtis
    <3>3. cookies[t.of] \in Nat  BY ONLY <3>6, SessionsAssumption
    <3>5. ~(cookies[t.of] < now)  BY <1>2, <3>3
    <3>4. t.jti = t.of  BY <3>2, <3>5 DEF SessionsInv, Tied
    <3> QED  BY <1>4, <3>1, <3>2, <3>4
  <2>2. new \in UsedTypes(given) /\ new.id = t.id /\ new.at < new.until
        /\ (new.over => new.late)
    BY <1>2, <2>1 DEF UsedTypes, TicketTypes
  <2>3. used' = Append(used, new)  BY <1>1, <1>4
  <2> HIDE DEF new
  <2>4. /\ used' \in Seq(UsedTypes(given)) /\ Len(used') = Len(used) + 1
        /\ used'[Len(used) + 1] = new
        /\ \A k \in 1 .. Len(used) : used'[k] = used[k]
    BY <1>2, <2>2, <2>3
  <2>5. SessionsTypes'
    BY <1>1, <2>4 DEF SessionsInv, SessionsTypes, Live, Jtis, TicketTypes, UsedTypes
  <2>6. LoggedOut' /\ Tied'  BY <1>1 DEF SessionsInv, LoggedOut, Tied, Live
  <2>7. UsedOnce'
    <3>1. \A u, v \in tickets' : u.id = v.id => u = v
      BY <1>1 DEF SessionsInv, UsedOnce, Live
    <3>2. \A u \in tickets' : u \in tickets /\ u.id # t.id
      BY <1>1 DEF SessionsInv, UsedOnce, Live
    <3>3. ASSUME NEW k \in 1 .. Len(used')
          PROVE  /\ used'[k].over => used'[k].late
                 /\ used'[k].at < used'[k].until
                 /\ \A l \in 1 .. k - 1 : used'[l].id # used'[k].id
                 /\ \A u \in tickets' : u.id # used'[k].id
      <4>1. CASE k = Len(used) + 1
        <5>1. \A l \in 1 .. k - 1 : used'[l] = used[l] /\ l \in 1 .. Len(used)
          BY <1>2, <2>4, <4>1
        <5>2. \A l \in 1 .. k - 1 : used[l].id # t.id
          BY <5>1 DEF SessionsInv, UsedOnce
        <5> QED  BY <2>2, <2>4, <3>2, <4>1, <5>1, <5>2
      <4>2. CASE k # Len(used) + 1
        <5>1. k \in 1 .. Len(used) /\ used'[k] = used[k]  BY <1>2, <2>4, <3>3, <4>2
        <5>2. \A l \in 1 .. k - 1 : used'[l] = used[l]  BY <1>2, <2>4, <5>1
        <5> QED  BY <3>2, <5>1, <5>2 DEF SessionsInv, UsedOnce
      <4> QED  BY <4>1, <4>2
    <3> QED  BY <3>1, <3>3 DEF UsedOnce
  <2> QED  BY <2>5, <2>6, <2>7 DEF SessionsInv
<1> QED  BY <1>3, <1>4

SessionsStep == SessionsNext \/ (Tick /\ UNCHANGED sessionVars)

LEMMA SessionsStep_Inv == SessionsInv /\ [SessionsStep]_<<sessionVars, now>> => SessionsInv'
<1> SUFFICES ASSUME SessionsInv, [SessionsStep]_<<sessionVars, now>> PROVE SessionsInv'
  OBVIOUS
<1>1. ASSUME NEW o \in Origins, LoginFails(o) \/ LoginRefused(o) \/ Login(o)
      PROVE  SessionsInv'
  BY <1>1, SessionsFrame, SessionsLogin DEF LoginFails, LoginRefused
<1>2. ASSUME NEW j \in Jtis, Logout(j) PROVE SessionsInv'  BY <1>2, SessionsLogout
<1>3. CASE AskTicket
  <2>1. asking' \subseteq Jtis \cup {NoJti}
    BY <1>3 DEF AskTicket, SessionsInv, SessionsTypes
  <2> QED
    BY <1>3, <2>1
       DEF AskTicket, SessionsInv, SessionsTypes, LoggedOut, Tied, UsedOnce, Jtis, TicketTypes,
           UsedTypes
<1>4. ASSUME NEW j \in asking, MintTicket(j) PROVE SessionsInv'  BY <1>4, SessionsMint
<1>5. ASSUME NEW t \in tickets, ConsumeTicket(t) PROVE SessionsInv'
  BY <1>5, SessionsConsume
<1>6. CASE SessionsRestart
  BY <1>6
     DEF SessionsRestart, SessionsInv, SessionsTypes, LoggedOut, Tied, UsedOnce, Jtis, UsedTypes
<1>7. CASE Tick /\ UNCHANGED sessionVars
  <2>1. /\ now' \in 0 .. MaxNow /\ now \in Nat /\ now' = now + 1
        /\ UNCHANGED <<cookies, revokedJtis, tickets, asking, given, used, out>>
    BY <1>7, SessionsAssumption DEF Tick, sessionVars, SessionsInv, SessionsTypes
  <2>2. SessionsTypes'  BY <2>1 DEF SessionsInv, SessionsTypes, Jtis, TicketTypes, UsedTypes
  <2>3. \A j \in out : cookies[j] \in Nat
    BY SessionsAssumption DEF SessionsInv, SessionsTypes, Jtis
  <2>4. LoggedOut'  BY <2>1, <2>3 DEF SessionsInv, LoggedOut
  <2>5. UsedOnce'  BY <2>1 DEF SessionsInv, UsedOnce
  <2>6. Tied'
    <3>1. \A t \in tickets : t.of = NoJti \/ cookies[t.of] \in Nat
      BY SessionsAssumption DEF SessionsInv, SessionsTypes, TicketTypes
    <3> QED  BY <2>1, <3>1 DEF SessionsInv, Tied
  <2> QED  BY <2>2, <2>4, <2>5, <2>6 DEF SessionsInv
<1>8. CASE UNCHANGED <<sessionVars, now>>
  BY <1>8, SessionsFrame DEF sessionVars
<1> QED  BY <1>1, <1>2, <1>3, <1>4, <1>5, <1>6, <1>7, <1>8 DEF SessionsStep, SessionsNext

-----------------------------------------------------------------------------
(* As long as the process runs, a cookie whose session logged out is not   *)
(* taken again before its own end, and no ticket opens two WebSockets, or  *)
(* one after its time.  After the logout of the session that asked for it  *)
(* a ticket opens one only if the logout had overtaken the request itself  *)
(* (session.py:173, session.py:412, auth_routes.py:117, ws_tickets.py:57). *)
THEOREM LogoutsHold == SessionsSpec => []SessionsEnd
<1>1. SessionsInit /\ now = 0 => SessionsInv  BY SessionsInit_Inv
<1>2. SessionsInv /\ [SessionsStep]_<<sessionVars, now>> => SessionsInv'  BY SessionsStep_Inv
<1>3. SessionsInv => SessionsEnd
  <2> SUFFICES ASSUME SessionsInv PROVE SessionsEnd
    OBVIOUS
  <2>1. SessionsTypeOK
    BY DEF SessionsInv, SessionsTypes, SessionsTypeOK, TicketTypes, Jtis
  <2>2. \A j \in out : now < cookies[j] => ~Accepted(j)
    BY LoggedOutIsRevoked DEF Accepted
  <2> QED  BY <2>1, <2>2 DEF SessionsInv, UsedOnce, SessionsEnd
<1> QED  BY <1>1, <1>2, <1>3, PTL DEF SessionsSpec, SessionsStep

-----------------------------------------------------------------------------
(***************************************************************************)
(* Proof that no dashboard goes back to an older status, for any number of *)
(* dashboards, any length of the queues and any number of changes.         *)
(*                                                                         *)
(* What a handler has shown, what it is sending, what waits in its queue   *)
(* and the status of now are, in this order, never decreasing.             *)
(***************************************************************************)

Phases == {"none", "greeting", "waiting", "sending"}

StreamTypes ==
    /\ status \in Nat
    /\ queue \in [Readers -> Seq(Nat)]
    /\ phase \in [Readers -> Phases]
    /\ item \in [Readers -> Nat]
    /\ open \in [Readers -> BOOLEAN]
    /\ shown \in [Readers -> Nat]

(* A queue whose entries lie between lo and hi and never decrease. *)
Between(lo, q, hi) ==
    /\ \A k \in 1 .. Len(q) : lo <= q[k] /\ q[k] <= hi
    /\ \A j, k \in 1 .. Len(q) : j <= k => q[j] <= q[k]

InOrder(r) ==
    /\ item[r] <= status
    /\ shown[r] <= status
    /\ Between(shown[r], queue[r], status)
    /\ phase[r] \in {"greeting", "sending"} =>
          shown[r] <= item[r] /\ Between(item[r], queue[r], status)

StreamInv == StreamTypes /\ \A r \in Readers : InOrder(r)

-----------------------------------------------------------------------------
(* Pushing a status at least as new as all the others keeps the order. *)
LEMMA PushKeepsOrder ==
    ASSUME NEW q \in Seq(Nat), NEW lo \in Nat, NEW v \in Nat, lo <= v, Between(lo, q, v)
    PROVE  Push(q, v) \in Seq(Nat) /\ Between(lo, Push(q, v), v)
<1> DEFINE d == IF Len(q) = QueueSize THEN 1 ELSE 0
           s == IF Len(q) = QueueSize THEN Tail(q) ELSE q
<1>1. /\ s \in Seq(Nat) /\ d \in Nat
      /\ Len(q) \in Nat /\ Len(s) \in Nat /\ Len(s) = Len(q) - d
      /\ \A k \in 1 .. Len(s) : s[k] = q[k + d] /\ k + d \in 1 .. Len(q)
  <2>1. CASE Len(q) = QueueSize
    <3>1. q # <<>>  BY <2>1, StreamAssumption
    <3> QED  BY <2>1, <3>1
  <2>2. CASE Len(q) # QueueSize  BY <2>2
  <2> QED  BY <2>1, <2>2
<1>2. /\ Append(s, v) \in Seq(Nat)
      /\ Len(Append(s, v)) = Len(s) + 1
      /\ \A k \in 1 .. Len(s) : Append(s, v)[k] = s[k]
      /\ Append(s, v)[Len(s) + 1] = v
  BY <1>1
<1>3. Push(q, v) = Append(s, v)  BY DEF Push
<1> HIDE DEF s, d
<1>4. ASSUME NEW k \in 1 .. Len(s) + 1
      PROVE  lo <= Append(s, v)[k] /\ Append(s, v)[k] <= v
  <2>1. CASE k = Len(s) + 1  BY <2>1, <1>2
  <2>2. CASE k # Len(s) + 1
    <3>1. k \in 1 .. Len(s)  BY <1>1, <1>4, <2>2
    <3>2. Append(s, v)[k] = q[k + d] /\ k + d \in 1 .. Len(q)  BY <3>1, <1>1, <1>2
    <3> QED  BY <3>2 DEF Between
  <2> QED  BY <2>1, <2>2
<1>5. ASSUME NEW j \in 1 .. Len(s) + 1, NEW k \in 1 .. Len(s) + 1, j <= k
      PROVE  Append(s, v)[j] <= Append(s, v)[k]
  <2>1. CASE k = Len(s) + 1  BY <2>1, <1>4, <1>5, <1>2
  <2>2. CASE k # Len(s) + 1
    <3>0. Len(s) \in Nat /\ j \in Nat /\ k \in Nat  BY <1>1
    <3>1. j \in 1 .. Len(s) /\ k \in 1 .. Len(s)  BY <3>0, <2>2, <1>5
    <3>2. j + d \in 1 .. Len(q) /\ k + d \in 1 .. Len(q) /\ j + d <= k + d
      BY <3>1, <1>1, <1>5
    <3>3. q[j + d] <= q[k + d]  BY <3>2 DEF Between
    <3> QED  BY <3>1, <3>3, <1>1, <1>2
  <2> QED  BY <2>1, <2>2
<1> QED  BY <1>2, <1>3, <1>4, <1>5 DEF Between

(* Raising the upper bound. *)
LEMMA BetweenHigher ==
    ASSUME NEW q \in Seq(Nat), NEW lo \in Nat, NEW v \in Nat, NEW w \in Nat, v <= w,
           Between(lo, q, v)
    PROVE  Between(lo, q, w)
BY DEF Between

LEMMA StreamInit_Inv == StreamInit => StreamInv
BY DEF StreamInit, StreamInv, StreamTypes, Phases, InOrder, Between

LEMMA StreamStep_Inv == StreamInv /\ [StreamNext]_streamVars => StreamInv'
<1> SUFFICES ASSUME StreamInv, [StreamNext]_streamVars PROVE StreamInv'
  OBVIOUS
<1> USE DEF StreamInv, StreamTypes, Phases
<1>1. CASE StatusChanges
  <2>1. StreamTypes' /\ status <= status'  BY <1>1 DEF StatusChanges
  <2>2. ASSUME NEW r \in Readers PROVE InOrder(r)'
    <3>1. /\ queue[r] \in Seq(Nat) /\ shown[r] \in Nat /\ item[r] \in Nat
          /\ status \in Nat /\ status' \in Nat
      BY <1>1, <2>1
    <3>2. Between(shown[r], queue[r], status')  BY <2>1, <3>1, BetweenHigher DEF InOrder
    <3>3. phase[r] \in {"greeting", "sending"} => Between(item[r], queue[r], status')
      BY <2>1, <3>1, BetweenHigher DEF InOrder
    <3> QED  BY <1>1, <2>1, <3>1, <3>2, <3>3 DEF InOrder, StatusChanges
  <2> QED  BY <2>1, <2>2
<1>2. CASE Broadcast
  <2>1. ASSUME NEW r \in Readers PROVE queue'[r] \in Seq(Nat) /\ InOrder(r)'
    <3>1. CASE r \notin subscribers  BY <1>2, <3>1 DEF Broadcast, InOrder
    <3>2. CASE r \in subscribers
      <4>1. queue'[r] = Push(queue[r], status)  BY <1>2, <3>2 DEF Broadcast
      <4>2. Push(queue[r], status) \in Seq(Nat)
            /\ Between(shown[r], Push(queue[r], status), status)
        BY PushKeepsOrder DEF InOrder
      <4>3. phase[r] \in {"greeting", "sending"} =>
               Between(item[r], Push(queue[r], status), status)
        BY PushKeepsOrder DEF InOrder
      <4> QED  BY <1>2, <4>1, <4>2, <4>3 DEF Broadcast, InOrder
    <3> QED  BY <3>1, <3>2
  <2>2. StreamTypes'  BY <1>2, <2>1 DEF Broadcast
  <2> QED  BY <2>1, <2>2
<1>3. ASSUME NEW r \in Readers,
             Connect(r) \/ HandlerStep(r) \/ Leaves(r)
      PROVE  StreamInv'
  <2> USE DEF HandlerStep
  <2>0. /\ queue[r] \in Seq(Nat) /\ item[r] \in Nat /\ shown[r] \in Nat /\ status \in Nat
        /\ InOrder(r)
    OBVIOUS
  <2>1. ASSUME StreamTypes', status' = status, InOrder(r)',
               \A s \in Readers \ {r} : /\ queue'[s] = queue[s] /\ phase'[s] = phase[s]
                                        /\ item'[s] = item[s] /\ shown'[s] = shown[s]
        PROVE  StreamInv'
    BY <2>1 DEF InOrder
  <2>2. CASE Connect(r)
    <3>1. InOrder(r)'  BY <2>0, <2>2 DEF Connect, InOrder, Between
    <3> QED  BY <2>1, <2>2, <3>1 DEF Connect
  <2>3. CASE Greet(r)
    <3>1. InOrder(r)'  BY <2>0, <2>3 DEF Greet, Greeting, InOrder
    <3> QED  BY <2>1, <2>3, <3>1 DEF Greet, Greeting
  <2>4. CASE Take(r)
    <3> DEFINE q == queue[r]
    <3>1. /\ Head(q) = q[1] /\ Head(q) \in Nat /\ Tail(q) \in Seq(Nat)
          /\ Len(Tail(q)) = Len(q) - 1 /\ Len(q) \in Nat /\ Len(q) >= 1
          /\ \A k \in 1 .. Len(Tail(q)) : Tail(q)[k] = q[k + 1] /\ k + 1 \in 1 .. Len(q)
      BY <2>0, <2>4 DEF Take
    <3>2. Between(shown[r], q, status)  BY <2>0 DEF InOrder
    <3> HIDE DEF q
    <3>3. shown[r] <= Head(q) /\ Head(q) <= status  BY <3>1, <3>2 DEF Between
    <3>4. Between(Head(q), Tail(q), status)
      <4>1. \A k \in 1 .. Len(Tail(q)) : q[1] <= q[k + 1] /\ q[k + 1] <= status
        BY <3>1, <3>2 DEF Between
      <4>2. \A j, k \in 1 .. Len(Tail(q)) : j <= k => q[j + 1] <= q[k + 1]
        BY <3>1, <3>2 DEF Between
      <4> QED  BY <3>1, <4>1, <4>2 DEF Between
    <3>5. Between(shown[r], Tail(q), status)
      <4>1. \A k \in 1 .. Len(Tail(q)) : Tail(q)[k] \in Nat  BY <3>1
      <4> QED  BY <2>0, <3>1, <3>3, <3>4, <4>1 DEF Between
    <3>6. item'[r] = Head(q) /\ queue'[r] = Tail(q) /\ shown'[r] = shown[r]
          /\ status' = status /\ phase'[r] = "sending"
      BY <2>0, <2>4 DEF Take, q
    <3>7. InOrder(r)'  BY <2>0, <3>3, <3>4, <3>5, <3>6 DEF InOrder
    <3>8. StreamTypes'  BY <2>4, <3>1 DEF Take, q
    <3> QED  BY <2>1, <2>4, <3>7, <3>8 DEF Take
  <2>5. CASE Deliver(r)
    <3>1. InOrder(r)'  BY <2>0, <2>5 DEF Deliver, InOrder
    <3> QED  BY <2>1, <2>5, <3>1 DEF Deliver
  <2>6. CASE DeliverFails(r) \/ PingFails(r)
    <3>1. EndHandler(r)  BY <2>6 DEF DeliverFails, PingFails
    <3>2. InOrder(r)'  BY <2>0, <3>1 DEF EndHandler, InOrder
    <3> QED  BY <2>1, <3>1, <3>2 DEF EndHandler
  <2>7. CASE Leaves(r)
    <3>1. InOrder(r)'  BY <2>0, <2>7 DEF Leaves, InOrder
    <3> QED  BY <2>1, <2>7, <3>1 DEF Leaves
  <2> QED  BY <1>3, <2>2, <2>3, <2>4, <2>5, <2>6, <2>7
<1>4. CASE UNCHANGED streamVars  BY <1>4 DEF streamVars, InOrder
<1> QED  BY <1>1, <1>2, <1>3, <1>4 DEF StreamNext

(* What one step does to what a dashboard shows. *)
LEMMA StreamStep_NeverOlder ==
    StreamInv /\ [StreamNext]_streamVars =>
        \A r \in Readers : open[r] /\ open'[r] => shown'[r] >= shown[r]
<1> SUFFICES ASSUME StreamInv, [StreamNext]_streamVars, NEW r \in Readers, open[r], open'[r]
             PROVE  shown'[r] >= shown[r]
  OBVIOUS
<1>0. shown[r] \in Nat /\ InOrder(r) /\ item[r] \in Nat  BY DEF StreamInv, StreamTypes
<1>1. CASE StatusChanges \/ Broadcast \/ UNCHANGED streamVars
  BY <1>0, <1>1 DEF StatusChanges, Broadcast, streamVars
<1>2. ASSUME NEW s \in Readers, Connect(s) \/ HandlerStep(s) \/ Leaves(s)
      PROVE  shown'[r] >= shown[r]
  <2>1. CASE Connect(s)  BY <1>0, <2>1 DEF Connect, StreamInv, StreamTypes
  <2>2. CASE Greet(s)
    BY <1>0, <2>2 DEF Greet, Greeting, InOrder, StreamInv, StreamTypes
  <2>3. CASE Deliver(s)  BY <1>0, <2>3 DEF Deliver, InOrder, StreamInv, StreamTypes
  <2>4. CASE Take(s) \/ DeliverFails(s) \/ PingFails(s) \/ Leaves(s)
    BY <1>0, <2>4 DEF Take, DeliverFails, PingFails, EndHandler, Leaves
  <2> QED  BY <1>2, <2>1, <2>2, <2>3, <2>4 DEF HandlerStep
<1> QED  BY <1>1, <1>2 DEF StreamNext

-----------------------------------------------------------------------------
(* Whatever the status, the broadcasts, the queues and the dashboards do,  *)
(* a dashboard that stays never shows an older status than it showed:      *)
(* ws_status subscribes before it builds its greeting (api/ws.py), and a   *)
(* full queue drops from its front (broadcast.py).                         *)
THEOREM DashboardsNeverGoBack == StreamSpec => NeverOlder
<1>1. StreamInit => StreamInv  BY StreamInit_Inv
<1>2. StreamInv /\ [StreamNext]_streamVars => StreamInv'  BY StreamStep_Inv
<1>3. StreamInv /\ [StreamNext]_streamVars =>
         [\A r \in Readers : open[r] /\ open'[r] => shown'[r] >= shown[r]]_streamVars
  BY StreamStep_NeverOlder
<1> QED  BY <1>1, <1>2, <1>3, PTL DEF StreamSpec, NeverOlder

-----------------------------------------------------------------------------
(***************************************************************************)
(* The gate of a request, for every deployment and every request.  What a  *)
(* step decides stays true although the next steps look at the paired      *)
(* clients again: an agent's token implies that a credential is configured *)
(* whatever they do, and who was not asked for one was let in by a look    *)
(* that saw none configured.                                               *)
(***************************************************************************)
Passed == step \in {"admitted", "handled"}

GateInv ==
    /\ GateTypeOK
    /\ session.mode = "mcp" => settings.mcp_token
    /\ Passed /\ session.mode = "mcp" => conn.path \notin {"docs", "api"}
    /\ step # "arrived" /\ session.mode = "open" => unlocked
    /\ Passed /\ session.mode = "none" /\ conn.path = "api" => unlocked
    /\ step = "handled" /\ session.mode = "none" => conn.needs = "nothing"

LEMMA GateInit_Inv == GateInit => GateInv
BY DEF GateInit, GateInv, GateTypeOK, Passed, Nobody, Mode

(* What the outer middleware attaches. *)
LEMMA Resolved ==
    ASSUME GateTypeOK, NEW admin \in BOOLEAN
    PROVE  LET s == resolve_session(admin) IN
           /\ s.mode \in {"ingress", "local", "token", "client", "supervisor", "mcp",
                          "open", "none"}
           /\ s.mode = "mcp" => settings.mcp_token
           /\ s.mode = "open" => ~credentials_configured
BY DEF GateTypeOK, resolve_session, _match_provided_token, open_session, has_auth_lock,
   Nobody, Mode

LEMMA GateStep_Inv == GateInv /\ [GateNext]_gateVars => GateInv'
<1> SUFFICES ASSUME GateInv, [GateNext]_gateVars PROVE GateInv'
  OBVIOUS
<1>1. CASE UserContext
  <2>1. PICK admin \in BOOLEAN : session' = resolve_session(admin)
    BY <1>1 DEF UserContext
  <2>2. /\ step' = "resolved" /\ unlocked' = ~credentials_configured
        /\ UNCHANGED <<settings, conn, paired>>
    BY <1>1 DEF UserContext
  <2> QED  BY <2>1, <2>2, Resolved DEF GateInv, GateTypeOK, Passed
<1>2. CASE AuthGate
  BY <1>2
     DEF AuthGate, GateInv, GateTypeOK, Passed, Authenticated, requires_auth_gate,
         credentials_configured
<1>3. CASE Handle
  BY <1>3 DEF Handle, GateInv, GateTypeOK, Passed, Authenticated
<1>4. CASE PairingChanges
  BY <1>4 DEF PairingChanges, GateInv, GateTypeOK, Passed
<1>5. CASE UNCHANGED gateVars
  BY <1>5 DEF gateVars, GateInv, GateTypeOK, Passed
<1> QED  BY <1>1, <1>2, <1>3, <1>4, <1>5 DEF GateNext

(* Whatever the deployment configures, whatever a request carries and      *)
(* whenever clients are paired or revoked in the middle of it, the MCP     *)
(* token reaches no handler of the API or its documentation, and who       *)
(* reaches the API with nothing to show was let in while no credential was *)
(* configured (AuthGateMiddleware and require_authenticated in             *)
(* api/session.py and api/auth.py).                                        *)
THEOREM TheGateHolds == GateSpec => []GateHolds
<1>1. GateInit => GateInv  BY GateInit_Inv
<1>2. GateInv /\ [GateNext]_gateVars => GateInv'  BY GateStep_Inv
<1>3. GateInv => GateHolds  BY DEF GateInv, GateHolds, Passed, Sees
<1> QED  BY <1>1, <1>2, <1>3, PTL DEF GateSpec
-----------------------------------------------------------------------------
(***************************************************************************)
(* Proof that the token file, the administrator's last word and the client *)
(* agree, for any number of authorisations, access tokens and faults.      *)
(*                                                                         *)
(* The invariant carries what each party holds while it awaits the hub:    *)
(* the refresh its copy of the file, a callback the token it was given,    *)
(* and a reconnect the token it resolved.                                  *)
(***************************************************************************)

Files == [grant : Grants \cup {NoGrant}, access : Tokens, degraded : BOOLEAN]

(* The access token of f was issued, for the grant of f. *)
Joined(s, f) ==
    /\ f.grant \in Grants
    /\ f.access \in 1 .. Len(s) /\ s[f.access] = f.grant

FilesJoined ==
    /\ file # NoFile => Joined(issued, file)
    /\ Refreshing => Joined(issued, cyc.data)

CallbacksJoined ==
    \A g \in Grants : cb[g].pc = "answered" =>
        cb[g].tok \in 1 .. Len(issued) /\ issued[cb[g].tok] = g

NewestHeld ==
    ~crossed => file.grant = newest /\ (Refreshing => cyc.data.grant = newest)

(* Unless it has strayed: at most one reconnect is under way, and it or    *)
(* else the client has the stored token.                                   *)
ClientRight ==
    ~strayed =>
       /\ \A a \in Actors : rec[a].pc # "idle" =>
             /\ rec[a].tok = _resolve_ha(file)
             /\ \A b \in Actors : rec[b].pc # "idle" => b = a
       /\ (\A a \in Actors : rec[a].pc = "idle") => tok = _resolve_ha(file)

OAuthInv == TypeOK /\ FilesJoined /\ CallbacksJoined /\ NewestHeld /\ ClientRight

-----------------------------------------------------------------------------
LEMMA Constants ==
    /\ NoGrant \notin Grants /\ 0 \in Tokens /\ NoFile \in Files
    /\ NoFile.grant = NoGrant /\ _resolve_ha(NoFile) = 0
    /\ Idle \in [pc : {"idle", "asking", "answered"}, data : Files,
                 answer : {"none", "token", "invalid_grant", "server_error"}]
    /\ \A f \in Files : _resolve_ha(f) \in Tokens
    /\ \A s, f : Joined(s, f) => f # NoFile
    /\ Grants \subseteq Actors /\ Cycle \in Actors /\ Admin \in Actors
BY OAuthAssumption DEF Tokens, NoFile, Files, Idle, _resolve_ha, Joined, Actors

LEMMA Init_Inv == Init => OAuthInv
<1> SUFFICES ASSUME Init PROVE OAuthInv
  OBVIOUS
<1>1. TypeOK
  <2>1. /\ issued \in Seq(Grants) /\ Len(issued) <= MaxIssued /\ faults \in 0 .. MaxFaults
    BY OAuthAssumption DEF Init
  <2>2. /\ cb \in [Grants -> [pc : {"idle", "asking", "answered"}, tok : Tokens]]
        /\ rec \in [Actors -> [pc : {"idle", "resolved"}, tok : Tokens]]
        /\ pending \in [state : Grants \cup {NoGrant}, expired : BOOLEAN]
    BY Constants DEF Init, NoCallback, NotRebuilding, NoAuthorization
  <2> QED  BY <2>1, <2>2, Constants DEF Init, TypeOK, Files
<1> QED
  BY <1>1, Constants
     DEF Init, OAuthInv, FilesJoined, CallbacksJoined, NewestHeld, ClientRight,
         Refreshing, NoCallback, NotRebuilding, Idle

(* A token issued since leaves what was joined joined. *)
LEMMA AppendJoined ==
    ASSUME NEW s \in Seq(Grants), NEW g \in Grants
    PROVE  /\ Append(s, g) \in Seq(Grants) /\ Len(Append(s, g)) = Len(s) + 1
           /\ Len(s) \in Nat /\ Append(s, g)[Len(s) + 1] = g
           /\ \A k \in 1 .. Len(s) : k \in 1 .. Len(Append(s, g)) /\ Append(s, g)[k] = s[k]
           /\ \A f : Joined(s, f) => Joined(Append(s, g), f)
BY DEF Joined

(* What a reconnect called on the file as it becomes does to the client. *)
LEMMA Reconnects ==
    ASSUME TypeOK, ClientRight, NEW a \in Actors, file' \in Files,
           Reconnect(a, file'), tok' = tok
    PROVE  /\ rec' \in [Actors -> [pc : {"idle", "resolved"}, tok : Tokens]]
           /\ strayed' \in BOOLEAN
           /\ ClientRight'
<1>1. /\ rec \in [Actors -> [pc : {"idle", "resolved"}, tok : Tokens]]
      /\ strayed \in BOOLEAN /\ _resolve_ha(file') \in Tokens
  BY Constants DEF TypeOK
<1>2. /\ rec' = [rec EXCEPT ![a] = [pc |-> "resolved", tok |-> _resolve_ha(file')]]
      /\ strayed' = (strayed \/ Rebuilding # {})
  BY DEF Reconnect
<1>3. rec' \in [Actors -> [pc : {"idle", "resolved"}, tok : Tokens]]  BY <1>1, <1>2
<1>4. strayed' \in BOOLEAN  BY <1>1, <1>2
<1>5. ClientRight'
  <2> SUFFICES ASSUME ~strayed'
               PROVE  /\ \A b \in Actors : rec'[b].pc # "idle" =>
                            /\ rec'[b].tok = _resolve_ha(file')
                            /\ \A c \in Actors : rec'[c].pc # "idle" => c = b
                      /\ (\A b \in Actors : rec'[b].pc = "idle") => tok' = _resolve_ha(file')
    BY DEF ClientRight, _resolve_ha, NoFile
  <2>1. \A b \in Actors : rec[b].pc = "idle"  BY <1>2 DEF Rebuilding
  <2>2. rec'[a] = [pc |-> "resolved", tok |-> _resolve_ha(file')]  BY <1>1, <1>2
  <2>3. \A b \in Actors \ {a} : rec'[b] = rec[b]  BY <1>1, <1>2
  <2>4. rec'[a].pc = "resolved" /\ rec'[a].tok = _resolve_ha(file')  BY <2>2
  <2>5. \A b \in Actors : rec'[b].pc # "idle" => b = a  BY <2>1, <2>3
  <2> QED  BY <2>4, <2>5
<1> QED  BY <1>3, <1>4, <1>5

(* The parts of the invariant that depend on few variables. *)
LEMMA Frames ==
    /\ FilesJoined /\ UNCHANGED <<file, issued, cyc>> => FilesJoined'
    /\ CallbacksJoined /\ UNCHANGED <<issued, cb>> => CallbacksJoined'
    /\ NewestHeld /\ UNCHANGED <<crossed, file, newest, cyc>> => NewestHeld'
    /\ ClientRight /\ UNCHANGED <<strayed, rec, tok, file>> => ClientRight'
<1>1. FilesJoined /\ UNCHANGED <<file, issued, cyc>> => FilesJoined'
  BY DEF FilesJoined, Refreshing, NoFile
<1>2. CallbacksJoined /\ UNCHANGED <<issued, cb>> => CallbacksJoined'
  BY DEF CallbacksJoined
<1>3. NewestHeld /\ UNCHANGED <<crossed, file, newest, cyc>> => NewestHeld'
  BY DEF NewestHeld, Refreshing
<1>4. ClientRight /\ UNCHANGED <<strayed, rec, tok, file>> => ClientRight'
  BY DEF ClientRight, _resolve_ha, NoFile
<1> QED  BY <1>1, <1>2, <1>3, <1>4

-----------------------------------------------------------------------------
(* Every step of the refresh keeps the invariant. *)
LEMMA Cycle_Inv == OAuthInv /\ CycleStep => OAuthInv'
<1> SUFFICES ASSUME OAuthInv, CycleStep PROVE OAuthInv'
  OBVIOUS
<1> USE DEF hubVars, fileVars, historyVars
<1>0. /\ TypeOK /\ FilesJoined /\ CallbacksJoined /\ NewestHeld /\ ClientRight
      /\ file \in Files /\ cyc.data \in Files /\ issued \in Seq(Grants)
      /\ cyc \in [pc : {"idle", "asking", "answered"}, data : Files,
                  answer : {"none", "token", "invalid_grant", "server_error"}]
  BY DEF OAuthInv, TypeOK, Files
<1>1. CASE RefreshSends
  <2>1. cyc' = [pc |-> "asking", data |-> file, answer |-> "none"] /\ file # NoFile
    BY <1>1 DEF RefreshSends
  <2>2. TypeOK'  BY <1>0, <1>1, <2>1 DEF RefreshSends, TypeOK, Files
  <2>3. FilesJoined' /\ NewestHeld'
    BY <1>0, <1>1, <2>1 DEF RefreshSends, FilesJoined, NewestHeld, Refreshing
  <2> QED  BY <1>0, <1>1, <2>2, <2>3, Frames DEF RefreshSends, OAuthInv
<1>2. CASE RefreshGranted
  <2> DEFINE g == cyc.data.grant
  <2>1. Joined(issued, cyc.data) /\ g \in Grants
    BY <1>0, <1>2 DEF RefreshGranted, FilesJoined, Refreshing, Joined
  <2>2. /\ issued' = Append(issued, g) /\ Len(issued) < MaxIssued
        /\ cyc' = [cyc EXCEPT !.pc = "answered", !.answer = "token",
                              !.data.access = Len(issued) + 1, !.data.degraded = FALSE]
        /\ UNCHANGED <<hub, expired, live, codes, faults, fileVars, cb, rec, tok, historyVars>>
    BY <1>2 DEF RefreshGranted
  <2>3. /\ issued' \in Seq(Grants) /\ Len(issued') = Len(issued) + 1 /\ Len(issued) \in Nat
        /\ issued'[Len(issued) + 1] = g
        /\ \A k \in 1 .. Len(issued) : k \in 1 .. Len(issued') /\ issued'[k] = issued[k]
        /\ \A f : Joined(issued, f) => Joined(issued', f)
    BY <1>0, <2>1, <2>2, AppendJoined
  <2>4. /\ cyc'.data.grant = g /\ cyc'.data.access = Len(issued) + 1
        /\ cyc' \in [pc : {"idle", "asking", "answered"}, data : Files,
                     answer : {"none", "token", "invalid_grant", "server_error"}]
    <3>1. Len(issued) + 1 \in Tokens  BY <2>2, <2>3, OAuthAssumption DEF Tokens
    <3>2. [cyc.data EXCEPT !.access = Len(issued) + 1, !.degraded = FALSE] \in Files
      BY <1>0, <3>1 DEF Files
    <3>3. cyc' = [pc |-> "answered", answer |-> "token",
                  data |-> [cyc.data EXCEPT !.access = Len(issued) + 1, !.degraded = FALSE]]
      BY <1>0, <2>2 DEF Files
    <3>4. cyc'.data = [cyc.data EXCEPT !.access = Len(issued) + 1, !.degraded = FALSE]
      BY <3>3
    <3> QED  BY <1>0, <3>2, <3>3, <3>4 DEF Files
  <2>5. TypeOK'  BY <1>0, <2>2, <2>3, <2>4, OAuthAssumption DEF TypeOK, Files, Tokens
  <2>6. FilesJoined'
    <3>1. Joined(issued', cyc'.data)  BY <2>1, <2>3, <2>4 DEF Joined
    <3>2. file # NoFile => Joined(issued', file)  BY <1>0, <2>3 DEF FilesJoined
    <3> QED  BY <2>2, <3>1, <3>2 DEF FilesJoined, NoFile
  <2>7. CallbacksJoined'  BY <1>0, <2>2, <2>3 DEF CallbacksJoined
  <2>8. NewestHeld'
    BY <1>0, <1>2, <2>2, <2>4 DEF NewestHeld, Refreshing, RefreshGranted
  <2> QED  BY <1>0, <2>2, <2>5, <2>6, <2>7, <2>8, Frames DEF OAuthInv
<1>3. CASE RefreshRejected \/ RefreshErrors
  <2>1. /\ cyc.pc = "asking" /\ cyc'.pc = "answered" /\ cyc'.data = cyc.data
        /\ cyc' \in [pc : {"idle", "asking", "answered"}, data : Files,
                     answer : {"none", "token", "invalid_grant", "server_error"}]
        /\ UNCHANGED <<issued, fileVars, cb, rec, tok, historyVars>>
        /\ UNCHANGED <<hub, expired, live, codes>> /\ faults' \in 0 .. MaxFaults
    <3>1. CASE RefreshRejected
      BY <1>0, <3>1 DEF RefreshRejected, TypeOK
    <3>2. CASE RefreshErrors
      <4>1. faults' \in 0 .. MaxFaults
        BY <1>0, <3>2, OAuthAssumption DEF RefreshErrors, TypeOK
      <4> QED  BY <1>0, <3>2, <4>1 DEF RefreshErrors
    <3> QED  BY <1>3, <3>1, <3>2
  <2>2. TypeOK'  BY <1>0, <2>1 DEF TypeOK, Files
  <2>3. FilesJoined' /\ NewestHeld'
    BY <1>0, <2>1 DEF FilesJoined, NewestHeld, Refreshing, NoFile
  <2> QED  BY <1>0, <2>1, <2>2, <2>3, Frames DEF OAuthInv
<1>4. CASE RefreshUnreachable
  <2>1. TypeOK'  BY <1>0, <1>4, Constants DEF RefreshUnreachable, TypeOK, Files
  <2>2. FilesJoined' /\ NewestHeld'
    BY <1>0, <1>4 DEF RefreshUnreachable, FilesJoined, NewestHeld, Refreshing, NoFile, Idle
  <2> QED  BY <1>0, <1>4, <2>1, <2>2, Frames DEF RefreshUnreachable, OAuthInv
<1>5. CASE RefreshStores
  <2>1. /\ file' = cyc.data /\ cyc' = Idle /\ Reconnect(Cycle, file')
        /\ UNCHANGED <<hubVars, pending, started, cb, tok, newest, crossed>>
    BY <1>5 DEF RefreshStores
  <2>2. /\ rec' \in [Actors -> [pc : {"idle", "resolved"}, tok : Tokens]]
        /\ strayed' \in BOOLEAN /\ ClientRight'
    BY <1>0, <2>1, Constants, Reconnects
  <2>3. TypeOK'  BY <1>0, <2>1, <2>2, Constants DEF TypeOK, Files
  <2>4. FilesJoined' /\ NewestHeld'
    BY <1>0, <1>5, <2>1
       DEF RefreshStores, FilesJoined, NewestHeld, Refreshing, Idle
  <2> QED  BY <1>0, <2>1, <2>2, <2>3, <2>4, Frames DEF OAuthInv
<1>6. CASE RefreshClears
  <2>1. TypeOK'
    BY <1>0, <1>6, Constants DEF RefreshClears, TypeOK, Files, NoAuthorization
  <2>2. FilesJoined' /\ NewestHeld' /\ ClientRight'
    BY <1>0, <1>6, Constants
       DEF RefreshClears, FilesJoined, NewestHeld, ClientRight, Refreshing, Idle, NoFile
  <2> QED  BY <1>0, <1>6, <2>1, <2>2, Frames DEF RefreshClears, OAuthInv
<1>7. CASE RefreshDegrades
  <2>1. /\ file' = [cyc.data EXCEPT !.degraded = TRUE] /\ cyc' = Idle /\ strayed' = TRUE
        /\ UNCHANGED <<hubVars, pending, started, cb, rec, tok, newest, crossed>>
        /\ cyc.pc = "answered"
    BY <1>7 DEF RefreshDegrades
  <2>2. file' \in Files /\ file'.grant = cyc.data.grant /\ file'.access = cyc.data.access
    BY <1>0, <2>1 DEF Files
  <2>3. TypeOK'  BY <1>0, <2>1, <2>2, Constants DEF TypeOK, Files
  <2>4. FilesJoined' /\ NewestHeld' /\ ClientRight'
    BY <1>0, <2>1, <2>2, Constants
       DEF FilesJoined, NewestHeld, ClientRight, Refreshing, Idle, Joined
  <2> QED  BY <1>0, <2>1, <2>3, <2>4, Frames DEF OAuthInv
<1> QED  BY <1>1, <1>2, <1>3, <1>4, <1>5, <1>6, <1>7 DEF CycleStep

(* Every step of an authorisation keeps the invariant. *)
LEMMA Callback_Inv ==
    ASSUME OAuthInv, NEW g \in Grants, CallbackStep(g)
    PROVE  OAuthInv'
<1> USE DEF hubVars, fileVars, historyVars
<1>0. /\ TypeOK /\ FilesJoined /\ CallbacksJoined /\ NewestHeld /\ ClientRight
      /\ file \in Files /\ issued \in Seq(Grants) /\ Len(issued) \in Nat
      /\ cb \in [Grants -> [pc : {"idle", "asking", "answered"}, tok : Tokens]]
  BY DEF OAuthInv, TypeOK, Files
<1>1. CASE CallbackSends(g) \/ CallbackFails(g)
  <2>1. /\ cb' \in [Grants -> [pc : {"idle", "asking", "answered"}, tok : Tokens]]
        /\ \A h \in Grants : cb'[h].pc = "answered" => cb'[h] = cb[h]
        /\ UNCHANGED <<hubVars, fileVars, cyc, rec, tok, historyVars>>
    BY <1>0, <1>1, Constants DEF CallbackSends, CallbackFails, NoCallback
  <2>2. TypeOK'  BY <1>0, <2>1 DEF TypeOK, Files
  <2>3. CallbacksJoined'  BY <1>0, <2>1 DEF CallbacksJoined
  <2> QED  BY <1>0, <2>1, <2>2, <2>3, Frames DEF OAuthInv
<1>2. CASE CallbackTooLate(g)
  <2>1. TypeOK'  BY <1>0, <1>2 DEF CallbackTooLate, TypeOK, Files, NoAuthorization
  <2> QED  BY <1>0, <1>2, <2>1, Frames DEF CallbackTooLate, OAuthInv
<1>3. CASE HubRedeems(g)
  <2>1. /\ issued' = Append(issued, g) /\ Len(issued) < MaxIssued
        /\ cb' = [cb EXCEPT ![g] = [pc |-> "answered", tok |-> Len(issued) + 1]]
        /\ UNCHANGED <<hub, expired, faults, fileVars, cyc, rec, tok, historyVars>>
        /\ codes' = codes \cup {g} /\ live' = live \cup {g}
    BY <1>3 DEF HubRedeems
  <2>2. /\ issued' \in Seq(Grants) /\ Len(issued') = Len(issued) + 1
        /\ issued'[Len(issued) + 1] = g
        /\ \A k \in 1 .. Len(issued) : k \in 1 .. Len(issued') /\ issued'[k] = issued[k]
        /\ \A f : Joined(issued, f) => Joined(issued', f)
    BY <1>0, <2>1, AppendJoined
  <2>3. Len(issued) + 1 \in Tokens  BY <1>0, <2>1, OAuthAssumption DEF Tokens
  <2>4. TypeOK'
    BY <1>0, <2>1, <2>2, <2>3, OAuthAssumption DEF TypeOK, Files
  <2>5. FilesJoined'
    BY <1>0, <2>1, <2>2 DEF FilesJoined, Refreshing, NoFile
  <2>6. CallbacksJoined'
    <3>1. ASSUME NEW h \in Grants, cb'[h].pc = "answered"
          PROVE  cb'[h].tok \in 1 .. Len(issued') /\ issued'[cb'[h].tok] = h
      <4>1. CASE h = g  BY <1>0, <2>1, <2>2, <4>1
      <4>2. CASE h # g
        <5>1. cb'[h] = cb[h]  BY <1>0, <2>1, <4>2
        <5> QED  BY <1>0, <2>2, <3>1, <5>1 DEF CallbacksJoined
      <4> QED  BY <4>1, <4>2
    <3> QED  BY <3>1 DEF CallbacksJoined
  <2> QED  BY <1>0, <2>1, <2>4, <2>5, <2>6, Frames DEF OAuthInv
<1>4. CASE finish_authorize(g)
  <2>1. /\ file' = [grant |-> g, access |-> cb[g].tok, degraded |-> FALSE]
        /\ pending' = NoAuthorization /\ cb' = [cb EXCEPT ![g] = NoCallback]
        /\ Reconnect(g, file') /\ newest' = g /\ crossed' = Refreshing
        /\ UNCHANGED <<hubVars, started, cyc, tok>> /\ cb[g].pc = "answered"
    BY <1>4 DEF finish_authorize
  <2>2. file' \in Files /\ g \in Actors  BY <1>0, <2>1, Constants DEF Files
  <2>3. /\ rec' \in [Actors -> [pc : {"idle", "resolved"}, tok : Tokens]]
        /\ strayed' \in BOOLEAN /\ ClientRight'
    BY <1>0, <2>1, <2>2, Reconnects
  <2>4. TypeOK'
    BY <1>0, <2>1, <2>2, <2>3, Constants
       DEF TypeOK, Files, NoAuthorization, NoCallback, Refreshing
  <2>5. FilesJoined'
    <3>1. Joined(issued, file')  BY <1>0, <2>1 DEF Joined, CallbacksJoined
    <3> QED  BY <1>0, <2>1, <3>1 DEF FilesJoined, Refreshing
  <2>6. CallbacksJoined'  BY <1>0, <2>1 DEF CallbacksJoined, NoCallback
  <2>7. NewestHeld'  BY <2>1 DEF NewestHeld, Refreshing
  <2> QED  BY <2>3, <2>4, <2>5, <2>6, <2>7 DEF OAuthInv
<1> QED  BY <1>1, <1>2, <1>3, <1>4 DEF CallbackStep

(* So do reconnects, the routes, the hub, time and restarts. *)
LEMMA Rest_Inv ==
    ASSUME OAuthInv,
           \/ \E g \in Grants : start_authorize(g) \/ HubRevokes(g)
           \/ \E a \in Actors : BuildClient(a)
           \/ Disconnect \/ retry_ha_connection
           \/ HubChanges \/ TokenExpires \/ PendingExpires \/ CrashRestart
    PROVE  OAuthInv'
<1> USE DEF hubVars, fileVars, historyVars
<1>0. /\ TypeOK /\ FilesJoined /\ CallbacksJoined /\ NewestHeld /\ ClientRight
      /\ file \in Files /\ issued \in Seq(Grants) /\ Len(issued) \in Nat
      /\ rec \in [Actors -> [pc : {"idle", "resolved"}, tok : Tokens]]
  BY DEF OAuthInv, TypeOK, Files
<1>1. ASSUME NEW g \in Grants, start_authorize(g) \/ HubRevokes(g) PROVE OAuthInv'
  <2>1. TypeOK'
    <3>1. CASE start_authorize(g)
      BY <1>0, <3>1 DEF start_authorize, TypeOK, Files
    <3>2. CASE HubRevokes(g)
      BY <1>0, <3>2 DEF HubRevokes, TypeOK, Files
    <3> QED  BY <1>1, <3>1, <3>2
  <2> QED  BY <1>0, <1>1, <2>1, Frames DEF start_authorize, HubRevokes, OAuthInv
<1>2. ASSUME NEW a \in Actors, BuildClient(a) PROVE OAuthInv'
  <2>1. /\ rec[a].pc = "resolved" /\ tok' = rec[a].tok
        /\ rec' = [rec EXCEPT ![a] = NotRebuilding]
        /\ strayed' = (strayed /\ (Rebuilding # {a} \/ rec[a].tok # _resolve_ha(file)))
        /\ UNCHANGED <<hubVars, fileVars, cyc, cb, newest, crossed>>
    BY <1>2 DEF BuildClient
  <2>2. TypeOK'
    BY <1>0, <2>1, Constants DEF TypeOK, Files, NotRebuilding
  <2>3. ClientRight'
    <3> SUFFICES ASSUME ~strayed'
                 PROVE  /\ \A b \in Actors : rec'[b].pc = "idle"
                        /\ tok' = _resolve_ha(file)
      BY <2>1 DEF ClientRight, _resolve_ha, NoFile
    <3>1. /\ rec[a].tok = _resolve_ha(file)
          /\ \A b \in Actors : rec[b].pc # "idle" => b = a
      BY <1>0, <2>1 DEF ClientRight, Rebuilding
    <3> QED  BY <1>0, <2>1, <3>1 DEF NotRebuilding
  <2> QED  BY <1>0, <2>1, <2>2, <2>3, Frames DEF OAuthInv
<1>3. CASE Disconnect
  <2>1. /\ file' = NoFile /\ pending' = NoAuthorization /\ Reconnect(Admin, file')
        /\ newest' = NoGrant /\ crossed' = Refreshing
        /\ UNCHANGED <<hubVars, started, cyc, cb, tok>>
    BY <1>3 DEF Disconnect
  <2>2. /\ rec' \in [Actors -> [pc : {"idle", "resolved"}, tok : Tokens]]
        /\ strayed' \in BOOLEAN /\ ClientRight'
    BY <1>0, <2>1, Constants, Reconnects
  <2>3. TypeOK'
    BY <1>0, <2>1, <2>2, Constants DEF TypeOK, Files, NoAuthorization, Refreshing
  <2>4. FilesJoined' /\ NewestHeld'
    BY <1>0, <2>1, Constants DEF FilesJoined, NewestHeld, Refreshing, NoFile
  <2> QED  BY <1>0, <2>1, <2>2, <2>3, <2>4, Frames DEF OAuthInv
<1>4. CASE retry_ha_connection
  <2>1. /\ file' = file /\ Reconnect(Admin, file') /\ faults' = faults + 1
        /\ faults < MaxFaults
        /\ UNCHANGED <<hub, issued, expired, live, codes, fileVars, cyc, cb, tok, newest, crossed>>
    BY <1>4 DEF retry_ha_connection
  <2>2. /\ rec' \in [Actors -> [pc : {"idle", "resolved"}, tok : Tokens]]
        /\ strayed' \in BOOLEAN /\ ClientRight'
    BY <1>0, <2>1, Constants, Reconnects
  <2>3. TypeOK'
    BY <1>0, <2>1, <2>2, OAuthAssumption DEF TypeOK, Files
  <2> QED  BY <1>0, <2>1, <2>2, <2>3, Frames DEF OAuthInv
<1>5. CASE HubChanges \/ TokenExpires \/ PendingExpires
  <2>1. TypeOK'
    <3>1. CASE HubChanges
      <4>1. hub' \in {"up", "down"} /\ faults' \in 0 .. MaxFaults
        BY <1>0, <3>1, OAuthAssumption DEF HubChanges, TypeOK
      <4> QED  BY <1>0, <3>1, <4>1 DEF HubChanges, TypeOK, Files
    <3>2. CASE TokenExpires
      <4>1. expired' \in Tokens
        BY <1>0, <3>2, OAuthAssumption DEF TokenExpires, TypeOK, Tokens
      <4>2. UNCHANGED <<hub, issued, live, codes, faults, file, pending, started>>
        BY <3>2 DEF TokenExpires, fileVars
      <4>3. UNCHANGED <<cyc, cb, rec, tok, newest, crossed, strayed>>
        BY <3>2 DEF TokenExpires, historyVars
      <4> QED  BY <1>0, <4>1, <4>2, <4>3 DEF TypeOK
    <3>3. CASE PendingExpires
      <4>1. pending' \in [state : Grants \cup {NoGrant}, expired : BOOLEAN]
        BY <1>0, <3>3 DEF PendingExpires, TypeOK
      <4>2. UNCHANGED <<hubVars, file, started, cyc, cb, rec, tok, historyVars>>
        BY <3>3 DEF PendingExpires
      <4> QED  BY <1>0, <4>1, <4>2 DEF TypeOK, hubVars, historyVars
    <3> QED  BY <1>5, <3>1, <3>2, <3>3
  <2> QED
    BY <1>0, <1>5, <2>1, Frames DEF HubChanges, TokenExpires, PendingExpires, OAuthInv
<1>6. CASE CrashRestart
  <2>1. /\ cyc' = Idle /\ cb' = [g \in Grants |-> NoCallback]
        /\ rec' = [a \in Actors |-> NotRebuilding] /\ tok' = _resolve_ha(file)
        /\ crossed' = FALSE /\ strayed' = FALSE /\ newest' = file.grant
        /\ faults < MaxFaults /\ faults' = faults + 1
        /\ UNCHANGED <<hub, issued, expired, live, codes, fileVars>>
    BY <1>6 DEF CrashRestart
  <2>2. TypeOK'
    <3>1. faults' \in 0 .. MaxFaults  BY <1>0, <2>1, OAuthAssumption DEF TypeOK
    <3>2. /\ cb' \in [Grants -> [pc : {"idle", "asking", "answered"}, tok : Tokens]]
          /\ rec' \in [Actors -> [pc : {"idle", "resolved"}, tok : Tokens]]
          /\ tok' \in Tokens /\ newest' \in Grants \cup {NoGrant}
      BY <1>0, <2>1, Constants DEF NoCallback, NotRebuilding, Files
    <3>3. /\ cyc' \in [pc : {"idle", "asking", "answered"}, data : Files,
                       answer : {"none", "token", "invalid_grant", "server_error"}]
          /\ crossed' \in BOOLEAN /\ strayed' \in BOOLEAN
      BY <2>1, Constants DEF Idle, NoFile, Files
    <3> QED  BY <1>0, <2>1, <3>1, <3>2, <3>3 DEF TypeOK, Files, fileVars
  <2>3. FilesJoined' /\ CallbacksJoined' /\ NewestHeld'
    BY <1>0, <2>1
       DEF FilesJoined, CallbacksJoined, NewestHeld, Refreshing, Idle, NoCallback, NoFile
  <2>4. ClientRight'
    BY <2>1 DEF ClientRight, NotRebuilding, _resolve_ha, NoFile
  <2> QED  BY <2>2, <2>3, <2>4 DEF OAuthInv
<1> QED  BY <1>1, <1>2, <1>3, <1>4, <1>5, <1>6

LEMMA Step_Inv == OAuthInv /\ [Next]_vars => OAuthInv'
<1> SUFFICES ASSUME OAuthInv, [Next]_vars PROVE OAuthInv'
  OBVIOUS
<1>1. CASE CycleStep  BY <1>1, Cycle_Inv
<1>2. ASSUME NEW g \in Grants, CallbackStep(g) PROVE OAuthInv'  BY <1>2, Callback_Inv
<1>3. CASE UNCHANGED vars
  <2>1. TypeOK'  BY <1>3 DEF OAuthInv, TypeOK, vars
  <2> QED  BY <1>3, <2>1, Frames DEF OAuthInv, vars
<1> QED  BY <1>1, <1>2, <1>3, Rest_Inv DEF Next

-----------------------------------------------------------------------------
(* Through refreshes, callbacks, disconnects, reconnects and restarts in   *)
(* any order, ha_oauth.json joins an access token with its own refresh     *)
(* token, is of the authorisation obtained last unless a refresh crossed   *)
(* it (oauth.py:390), and is what the client was built with unless two     *)
(* reconnects crossed or a refresh gave the token up.                      *)
THEOREM TokensStayTogether == Spec => []TokensAgree
<1>1. Init => OAuthInv  BY Init_Inv
<1>2. OAuthInv /\ [Next]_vars => OAuthInv'  BY Step_Inv
<1>3. OAuthInv => TokensAgree
  BY DEF OAuthInv, TokensAgree, TokensOfOneGrant, NewestGrantIsKept,
         ClientUsesStoredToken, FilesJoined, Joined, NewestHeld, ClientRight, Rebuilding
<1> QED  BY <1>1, <1>2, <1>3, PTL DEF Spec
=============================================================================
