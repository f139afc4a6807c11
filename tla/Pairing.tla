------------------------------ MODULE Pairing ------------------------------
(***************************************************************************)
(* Pairing of machine clients (auth/api_clients.py, api/pair_routes.py).   *)
(*                                                                         *)
(* An administrator has a one-time code issued; whoever redeems it in time *)
(* becomes a paired client with a token of its own, until it is revoked.   *)
(* The file api_clients.json holds the pending code, the last redeemed one *)
(* and the clients.  Every operation runs in a thread of its own, under    *)
(* one lock, and in two steps here: it reads the file, then it decides and *)
(* writes the file back whole.  Between the two the process may stop or    *)
(* the disk may fail; the lists behind the two rate limits are in memory.  *)
(***************************************************************************)
EXTENDS AccessClock, Sequences, FiniteSets, SequencesExt

CONSTANTS
    Codes,            \* codes secrets.choice may draw, each at most once
    Hosts,            \* addresses a redemption comes from
    NoCode,           \* no code
    CodeTTL,          \* CODE_TTL_SECONDS, in ticks
    BurnAfter,        \* REDEEM_BURN_AFTER_FAILS
    RedeemMax,        \* REDEEM_MAX_PER_WINDOW
    RedeemWindow,     \* REDEEM_WINDOW_SECONDS
    GenerateMax,      \* GENERATE_MAX_PER_HOUR
    GenerateWindow,   \* the hour of GENERATE_MAX_PER_HOUR
    MaxStoreFaults    \* bound of the model: reads and writes that fail

ASSUME PairingAssumption ==
    /\ MaxNow \in Nat /\ CodeTTL \in Nat
    /\ BurnAfter \in Nat \ {0}

VARIABLES
    store,      \* api_clients.json
    inside,     \* the operation that holds _lock, with what it read
    generated,  \* _generate_times
    failed,     \* _redeem_fails, by address
    storeFaults,
    issue,      \* history: the code issued last, and what became of it
    minted,     \* history: the code that minted the client of each number
    revoked,    \* history: the clients revoked
    lost        \* history: the clients written over after an unreadable file

pairingVars == <<store, inside, generated, failed, storeFaults, issue, minted, revoked, lost>>

NoPending == [code |-> NoCode, until |-> 0, fails |-> 0]
Unreadable == [pending |-> NoPending, clients |-> {}]

PairingInit ==
    /\ store = Unreadable           \* no file yet: _read_store returns the same
    /\ inside = {}
    /\ generated = <<>>
    /\ failed = [h \in Hosts |-> <<>>]
    /\ storeFaults = 0
    /\ issue = [code |-> NoCode, until |-> 0, wrong |-> 0, open |-> FALSE]
    /\ minted = <<>>
    /\ revoked = {}
    /\ lost = {}

Recent(times, window) == SelectSeq(times, LAMBDA t : t + window >= now)

(* Mutant of MayEnter: without the lock. *)
MayEnter_Unlocked == Cardinality(inside) < 2

(* _lock: nobody else is inside. *)
MayEnter == inside = {}

-----------------------------------------------------------------------------
(* Entering an operation: the rate limit where it has one, and the file    *)
(* read, which an I/O or a decoding error turns into an empty one.         *)

ReadStore(read) ==
    \/ read = store /\ UNCHANGED storeFaults
    \/ /\ storeFaults < MaxStoreFaults
       /\ storeFaults' = storeFaults + 1
       /\ read = Unreadable

Enter(call) ==
    /\ MayEnter
    /\ \E read \in {store, Unreadable} :
          /\ ReadStore(read)
          /\ inside' = inside \cup {[call |-> call, read |-> read]}
    /\ UNCHANGED <<store, issue, minted, revoked, lost, now>>

Call(op, code, host, client) ==
    [op |-> op, code |-> code, host |-> host, client |-> client]

EnterStart ==
    LET recent == Recent(generated, GenerateWindow) IN
    /\ Len(recent) < GenerateMax
    /\ generated' = Append(recent, now)
    /\ Enter(Call("start", NoCode, "", 0))
    /\ UNCHANGED failed

EnterRedeem(code, host) ==
    LET recent == Recent(failed[host], RedeemWindow) IN
    /\ Len(recent) < RedeemMax
    /\ failed' = [failed EXCEPT ![host] = recent]
    /\ Enter(Call("redeem", code, host, 0))
    /\ UNCHANGED generated

EnterOther ==
    /\ \/ \E op \in {"cancel", "status"} : Enter(Call(op, NoCode, "", 0))
       \/ \E op \in {"revoke", "match"}, c \in 1 .. Len(minted) :
             Enter(Call(op, NoCode, "", c))
    /\ UNCHANGED <<generated, failed>>

-----------------------------------------------------------------------------
(* Leaving it: the decision, and the file written back.                    *)

Writes(t, new) ==
    /\ t \in inside
    /\ inside' = inside \ {t}
    /\ store' = new
    /\ lost' = IF t.read = Unreadable THEN lost \cup (store.clients \ new.clients) ELSE lost
    /\ UNCHANGED <<storeFaults, generated, now>>

Keeps(t) ==
    /\ t \in inside
    /\ inside' = inside \ {t}
    /\ UNCHANGED <<store, lost, storeFaults, generated, now>>

Expired(pending) == pending.until <= now

StartPairing(t) ==
    /\ t.call.op = "start"
    /\ \E code \in Codes \ ({issue.code} \cup ToSet(minted)) :
          LET until == now + CodeTTL IN
          /\ Writes(t, [t.read EXCEPT
                          !.pending = [code |-> code, until |-> until, fails |-> 0]])
          /\ issue' = [code |-> code, until |-> until, wrong |-> 0, open |-> TRUE]
    /\ UNCHANGED <<failed, minted, revoked>>

CancelPairing(t) ==
    /\ t.call.op = "cancel"
    /\ Writes(t, [t.read EXCEPT !.pending = NoPending])
    /\ issue' = [issue EXCEPT !.open = FALSE]
    /\ UNCHANGED <<failed, minted, revoked>>

(* Asking how a pending code fares drops it once it has expired. *)
PendingStatus(t) ==
    /\ t.call.op = "status"
    /\ IF t.read.pending # NoPending /\ Expired(t.read.pending)
         THEN /\ Writes(t, [t.read EXCEPT !.pending = NoPending])
              /\ issue' = [issue EXCEPT !.open = FALSE]
         ELSE Keeps(t) /\ UNCHANGED issue
    /\ UNCHANGED <<failed, minted, revoked>>

CountFail(t) ==
    failed' = [failed EXCEPT ![t.call.host] = Append(@, now)]

(* No code pends.  last_redeemed only words the refusal (409 or 400).      *)
RedeemNothing(t) ==
    /\ t.call.op = "redeem"
    /\ t.read.pending = NoPending
    /\ CountFail(t)
    /\ Keeps(t)
    /\ UNCHANGED <<issue, minted, revoked>>

RedeemExpired(t) ==
    /\ t.call.op = "redeem"
    /\ t.read.pending # NoPending
    /\ Expired(t.read.pending)
    /\ Writes(t, [t.read EXCEPT !.pending = NoPending])
    /\ issue' = [issue EXCEPT !.open = FALSE]
    /\ UNCHANGED <<failed, minted, revoked>>

(* Mutant of AfterWrong: wrong codes are not counted in the file. *)
AfterWrong_Uncounted(pending) == pending

(* What a wrong code leaves pending: its failures are counted in the file, *)
(* and the tenth takes the code away.                                      *)
AfterWrong(pending) ==
    IF pending.fails + 1 >= BurnAfter
      THEN NoPending
      ELSE [pending EXCEPT !.fails = @ + 1]

RedeemWrong(t) ==
    /\ t.call.op = "redeem"
    /\ t.read.pending # NoPending
    /\ ~Expired(t.read.pending)
    /\ t.call.code # t.read.pending.code
    /\ Writes(t, [t.read EXCEPT !.pending = AfterWrong(t.read.pending)])
    /\ issue' = [issue EXCEPT !.wrong = IF @ < BurnAfter THEN @ + 1 ELSE @]
    /\ CountFail(t)
    /\ UNCHANGED <<minted, revoked>>

(* The minting: the code is cleared and the client added in one write. *)
RedeemMints(t) ==
    /\ t.call.op = "redeem"
    /\ t.read.pending # NoPending
    /\ ~Expired(t.read.pending)
    /\ t.call.code = t.read.pending.code
    /\ minted' = Append(minted, t.call.code)
    /\ Writes(t, [pending |-> NoPending,
                  clients |-> t.read.clients \cup {Len(minted')}])
    /\ issue' = [issue EXCEPT !.open = FALSE]
    /\ UNCHANGED <<failed, revoked>>

RevokeClient(t) ==
    /\ t.call.op = "revoke"
    /\ IF t.call.client \in t.read.clients
         THEN /\ Writes(t, [t.read EXCEPT !.clients = @ \ {t.call.client}])
              /\ revoked' = revoked \cup {t.call.client}
         ELSE Keeps(t) /\ UNCHANGED revoked
    /\ UNCHANGED <<failed, issue, minted>>

(* Every authenticated request of a client: last_used_at is written back,  *)
(* and with it the whole file as it was read.                              *)
MatchClientToken(t) ==
    /\ t.call.op = "match"
    /\ IF t.call.client \in t.read.clients THEN Writes(t, t.read) ELSE Keeps(t)
    /\ UNCHANGED <<failed, issue, minted, revoked>>

WriteFails(t) ==
    /\ storeFaults < MaxStoreFaults
    /\ t \in inside
    /\ inside' = inside \ {t}
    /\ storeFaults' = storeFaults + 1
    /\ UNCHANGED <<store, generated, failed, issue, minted, revoked, lost, now>>

Leave ==
    \E t \in inside :
       \/ StartPairing(t) \/ CancelPairing(t) \/ PendingStatus(t)
       \/ RedeemNothing(t) \/ RedeemExpired(t) \/ RedeemWrong(t) \/ RedeemMints(t)
       \/ RevokeClient(t) \/ MatchClientToken(t) \/ WriteFails(t)

(* The file survives; the rate limits and whoever was inside do not. *)
PairingRestart ==
    /\ inside' = {}
    /\ generated' = <<>>
    /\ failed' = [h \in Hosts |-> <<>>]
    /\ UNCHANGED <<store, storeFaults, issue, minted, revoked, lost, now>>

PairingNext ==
    \/ EnterStart
    \/ \E code \in Codes, host \in Hosts : EnterRedeem(code, host)
    \/ EnterOther
    \/ Leave
    \/ PairingRestart

PairingSpec ==
    /\ PairingInit /\ now = 0
    /\ [][PairingNext \/ (Tick /\ UNCHANGED pairingVars)]_<<pairingVars, now>>

-----------------------------------------------------------------------------
PairingTypeOK ==
    /\ now \in 0 .. MaxNow
    /\ store.pending \in [code : Codes \cup {NoCode}, until : 0 .. MaxNow + CodeTTL,
                          fails : 0 .. BurnAfter - 1]
    /\ store.clients \subseteq 1 .. Len(minted)
    /\ minted \in Seq(Codes)
    /\ revoked \cup lost \subseteq 1 .. Len(minted)

(* A client, once minted, stays paired until it is itself revoked; the one *)
(* other way out is a start or a cancel that could not read the file and   *)
(* writes an empty list of clients over it.  No write-back of another      *)
(* operation brings a revoked client back or takes a new one away.         *)
ClientsAccountedFor ==
    /\ PairingTypeOK
    /\ store.clients \cap revoked = {}
    /\ store.clients \cup revoked \cup lost = 1 .. Len(minted)

(* A client is only minted by the newest code, before its time is up, not  *)
(* after it was cancelled or used, so that one code makes one client, and  *)
(* not once BurnAfter wrong codes were given for it, restarts included.    *)
MintsOnlyWhileGood ==
    [][Len(minted') > Len(minted) =>
         /\ Last(minted') = issue.code
         /\ issue.open
         /\ now < issue.until
         /\ issue.wrong < BurnAfter]_<<pairingVars, now>>

=============================================================================
