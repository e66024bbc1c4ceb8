------------------------------ MODULE Refresh ------------------------------
(***************************************************************************)
(* One sign-in and the browser that holds it: the rotating secret of a     *)
(* session (routers/auth.py, refresh and logout), the copy of the newest   *)
(* one that Redis keeps for a minute (security.py), and the browser's      *)
(* localStorage, which all its tabs share (frontend/lib/api.ts,            *)
(* session.ts).                                                            *)
(*                                                                         *)
(* Secrets are numbered in the order they are issued.  A caller is what    *)
(* refreshes on its own: a tab, which has one refresh in flight at a time, *)
(* or a refresh a page gave up on while the server was still at work.      *)
(***************************************************************************)
EXTENDS Naturals

CONSTANTS
    Callers,
    Faults,         \* which of AllFaults happen
    MaxSecret       \* bound of the model: no more secrets than this

AllFaults ==
    {"loss",        \* an answer, or a request, does not arrive
     "forget",      \* Redis drops an entry: its minute is over, or a restart
     "outage"}      \* Redis does not answer, and keeps what it has

ASSUME FaultsAssumption == Faults \subseteq AllFaults
ASSUME MaxSecretAssumption == MaxSecret \in Nat

VARIABLES
    session,        \* the row of refresh_sessions
    shared,         \* Redis: from a retired secret to the one issued for it
    store,          \* the secret in localStorage
    call,           \* the refresh each caller has in flight
    leaving         \* how far each caller is in signing out

vars == <<session, shared, store, call, leaving>>

-----------------------------------------------------------------------------
None == 0
Secrets == Nat \ {None}

\* recent is rotated_at > now() - REFRESH_GRACE_SECONDS; open is revoked_at
\* IS NULL AND expires_at > now().
Session == [token : Secrets, previous : Nat, recent : BOOLEAN, open : BOOLEAN]

Quiet == [stage |-> "quiet"]

Call ==
    {Quiet, [stage |-> "refused"]}
    \cup [stage : {"asking"}, presented : Secrets]
    \cup [stage : {"rotated"}, presented : Secrets, issued : Secrets]
    \cup [stage : {"answered"}, issued : Secrets]

Staying == [stage |-> "staying"]

Leaving ==
    {Staying, [stage |-> "clearing"]} \cup [stage : {"closing"}, held : Secrets]

TypeOK ==
    /\ session \in Session
    /\ DOMAIN shared \subseteq Secrets
    /\ \A p \in DOMAIN shared : shared[p] \in Secrets
    /\ store \in Nat
    /\ call \in [Callers -> Call]
    /\ leaving \in [Callers -> Leaving]

\* Just signed in.
Init ==
    /\ session = [token |-> 1, previous |-> None, recent |-> FALSE, open |-> TRUE]
    /\ shared = [p \in {} |-> None]
    /\ store = 1
    /\ call = [c \in Callers |-> Quiet]
    /\ leaving = [c \in Callers |-> Staying]

Reach(c, state) == call' = [call EXCEPT ![c] = state]

-----------------------------------------------------------------------------
(* The browser asks.  A device whose clock is ahead refreshes before every *)
(* request, so there need be no time between two refreshes.                *)

Ask(c) ==
    /\ call[c] = Quiet
    /\ store # None
    /\ Reach(c, [stage |-> "asking", presented |-> store])
    /\ UNCHANGED <<session, shared, store, leaving>>

-----------------------------------------------------------------------------
(* The server answers, with the row locked from the look-up to the commit. *)

Presents(c, secret) == call[c].stage = "asking" /\ call[c].presented = secret

IsCurrent(c) == session.open /\ Presents(c, session.token)

\* Mutated form: the refresh as it was before the grace window.
IsRecentNever(c) == FALSE

\* The secret somebody else in the same browser retired moments ago.
IsRecent(c) ==
    session.open /\ session.recent /\ Presents(c, session.previous)

\* What Redis may say of a secret; None when it has nothing or is away.
Recalled(secret) ==
    IF secret \notin DOMAIN shared THEN {None}
    ELSE {shared[secret]} \cup {s \in {None} : "outage" \in Faults}

\* SESSION_REVOKED.
Reject(c) ==
    /\ call[c].stage = "asking"
    /\ ~IsCurrent(c) /\ ~IsRecent(c)
    /\ Reach(c, [stage |-> "refused"])
    /\ UNCHANGED <<session, shared, store, leaving>>

\* Mutated form: the newest secret is remembered as the retired one.
RotateNewest(c) ==
    /\ session.token < MaxSecret
    /\ IsCurrent(c) \/ (IsRecent(c) /\ None \in Recalled(call[c].presented))
    /\ session' = [session EXCEPT !.token = session.token + 1,
                      !.previous = session.token, !.recent = TRUE]
    /\ Reach(c, [stage |-> "rotated", presented |-> call[c].presented,
                 issued |-> session.token + 1])
    /\ UNCHANGED <<shared, store, leaving>>

\* A new secret, and the one that was presented is the retired one - which is
\* the one before the newest, if this is a second rotation within the window.
Rotate(c) ==
    /\ session.token < MaxSecret
    /\ IsCurrent(c) \/ (IsRecent(c) /\ None \in Recalled(call[c].presented))
    /\ session' = [session EXCEPT !.token = session.token + 1,
                      !.previous = call[c].presented, !.recent = TRUE]
    /\ Reach(c, [stage |-> "rotated", presented |-> call[c].presented,
                 issued |-> session.token + 1])
    /\ UNCHANGED <<shared, store, leaving>>

\* Mutated form: what Redis has is handed back without a look at it.
GraceAnswerBlind(c) ==
    /\ ~IsCurrent(c) /\ IsRecent(c)
    /\ \E secret \in Recalled(call[c].presented) :
         Reach(c, [stage |-> "answered", issued |-> secret])
    /\ UNCHANGED <<session, shared, store, leaving>>

\* The grace path: nothing is rotated, the secret Redis has is handed back.
GraceAnswer(c) ==
    /\ ~IsCurrent(c) /\ IsRecent(c)
    /\ \E secret \in Recalled(call[c].presented) \ {None} :
         Reach(c, [stage |-> "answered", issued |-> secret])
    /\ UNCHANGED <<session, shared, store, leaving>>

\* What Redis may hold once it was told the secret issued for a retired one.
Shared(retired, secret) ==
    {[p \in DOMAIN shared \cup {retired} |-> IF p = retired THEN secret ELSE shared[p]]}
    \cup {s \in {shared} : "outage" \in Faults}

\* After the commit, best effort.
Remember(c) ==
    /\ call[c].stage = "rotated"
    /\ shared' \in Shared(call[c].presented, call[c].issued)
    /\ Reach(c, [stage |-> "answered", issued |-> call[c].issued])
    /\ UNCHANGED <<session, store, leaving>>

-----------------------------------------------------------------------------
(* The browser gets an answer, or none.                                    *)

Receive(c) ==
    /\ call[c].stage = "answered"
    /\ store' = call[c].issued
    /\ Reach(c, Quiet)
    /\ UNCHANGED <<session, shared, leaving>>

\* 401: the server really does not know this session any more.
ReceiveRejected(c) ==
    /\ call[c].stage = "refused"
    /\ store' = None
    /\ Reach(c, Quiet)
    /\ UNCHANGED <<session, shared, leaving>>

\* The connection drops, the server restarts, or answers 429 or 5xx: the secret
\* is kept, whatever the server has done.
Lose(c) ==
    /\ "loss" \in Faults
    /\ call[c] # Quiet
    /\ Reach(c, Quiet)
    /\ UNCHANGED <<session, shared, store, leaving>>

-----------------------------------------------------------------------------
(* Signing out.  The secret is read first; the request that carries it     *)
(* refreshes before it is sent, when the access token is about to lapse.   *)

SignOut(c) ==
    /\ leaving[c] = Staying
    /\ store # None
    /\ leaving' = [leaving EXCEPT ![c] = [stage |-> "closing", held |-> store]]
    /\ UNCHANGED <<session, shared, store, call>>

Close(c) ==
    /\ leaving[c].stage = "closing"
    /\ store # None
    /\ session' = [session EXCEPT
         !.open = session.open /\ session.token # leaving[c].held]
    /\ leaving' = [leaving EXCEPT ![c] = [stage |-> "clearing"]]
    /\ UNCHANGED <<shared, store, call>>

\* The request is not sent, or lost; signing out goes on all the same.
CloseFails(c) ==
    /\ leaving[c].stage = "closing"
    /\ store = None \/ "loss" \in Faults
    /\ leaving' = [leaving EXCEPT ![c] = [stage |-> "clearing"]]
    /\ UNCHANGED <<session, shared, store, call>>

ClearStore(c) ==
    /\ leaving[c].stage = "clearing"
    /\ store' = None
    /\ leaving' = [leaving EXCEPT ![c] = Staying]
    /\ UNCHANGED <<session, shared, call>>

-----------------------------------------------------------------------------
\* Somebody else closes the session - another device signs in, the password is
\* reset, the account suspended - or its ninety days are over.
Revoke ==
    /\ session.open
    /\ session' = [session EXCEPT !.open = FALSE]
    /\ UNCHANGED <<shared, store, call, leaving>>

\* Any other request of the browser is answered SESSION_REVOKED.
EndRevokedSession ==
    /\ ~session.open
    /\ store # None
    /\ store' = None
    /\ UNCHANGED <<session, shared, call, leaving>>

GraceEnds ==
    /\ session.recent
    /\ session' = [session EXCEPT !.recent = FALSE]
    /\ UNCHANGED <<shared, store, call, leaving>>

RedisForgets ==
    /\ "forget" \in Faults
    /\ \E p \in DOMAIN shared :
         shared' = [q \in DOMAIN shared \ {p} |-> shared[q]]
    /\ UNCHANGED <<session, store, call, leaving>>

RefreshStep(c) ==
    \/ Ask(c)
    \/ Reject(c)
    \/ Rotate(c)
    \/ GraceAnswer(c)
    \/ Remember(c)
    \/ Receive(c)
    \/ ReceiveRejected(c)
    \/ Lose(c)

SignOutStep(c) == SignOut(c) \/ Close(c) \/ CloseFails(c) \/ ClearStore(c)

Next ==
    \/ \E c \in Callers : RefreshStep(c) \/ SignOutStep(c)
    \/ Revoke
    \/ EndRevokedSession
    \/ GraceEnds
    \/ RedisForgets

Spec == Init /\ [][Next]_vars

-----------------------------------------------------------------------------
(***************************************************************************)
(* The browser of an open session holds a secret the server can still      *)
(* take: the newest one, or the one it retired last.  With one caller this *)
(* survives lost answers, restarts between the commit and the answer, and  *)
(* a Redis that loses what it was given (refresh, previous_token_hash).    *)
(***************************************************************************)
StoreLive ==
    session.open /\ store # None => store \in {session.token, session.previous}

\* What may cost a browser its secret.
SignOutCause ==
    \/ ~session.open
    \/ \E c \in Callers : leaving[c].stage = "clearing"
    \/ store # session.token /\ ~session.recent

(***************************************************************************)
(* Nobody is signed out for no reason: the browser drops its secret only   *)
(* when it is signing out, when the session is over, or when it missed the *)
(* answer of a rotation for longer than the grace window (doRefresh, "the  *)
(* server really does not know this session any more").                    *)
(***************************************************************************)
SignedOutForCause ==
    [][store # None /\ store' = None => SignOutCause]_vars

-----------------------------------------------------------------------------
(* What the documentation says of this code and the code does not do.      *)

(***************************************************************************)
(* refresh, the grace path: every tab ends up holding the same current     *)
(* secret.  With no refresh in flight, the one in the store is live.       *)
(***************************************************************************)
TabsEndUpLive == (\A c \in Callers : call[c] = Quiet) => StoreLive

(***************************************************************************)
(* auth.py, CurrentUser: logout closes exactly the caller's own session.   *)
(* When its request has reached the server, the session is over.           *)
(***************************************************************************)
LogoutClosesSession ==
    [][\A c \in Callers : Close(c) => ~session'.open]_vars
=============================================================================
