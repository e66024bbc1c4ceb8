--------------------------- MODULE RefreshProofs ---------------------------
(***************************************************************************)
(* What Refresh guarantees a browser with a single caller, for any number  *)
(* of secrets, when Redis may lose what it holds and answers may be lost,  *)
(* but Redis is never away while it still holds something.                 *)
(***************************************************************************)
EXTENDS Refresh, TLAPS

-----------------------------------------------------------------------------
(***************************************************************************)
(* The strengthening.  The secret in the store is the newest or the one    *)
(* retired last, and so is the one a refresh in flight has presented; a    *)
(* refresh that was answered carries the newest; Redis has nothing newer   *)
(* than the retired secrets, and for the one retired last it has the       *)
(* newest, except between a rotation and the note of it; a refused browser *)
(* was refused for a cause that lasts.                                     *)
(***************************************************************************)
Known(secret) == secret \in {session.token, session.previous}

StoreKnown == store # None => Known(store)

RetiredIsOlder ==
    /\ session.previous < session.token
    /\ \A p \in DOMAIN shared : p < session.token

CallKnown(c) ==
    LET k == call[c]
    IN  /\ k.stage = "asking" => Known(k.presented) /\ store \in {None, k.presented}
        /\ k.stage = "rotated" =>
             /\ k.issued = session.token /\ k.presented = session.previous
             /\ session.previous \notin DOMAIN shared
        /\ k.stage = "answered" => k.issued = session.token
        /\ k.stage = "refused" /\ store # None /\ session.open =>
             store # session.token /\ ~session.recent

SharedIsNewest ==
    session.previous \in DOMAIN shared => shared[session.previous] = session.token

TabInv ==
    /\ TypeOK
    /\ StoreKnown
    /\ RetiredIsOlder
    /\ \A c \in Callers : CallKnown(c)
    /\ SharedIsNewest

-----------------------------------------------------------------------------
\* Every state but the disturbed parts is carried over by unfolding these.
USE DEF None, Secrets

(***************************************************************************)
(* The types alone, for any callers and faults.                            *)
(***************************************************************************)
LEMMA SessionInitTyped == Init => TypeOK
  BY DEF Init, TypeOK, Session, Call, Quiet, Leaving, Staying

LEMMA SessionNextTyped == TypeOK /\ [Next]_vars => TypeOK'
<1> SUFFICES ASSUME TypeOK, [Next]_vars PROVE TypeOK'
  OBVIOUS
<1>1. ASSUME NEW c \in Callers, Ask(c) PROVE TypeOK'
  <2>1. [stage |-> "asking", presented |-> store] \in Call
    BY <1>1 DEF Ask, TypeOK, Call
  <2> QED BY <1>1, <2>1 DEF Ask, Reach, TypeOK
<1>2. ASSUME NEW c \in Callers, Reject(c) PROVE TypeOK'
  BY <1>2 DEF Reject, Reach, TypeOK, Call
<1>3. ASSUME NEW c \in Callers, Rotate(c) PROVE TypeOK'
  <2>1. call[c].presented \in Secrets
    BY <1>3 DEF Rotate, IsCurrent, IsRecent, Presents, TypeOK, Call, Quiet
  <2>2. session.token + 1 \in Secrets
    BY DEF TypeOK, Session
  <2>3. session' \in Session
    BY <1>3, <2>1, <2>2 DEF Rotate, TypeOK, Session
  <2>4. [stage |-> "rotated", presented |-> call[c].presented,
         issued |-> session.token + 1] \in Call
    BY <2>1, <2>2 DEF Call
  <2> QED BY <1>3, <2>3, <2>4 DEF Rotate, Reach, TypeOK
<1>4. ASSUME NEW c \in Callers, GraceAnswer(c) PROVE TypeOK'
  <2>1. PICK secret \in Recalled(call[c].presented) \ {None} :
          Reach(c, [stage |-> "answered", issued |-> secret])
    BY <1>4 DEF GraceAnswer
  <2>2. secret \in Secrets
    BY <2>1 DEF Recalled, TypeOK
  <2>3. [stage |-> "answered", issued |-> secret] \in Call
    BY <2>2 DEF Call
  <2> QED BY <1>4, <2>1, <2>3 DEF GraceAnswer, Reach, TypeOK
<1>5. ASSUME NEW c \in Callers, Remember(c) PROVE TypeOK'
  <2>1. call[c].presented \in Secrets /\ call[c].issued \in Secrets
    BY <1>5 DEF Remember, TypeOK, Call, Quiet
  <2>2. DOMAIN shared' \subseteq Secrets /\ \A p \in DOMAIN shared' : shared'[p] \in Secrets
    BY <1>5, <2>1 DEF Remember, Shared, TypeOK
  <2>3. [stage |-> "answered", issued |-> call[c].issued] \in Call
    BY <2>1 DEF Call
  <2> QED BY <1>5, <2>2, <2>3 DEF Remember, Reach, TypeOK
<1>6. ASSUME NEW c \in Callers, Receive(c) PROVE TypeOK'
  <2>1. call[c].issued \in Nat
    BY <1>6 DEF Receive, TypeOK, Call, Quiet
  <2> QED BY <1>6, <2>1 DEF Receive, Reach, TypeOK, Call
<1>7. ASSUME NEW c \in Callers, ReceiveRejected(c) \/ Lose(c) PROVE TypeOK'
  BY <1>7 DEF ReceiveRejected, Lose, Reach, TypeOK, Call
<1>8. ASSUME NEW c \in Callers, SignOut(c) PROVE TypeOK'
  <2>1. [stage |-> "closing", held |-> store] \in Leaving
    BY <1>8 DEF SignOut, TypeOK, Leaving
  <2> QED BY <1>8, <2>1 DEF SignOut, TypeOK
<1>9. ASSUME NEW c \in Callers, Close(c) PROVE TypeOK'
  <2>1. session' \in Session
    BY <1>9 DEF Close, TypeOK, Session
  <2> QED BY <1>9, <2>1 DEF Close, TypeOK, Leaving
<1>10. ASSUME NEW c \in Callers, CloseFails(c) \/ ClearStore(c) PROVE TypeOK'
  BY <1>10 DEF CloseFails, ClearStore, TypeOK, Leaving
<1>11. CASE Revoke \/ GraceEnds
  <2>1. session' \in Session
    BY <1>11 DEF Revoke, GraceEnds, TypeOK, Session
  <2> QED BY <1>11, <2>1 DEF Revoke, GraceEnds, TypeOK
<1>12. CASE EndRevokedSession
  BY <1>12 DEF EndRevokedSession, TypeOK
<1>13. CASE RedisForgets
  BY <1>13 DEF RedisForgets, TypeOK
<1>14. CASE UNCHANGED vars
  BY <1>14 DEF vars, TypeOK
<1> QED
  BY <1>1, <1>2, <1>3, <1>4, <1>5, <1>6, <1>7, <1>8, <1>9, <1>10, <1>11, <1>12,
     <1>13, <1>14 DEF Next, RefreshStep, SignOutStep

(***************************************************************************)
(* Type correctness of the session, Redis and the browser, whatever tabs   *)
(* the browser has and whatever faults happen.                             *)
(***************************************************************************)
THEOREM RefreshTyped == Spec => []TypeOK
  BY SessionInitTyped, SessionNextTyped, PTL DEF Spec

-----------------------------------------------------------------------------
(***************************************************************************)
(* One caller, and no outage.                                              *)
(***************************************************************************)
LEMMA InitTab == Init => TabInv
  BY SessionInitTyped DEF Init, TabInv, StoreKnown, Known, RetiredIsOlder, CallKnown,
     SharedIsNewest, Quiet

LEMMA NextTab ==
  ASSUME NEW c \in Callers, Callers = {c}, "outage" \notin Faults,
         TabInv, [Next]_vars
  PROVE  TabInv'
<1> USE DEF TabInv
<1>t. TypeOK'
  BY SessionNextTyped
<1>k. CallKnown(c)
  OBVIOUS
<1> SUFFICES /\ StoreKnown' /\ RetiredIsOlder'
             /\ CallKnown(c)' /\ SharedIsNewest'
  BY <1>t
<1>1. CASE Ask(c)
  BY <1>1, <1>k DEF Ask, Reach, TypeOK, Call, StoreKnown, Known, RetiredIsOlder,
     CallKnown, SharedIsNewest
<1>2. CASE Reject(c)
  BY <1>2, <1>k DEF Reject, Reach, IsCurrent, IsRecent, Presents, TypeOK, Session, Call,
     StoreKnown, Known, RetiredIsOlder, CallKnown, SharedIsNewest
<1>3. CASE Rotate(c)
  <2>1. call[c].stage = "asking" /\ Known(call[c].presented)
    BY <1>3, <1>k DEF Rotate, IsCurrent, IsRecent, Presents, CallKnown
  <2>2. call[c].presented \notin DOMAIN shared
    <3>1. CASE call[c].presented = session.token
      BY <3>1 DEF RetiredIsOlder, TypeOK, Session
    <3>2. CASE call[c].presented # session.token
      BY <1>3, <3>2 DEF Rotate, IsCurrent, Presents, Recalled, TypeOK
    <3> QED BY <3>1, <3>2
  <2>3. session'.token = session.token + 1 /\ session'.previous = call[c].presented
    BY <1>3 DEF Rotate, TypeOK, Session
  <2>4. call'[c] = [stage |-> "rotated", presented |-> call[c].presented,
                    issued |-> session.token + 1]
    BY <1>3 DEF Rotate, Reach, TypeOK
  <2>5. UNCHANGED <<shared, store>>
    BY <1>3 DEF Rotate
  <2>6. session.token \in Nat /\ session.previous \in Nat
    BY DEF TypeOK, Session
  <2>7. store \in {None, call[c].presented}
    BY <1>k, <2>1 DEF CallKnown
  <2>8. RetiredIsOlder'
    <3>1. session'.previous < session'.token
      BY <2>1, <2>3, <2>6 DEF RetiredIsOlder, Known
    <3>2. \A p \in DOMAIN shared' : p < session'.token
      BY <2>3, <2>5, <2>6 DEF RetiredIsOlder, TypeOK
    <3> QED BY <3>1, <3>2 DEF RetiredIsOlder
  <2>9. StoreKnown'
    BY <2>3, <2>5, <2>7 DEF StoreKnown, Known
  <2>10. CallKnown(c)'
    BY <2>2, <2>3, <2>4, <2>5 DEF CallKnown
  <2>11. SharedIsNewest'
    BY <2>2, <2>3, <2>5 DEF SharedIsNewest
  <2> QED BY <2>8, <2>9, <2>10, <2>11
<1>4. CASE GraceAnswer(c)
  <2>1. PICK secret \in Recalled(call[c].presented) \ {None} :
          Reach(c, [stage |-> "answered", issued |-> secret])
    BY <1>4 DEF GraceAnswer
  <2>2. call[c].presented = session.previous
    BY <1>4 DEF GraceAnswer, IsRecent, Presents
  <2>3. secret = session.token
    BY <2>1, <2>2 DEF Recalled, SharedIsNewest
  <2> QED
    BY <1>4, <1>k, <2>1, <2>3 DEF GraceAnswer, Reach, TypeOK, StoreKnown, Known,
       RetiredIsOlder, CallKnown, SharedIsNewest
<1>5. CASE Remember(c)
  <2>1. call[c].issued = session.token /\ call[c].presented = session.previous
    BY <1>5, <1>k DEF Remember, CallKnown
  <2>2. shared' = [p \in DOMAIN shared \cup {session.previous} |->
                     IF p = session.previous THEN session.token ELSE shared[p]]
    BY <1>5, <2>1 DEF Remember, Shared
  <2>3. SharedIsNewest'
    BY <1>5, <2>2 DEF Remember, SharedIsNewest
  <2>4. RetiredIsOlder'
    BY <1>5, <2>2 DEF Remember, RetiredIsOlder
  <2>5. CallKnown(c)'
    BY <1>5, <2>1 DEF Remember, Reach, CallKnown, TypeOK
  <2> QED BY <1>5, <2>3, <2>4, <2>5 DEF Remember, StoreKnown, Known
<1>6. CASE Receive(c)
  BY <1>6, <1>k DEF Receive, Reach, TypeOK, Quiet, StoreKnown, Known, RetiredIsOlder,
     CallKnown, SharedIsNewest
<1>7. CASE ReceiveRejected(c)
  BY <1>7, <1>k DEF ReceiveRejected, Reach, TypeOK, Quiet, StoreKnown, Known,
     RetiredIsOlder, CallKnown, SharedIsNewest
<1>8. CASE Lose(c)
  BY <1>8, <1>k DEF Lose, Reach, TypeOK, Quiet, StoreKnown, Known, RetiredIsOlder,
     CallKnown, SharedIsNewest
<1>9. CASE SignOut(c) \/ CloseFails(c)
  BY <1>9, <1>k DEF SignOut, CloseFails, StoreKnown, Known, RetiredIsOlder, CallKnown,
     SharedIsNewest
<1>10. CASE Close(c) \/ Revoke \/ GraceEnds
  <2>1. /\ session'.token = session.token /\ session'.previous = session.previous
        /\ session'.open => session.open
        /\ session'.recent => session.recent
    BY <1>10 DEF Close, Revoke, GraceEnds, TypeOK, Session
  <2>2. UNCHANGED <<shared, store, call>>
    BY <1>10 DEF Close, Revoke, GraceEnds
  <2> QED
    BY <1>k, <2>1, <2>2 DEF StoreKnown, Known, RetiredIsOlder, CallKnown, SharedIsNewest
<1>11. CASE ClearStore(c) \/ EndRevokedSession
  BY <1>11, <1>k DEF ClearStore, EndRevokedSession, StoreKnown, Known, RetiredIsOlder,
     CallKnown, SharedIsNewest
<1>12. CASE RedisForgets
  <2>1. PICK p \in DOMAIN shared : shared' = [q \in DOMAIN shared \ {p} |-> shared[q]]
    BY <1>12 DEF RedisForgets
  <2>2. UNCHANGED <<session, store, call>>
    BY <1>12 DEF RedisForgets
  <2> QED
    BY <1>k, <2>1, <2>2 DEF StoreKnown, Known, RetiredIsOlder, CallKnown, SharedIsNewest
<1>13. CASE UNCHANGED vars
  BY <1>13, <1>k DEF vars, StoreKnown, Known, RetiredIsOlder, CallKnown, SharedIsNewest
<1> QED
  BY <1>1, <1>2, <1>3, <1>4, <1>5, <1>6, <1>7, <1>8, <1>9, <1>10, <1>11, <1>12, <1>13
     DEF Next, RefreshStep, SignOutStep

(***************************************************************************)
(* A browser with one tab always holds a secret the server can still take, *)
(* however many answers are lost and whenever Redis forgets.               *)
(***************************************************************************)
THEOREM OneTabLive ==
  ASSUME NEW c \in Callers, Callers = {c}, "outage" \notin Faults
  PROVE  Spec => []StoreLive
<1>1. TabInv /\ [Next]_vars => TabInv'
  BY NextTab
<1>2. TabInv => StoreLive
  BY DEF TabInv, StoreKnown, Known, StoreLive
<1> QED BY InitTab, <1>1, <1>2, PTL DEF Spec

\* A step that takes the secret out of the store has a cause for it.
LEMMA NextForCause ==
  ASSUME NEW c \in Callers, Callers = {c}, TabInv, Next, store # None, store' = None
  PROVE  SignOutCause
<1>1. CASE Receive(c)
  BY <1>1 DEF Receive, TabInv, TypeOK, Call, Quiet
<1>2. CASE ReceiveRejected(c)
  BY <1>2 DEF ReceiveRejected, TabInv, CallKnown, SignOutCause
<1>3. CASE ClearStore(c) \/ EndRevokedSession
  BY <1>3 DEF ClearStore, EndRevokedSession, SignOutCause
<1>4. CASE UNCHANGED store
  BY <1>4
<1> QED
  BY <1>1, <1>2, <1>3, <1>4 DEF Next, RefreshStep, SignOutStep, Ask, Reject, Rotate,
     GraceAnswer, Remember, Lose, SignOut, Close, CloseFails, Revoke, GraceEnds,
     RedisForgets

(***************************************************************************)
(* A browser with one tab is never signed out without a cause.             *)
(***************************************************************************)
THEOREM OneTabSignedOutForCause ==
  ASSUME NEW c \in Callers, Callers = {c}, "outage" \notin Faults
  PROVE  Spec => SignedOutForCause
<1>1. TabInv /\ [Next]_vars => TabInv'
  BY NextTab
<1>2. TabInv /\ [Next]_vars => [store # None /\ store' = None => SignOutCause]_vars
  BY NextForCause
<1> QED BY InitTab, <1>1, <1>2, PTL DEF Spec, SignedOutForCause
=============================================================================
