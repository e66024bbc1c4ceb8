--------------------------- MODULE SessionsProofs ---------------------------
(***************************************************************************)
(* What Sessions guarantees for any accounts, sign-ins, device limit and   *)
(* changes of the policy.                                                  *)
(***************************************************************************)
EXTENDS Sessions, FiniteSetTheorems, TLAPS

-----------------------------------------------------------------------------
(***************************************************************************)
(* The types.                                                              *)
(***************************************************************************)
LEMMA InitTyped == Init => TypeOK
  BY DEF Init, TypeOK, Login, Change, Users, Idle

\* What a step of a sign-in leaves it with is a sign-in.
LEMMA StepTyped ==
  ASSUME TypeOK, NEW l \in Logins, NEW state \in Login, Step(l, state)
  PROVE  login' \in [Logins -> Login]
  BY DEF TypeOK, Step

LEMMA NextTyped == TypeOK /\ [Next]_vars => TypeOK'
<1> SUFFICES ASSUME TypeOK, [Next]_vars PROVE TypeOK'
  OBVIOUS
<1>1. ASSUME NEW l \in Logins, NEW a \in Accounts, Verify(l, a) PROVE TypeOK'
  <2>1. [stage |-> "verified", account |-> a] \in Login
    BY DEF Login
  <2> QED BY <1>1, <2>1, StepTyped DEF Verify, TypeOK
<1>2. ASSUME NEW l \in Logins, LockUser(l) PROVE TypeOK'
  <2>1. [login[l] EXCEPT !.stage = "locked"] \in Login
    BY <1>2 DEF LockUser, TypeOK, Login, Idle
  <2> QED BY <1>2, <2>1, StepTyped DEF LockUser, TypeOK
<1>3. ASSUME NEW l \in Logins, HoldsOneDevice(l) PROVE TypeOK'
  <2>1. login[l].account \in Accounts
    BY <1>3 DEF HoldsOneDevice, TypeOK, Login, Idle
  <2>2. [stage |-> "deciding", account |-> login[l].account, enforce |-> single] \in Login
    BY <2>1 DEF TypeOK, Login
  <2> QED BY <1>3, <2>2, StepTyped DEF HoldsOneDevice, TypeOK
<1>4. ASSUME NEW l \in Logins, ChooseClosing(l) PROVE TypeOK'
  <2>1. login[l].account \in Accounts /\ login[l].enforce \in BOOLEAN
    BY <1>4 DEF ChooseClosing, TypeOK, Login, Idle
  <2>2. PICK kept : Step(l, [stage |-> "chosen", account |-> login[l].account,
                             enforce |-> login[l].enforce,
                             closing |-> OpenOf(login[l].account) \ kept,
                             written |-> {}])
    BY <1>4 DEF ChooseClosing
  <2>3. OpenOf(login[l].account) \ kept \in SUBSET Ids
    BY DEF OpenOf, TypeOK
  <2>4. [stage |-> "chosen", account |-> login[l].account, enforce |-> login[l].enforce,
         closing |-> OpenOf(login[l].account) \ kept, written |-> {}] \in Login
    BY <2>1, <2>3 DEF Login
  <2> QED BY <1>4, <2>2, <2>4, StepTyped DEF ChooseClosing, TypeOK
<1>5. ASSUME NEW l \in Logins, CloseOther(l) PROVE TypeOK'
  <2>1. PICK s \in login[l].closing : Step(l, [login[l] EXCEPT !.written = @ \cup {s}])
    BY <1>5 DEF CloseOther
  <2>2. \/ login[l] \in [stage : {"chosen"}, account : Accounts, enforce : BOOLEAN,
                        closing : SUBSET Ids, written : SUBSET Ids]
        \/ login[l] \in [stage : {"revoking"}, account : Accounts, by : Users,
                        closing : SUBSET Ids, written : SUBSET Ids]
    BY <1>5 DEF CloseOther, Closes, TypeOK, Login, Idle
  <2>3. [login[l] EXCEPT !.written = @ \cup {s}] \in Login
    BY <2>2 DEF Login
  <2> QED BY <1>5, <2>1, <2>3, StepTyped DEF CloseOther, TypeOK
<1>6. ASSUME NEW l \in Logins, StartSession(l) PROVE TypeOK'
  <2>1. [account |-> login[l].account, enforce |-> login[l].enforce] \in Row
    BY <1>6 DEF StartSession, TypeOK, Login, Idle, Row
  <2>2. /\ DOMAIN sessions' \subseteq Ids
        /\ \A s \in DOMAIN sessions' : sessions'[s] \in Row
    BY <1>6, <2>1 DEF StartSession, TypeOK
  <2>3. Idle \in Login
    BY DEF Login
  <2> QED BY <1>6, <2>2, <2>3, StepTyped DEF StartSession, TypeOK
<1>7. ASSUME NEW l \in Logins, AbortLogin(l) PROVE TypeOK'
  <2>1. Idle \in Login
    BY DEF Login
  <2> QED BY <1>7, <2>1, StepTyped DEF AbortLogin, TypeOK
<1>8. ASSUME NEW s \in Ids, Logout(s) PROVE TypeOK'
  BY <1>8 DEF Logout, Without, TypeOK
<1>9. ASSUME NEW l \in Logins, NEW a \in Accounts, NEW by \in Users, RevokeUserSessions(l, a, by)
      PROVE  TypeOK'
  <2>1. [stage |-> "revoking", account |-> a, by |-> by, closing |-> OpenOf(a), written |-> {}]
          \in Login
    BY DEF OpenOf, TypeOK, Login
  <2> QED BY <1>9, <2>1, StepTyped DEF RevokeUserSessions, TypeOK
<1>16. ASSUME NEW l \in Logins, CommitRevoked(l) PROVE TypeOK'
  <2>1. Idle \in Login
    BY DEF Login
  <2> QED BY <1>16, <2>1, StepTyped DEF CommitRevoked, Without, TypeOK
<1>10. ASSUME NEW actor \in Users, AllowMany(actor) PROVE TypeOK'
  <2>1. change' \in Change
    BY <1>10 DEF AllowMany, Change
  <2> QED BY <1>10, <2>1 DEF AllowMany, TypeOK
<1>11. ASSUME NEW actor \in Users, SelectExtra(actor) PROVE TypeOK'
  <2>1. PICK kept : change' = [stage |-> "closing", single |-> TRUE, actor |-> actor,
                               closing |-> DOMAIN sessions \ kept, marking |-> {}, written |-> {}]
    BY <1>11 DEF SelectExtra
  <2>2. change' \in Change
    BY <2>1 DEF TypeOK, Change
  <2> QED BY <1>11, <2>2 DEF SelectExtra, TypeOK
<1>12. CASE CloseExtra \/ ChooseMarking \/ MarkEnforced
  <2>1. change \in [stage : {"closing", "marking"}, single : BOOLEAN, actor : Users,
                    closing : SUBSET Ids, marking : SUBSET Ids, written : SUBSET Ids]
    BY <1>12 DEF CloseExtra, ChooseMarking, MarkEnforced, TypeOK, Change, Idle
  <2>2. DOMAIN sessions \ change.closing \in SUBSET Ids
    BY DEF TypeOK
  <2>3. ASSUME NEW s \in change.closing \cup change.marking
        PROVE  [change EXCEPT !.written = @ \cup {s}] \in Change
    BY <2>1 DEF Change
  <2>4. [change EXCEPT !.stage = "marking", !.marking = DOMAIN sessions \ change.closing]
          \in Change
    BY <2>1, <2>2 DEF Change
  <2>5. Idle \in Change
    BY DEF Change
  <2>6. CASE CloseExtra
    BY <2>3, <2>6 DEF CloseExtra, TypeOK
  <2>7. CASE ChooseMarking
    BY <2>4, <2>7 DEF ChooseMarking, TypeOK
  <2>8. CASE MarkEnforced
    BY <2>3, <2>5, <2>8 DEF MarkEnforced, TypeOK
  <2> QED BY <1>12, <2>6, <2>7, <2>8
<1>13. CASE CommitPolicy
  <2>1. change.single \in BOOLEAN /\ change.actor \in Users
    BY <1>13 DEF CommitPolicy, TypeOK, Change, Idle
  <2>2. \A s \in DOMAIN sessions : [sessions[s] EXCEPT !.enforce = change.single] \in Row
    BY <2>1 DEF TypeOK, Row
  <2>3. /\ DOMAIN sessions' \subseteq Ids
        /\ \A s \in DOMAIN sessions' : sessions'[s] \in Row
    BY <1>13, <2>2 DEF CommitPolicy, TypeOK
  <2> QED BY <1>13, <2>1, <2>3 DEF CommitPolicy, TypeOK, Change
<1>14. CASE AbortChange
  BY <1>14 DEF AbortChange, TypeOK, Change
<1>15. CASE UNCHANGED vars
  BY <1>15 DEF vars, TypeOK
<1> QED
  BY <1>1, <1>2, <1>3, <1>4, <1>5, <1>6, <1>7, <1>8, <1>9, <1>10, <1>11, <1>12, <1>13,
     <1>14, <1>15, <1>16 DEF Next, LoginStep, SetPolicyStep

(***************************************************************************)
(* Type correctness of sessions, sign-ins and the change of the policy.    *)
(***************************************************************************)
THEOREM SessionsTyped == Spec => []TypeOK
  BY InitTyped, NextTyped, PTL DEF Spec

-----------------------------------------------------------------------------
(***************************************************************************)
(* The lock of an account.  One request at a time holds it, so from the    *)
(* moment a sign-in has chosen what to close until it commits, the         *)
(* account's sessions only become fewer; and what two requests close are   *)
(* sessions of different accounts.                                         *)
(***************************************************************************)
Chosen(l) == login[l].stage = "chosen"

\* What a sign-in that has chosen will leave open beside its own session.
Remaining(l) == OpenOf(login[l].account) \ login[l].closing

OneHolder ==
    \A k, l \in Logins, a \in Accounts : HoldsUser(k, a) /\ HoldsUser(l, a) => k = l

DeviceLimit ==
    \A a \in Accounts : IsFiniteSet(OpenOf(a)) /\ Cardinality(OpenOf(a)) <= MaxDevices

RoomForOne ==
    \A l \in Logins : Chosen(l) =>
        /\ Cardinality(Remaining(l)) <= MaxDevices - 1
        /\ login[l].enforce => Remaining(l) = {}

OwnRows ==
    \A l \in Logins : Closes(l) =>
        \A s \in login[l].closing \cap DOMAIN sessions : sessions[s].account = login[l].account

ClosingApart ==
    \A k, l \in Logins : Closes(k) /\ Closes(l) /\ k # l =>
        login[k].closing \cap login[l].closing = {}

WrittenIsClosing == \A l \in Logins : Closes(l) => login[l].written \subseteq login[l].closing

DevicesInv ==
    TypeOK /\ OneHolder /\ DeviceLimit /\ RoomForOne
    /\ OwnRows /\ ClosingApart /\ WrittenIsClosing

LEMMA HoldersTyped ==
  ASSUME TypeOK, NEW l \in Logins, login[l] # Idle
  PROVE  /\ login[l].account \in Accounts
         /\ Closes(l) => login[l].closing \in SUBSET Ids /\ login[l].written \in SUBSET Ids
         /\ Chosen(l) => login[l].enforce \in BOOLEAN
  BY DEF TypeOK, Login, Idle, Chosen, Closes

Takes(l, a) ==
    \/ LockUser(l) /\ login[l].account = a
    \/ \E by \in Users : RevokeUserSessions(l, a, by)

Acts(l) ==
    \/ LoginStep(l)
    \/ \E a \in Accounts : Verify(l, a)
    \/ \E a \in Accounts, by \in Users : RevokeUserSessions(l, a, by)

LEMMA WhoActs ==
  ASSUME [Next]_vars
  PROVE  UNCHANGED login \/ \E l \in Logins : Acts(l)
  BY DEF Next, Acts, vars, Logout, AllowMany, SelectExtra, SetPolicyStep, CloseExtra,
         ChooseMarking, MarkEnforced, CommitPolicy, AbortChange

\* A step of a request is no other request's.
LEMMA ActsAlone ==
  ASSUME TypeOK, NEW l \in Logins, Acts(l), NEW k \in Logins, k # l
  PROVE  login'[k] = login[k]
<1>1. \E state : Step(l, state)
  <2>1. CASE LockUser(l)
    BY <2>1 DEF LockUser
  <2>2. CASE HoldsOneDevice(l)
    BY <2>2 DEF HoldsOneDevice
  <2>3. CASE ChooseClosing(l)
    BY <2>3 DEF ChooseClosing
  <2>4. CASE CloseOther(l)
    BY <2>4 DEF CloseOther
  <2>5. CASE StartSession(l)
    BY <2>5 DEF StartSession
  <2>6. CASE CommitRevoked(l)
    BY <2>6 DEF CommitRevoked
  <2>7. CASE AbortLogin(l)
    BY <2>7 DEF AbortLogin
  <2>8. ASSUME NEW a \in Accounts, Verify(l, a) PROVE \E state : Step(l, state)
    BY <2>8 DEF Verify
  <2>9. ASSUME NEW a \in Accounts, NEW by \in Users, RevokeUserSessions(l, a, by)
        PROVE  \E state : Step(l, state)
    BY <2>9 DEF RevokeUserSessions
  <2> QED BY <2>1, <2>2, <2>3, <2>4, <2>5, <2>6, <2>7, <2>8, <2>9 DEF Acts, LoginStep
<1> QED BY <1>1 DEF Step, TypeOK

\* What a request that acts holds afterwards it held before, or takes.
LEMMA HoldsOrTakes ==
  ASSUME TypeOK, NEW l \in Logins, Acts(l), NEW a \in Accounts, HoldsUser(l, a)'
  PROVE  HoldsUser(l, a) \/ Takes(l, a)
<1>1. CASE LockUser(l)
  <2>1. login'[l].account = login[l].account
    BY <1>1 DEF LockUser, Step, TypeOK, Login, Idle
  <2> QED BY <1>1, <2>1 DEF HoldsUser, HoldsForUpdate, Takes
<1>2. CASE HoldsOneDevice(l)
  BY <1>2 DEF HoldsOneDevice, Step, HoldsUser, HoldsForUpdate, TypeOK
<1>3. CASE ChooseClosing(l)
  BY <1>3 DEF ChooseClosing, Step, HoldsUser, HoldsForUpdate, TypeOK
<1>4. CASE CloseOther(l)
  <2>1. login'[l].account = login[l].account /\ login'[l].stage = login[l].stage
    BY <1>4 DEF CloseOther, Closes, Step, TypeOK, Login, Idle
  <2> QED BY <2>1 DEF HoldsUser, HoldsForUpdate
<1>5. CASE StartSession(l) \/ CommitRevoked(l) \/ AbortLogin(l)
  <2>1. login'[l].stage = "idle"
    BY <1>5 DEF StartSession, CommitRevoked, AbortLogin, Step, TypeOK, Idle
  <2> QED BY <2>1 DEF HoldsUser, HoldsForUpdate
<1>6. ASSUME NEW b \in Accounts, Verify(l, b) PROVE FALSE
  <2>1. login'[l].stage = "verified"
    BY <1>6 DEF Verify, Step, TypeOK
  <2> QED BY <2>1 DEF HoldsUser, HoldsForUpdate
<1>7. ASSUME NEW b \in Accounts, NEW by \in Users, RevokeUserSessions(l, b, by)
      PROVE  Takes(l, a)
  <2>1. login'[l].account = b
    BY <1>7 DEF RevokeUserSessions, Step, TypeOK
  <2> QED BY <1>7, <2>1 DEF HoldsUser, HoldsForUpdate, Takes
<1> QED BY <1>1, <1>2, <1>3, <1>4, <1>5, <1>6, <1>7 DEF Acts, LoginStep

LEMMA OneHolderKept == TypeOK /\ OneHolder /\ [Next]_vars => OneHolder'
<1> SUFFICES ASSUME TypeOK, OneHolder, [Next]_vars,
                    NEW k \in Logins, NEW l \in Logins, NEW a \in Accounts,
                    HoldsUser(k, a)', HoldsUser(l, a)'
             PROVE  k = l
  BY DEF OneHolder
<1>1. CASE UNCHANGED login
  BY <1>1 DEF OneHolder, HoldsUser, HoldsForUpdate
<1>2. ASSUME NEW m \in Logins, Acts(m), NEW n \in Logins, HoldsUser(n, a)', n # m
      PROVE  HoldsUser(n, a) /\ ~Takes(m, a)
  <2>1. HoldsUser(n, a)
    BY <1>2, ActsAlone DEF HoldsUser, HoldsForUpdate
  <2> QED BY <1>2, <2>1 DEF Takes, LockUser, RevokeUserSessions
<1>3. ASSUME NEW m \in Logins, Acts(m) PROVE k = l
  <2>1. CASE k # m /\ l # m
    BY <1>2, <1>3, <2>1 DEF OneHolder
  <2>2. CASE k # m /\ l = m
    BY <1>2, <1>3, <2>2, HoldsOrTakes DEF OneHolder
  <2>3. CASE k = m /\ l # m
    BY <1>2, <1>3, <2>3, HoldsOrTakes DEF OneHolder
  <2> QED BY <2>1, <2>2, <2>3
<1> QED BY <1>1, <1>3, WhoActs

\* Nothing but StartSession adds a row, under a name nobody refers to, and no
\* row is given to another account.
LEMMA RowsKeepAccount ==
  ASSUME TypeOK, [Next]_vars, NEW s \in DOMAIN sessions'
  PROVE  \/ s \in DOMAIN sessions /\ sessions'[s].account = sessions[s].account
         \/ Fresh(s) /\ \E l \in Logins : StartSession(l)
<1>1. CASE UNCHANGED sessions
  BY <1>1
<1>2. ASSUME NEW rows, sessions' = Without(rows)
      PROVE  s \in DOMAIN sessions /\ sessions'[s].account = sessions[s].account
  BY <1>2 DEF Without
<1>3. CASE CommitPolicy
  BY <1>3 DEF CommitPolicy, TypeOK, Row
<1>4. ASSUME NEW l \in Logins, StartSession(l), ~UNCHANGED sessions
      PROVE  \/ s \in DOMAIN sessions /\ sessions'[s].account = sessions[s].account
             \/ Fresh(s)
  <2>1. PICK t \in Ids :
          /\ Fresh(t)
          /\ sessions' = [u \in (DOMAIN sessions \ login[l].closing) \cup {t} |->
                            IF u = t
                            THEN [account |-> login[l].account, enforce |-> login[l].enforce]
                            ELSE sessions[u]]
    BY <1>4 DEF StartSession
  <2> QED BY <2>1
<1> QED
  BY <1>1, <1>2, <1>3, <1>4 DEF Next, vars, LoginStep, SetPolicyStep, Verify, LockUser,
     HoldsOneDevice, ChooseClosing, CloseOther, CommitRevoked, AbortLogin, Logout,
     RevokeUserSessions, AllowMany, SelectExtra, CloseExtra, ChooseMarking, MarkEnforced,
     AbortChange

LEMMA OnlyStartsOpen ==
  ASSUME TypeOK, [Next]_vars, \A l \in Logins : ~StartSession(l), NEW a \in Accounts
  PROVE  OpenOf(a)' \subseteq OpenOf(a)
  BY RowsKeepAccount DEF OpenOf

\* StartSession adds one to what the sign-in leaves open of its account, and
\* none to any other account.
LEMMA StartOpensOne ==
  ASSUME TypeOK, NEW l \in Logins, StartSession(l), NEW a \in Accounts
  PROVE  \/ OpenOf(a)' \subseteq OpenOf(a)
         \/ a = login[l].account /\ \E s : OpenOf(a)' \subseteq Remaining(l) \cup {s}
<1>1. CASE UNCHANGED sessions
  BY <1>1 DEF OpenOf
<1>2. CASE ~UNCHANGED sessions
  <2>1. PICK s \in Ids :
          sessions' = [t \in (DOMAIN sessions \ login[l].closing) \cup {s} |->
                         IF t = s
                         THEN [account |-> login[l].account, enforce |-> login[l].enforce]
                         ELSE sessions[t]]
    BY <1>2 DEF StartSession
  <2>2. \A t \in DOMAIN sessions' :
          \/ t = s /\ sessions'[t].account = login[l].account
          \/ t \in DOMAIN sessions \ login[l].closing /\ sessions'[t] = sessions[t]
    BY <2>1
  <2>3. CASE a = login[l].account
    BY <2>2, <2>3 DEF OpenOf, Remaining
  <2>4. CASE a # login[l].account
    BY <2>2, <2>4 DEF OpenOf
  <2> QED BY <2>3, <2>4
<1> QED BY <1>1, <1>2

\* A request that has found what to close either did so in this step, which
\* writes no row, or had done so before.
LEMMA FoundOrKept ==
  ASSUME TypeOK, [Next]_vars, NEW l \in Logins, Closes(l)'
  PROVE  \/ ChooseClosing(l)
         \/ \E a \in Accounts, by \in Users : RevokeUserSessions(l, a, by)
         \/ /\ Closes(l)
            /\ login'[l].stage = login[l].stage
            /\ login'[l].account = login[l].account
            /\ login'[l].closing = login[l].closing
            /\ login'[l].written \subseteq login[l].written \cup login[l].closing
            /\ Chosen(l) => login'[l].enforce = login[l].enforce
            /\ ~StartSession(l)
<1>1. CASE login'[l] = login[l]
  <2>1. ~StartSession(l)
    BY <1>1 DEF StartSession, Step, TypeOK, Idle
  <2> QED BY <1>1, <2>1 DEF Closes
<1>2. CASE LockUser(l)
  <2>1. login'[l].stage = "locked"
    BY <1>2 DEF LockUser, Step, TypeOK, Login, Idle
  <2> QED BY <2>1 DEF Closes
<1>3. CASE HoldsOneDevice(l)
  <2>1. login'[l].stage = "deciding"
    BY <1>3 DEF HoldsOneDevice, Step, TypeOK
  <2> QED BY <2>1 DEF Closes
<1>4. CASE CloseOther(l)
  <2>1. PICK s \in login[l].closing : login'[l] = [login[l] EXCEPT !.written = @ \cup {s}]
    BY <1>4 DEF CloseOther, Step, TypeOK
  <2>2. \/ login[l] \in [stage : {"chosen"}, account : Accounts, enforce : BOOLEAN,
                        closing : SUBSET Ids, written : SUBSET Ids]
        \/ login[l] \in [stage : {"revoking"}, account : Accounts, by : Users,
                        closing : SUBSET Ids, written : SUBSET Ids]
    BY <1>4 DEF CloseOther, Closes, TypeOK, Login, Idle
  <2>3. ~StartSession(l)
    <3>1. login'[l].stage = login[l].stage
      BY <2>1, <2>2
    <3>2. login'[l].stage # "idle"
      BY <2>2, <3>1
    <3> QED BY <3>2 DEF StartSession, Step, TypeOK, Idle
  <2> QED BY <1>4, <2>1, <2>2, <2>3 DEF CloseOther, Chosen
<1>5. CASE StartSession(l) \/ CommitRevoked(l) \/ AbortLogin(l)
  <2>1. login'[l].stage = "idle"
    BY <1>5 DEF StartSession, CommitRevoked, AbortLogin, Step, TypeOK, Idle
  <2> QED BY <2>1 DEF Closes
<1>6. ASSUME NEW a \in Accounts, Verify(l, a) PROVE FALSE
  <2>1. login'[l].stage = "verified"
    BY <1>6 DEF Verify, Step, TypeOK
  <2> QED BY <2>1 DEF Closes
<1>7. CASE Acts(l)
  BY <1>2, <1>3, <1>4, <1>5, <1>6, <1>7 DEF Acts, LoginStep
<1>8. CASE ~Acts(l)
  BY <1>1, <1>8, ActsAlone, WhoActs
<1> QED BY <1>7, <1>8

\* What a sign-in leaves open only shrinks, until it commits.
LEMMA RemainingShrinks ==
  ASSUME TypeOK, OneHolder, [Next]_vars, NEW l \in Logins,
         Chosen(l), Chosen(l)', ~StartSession(l),
         login'[l].account = login[l].account, login'[l].closing = login[l].closing
  PROVE  Remaining(l)' \subseteq Remaining(l)
<1>1. PICK a \in Accounts : a = login[l].account /\ HoldsUser(l, a)
  BY HoldersTyped DEF Chosen, HoldsUser, HoldsForUpdate, Idle
<1>2. CASE \E k \in Logins : StartSession(k)
  <2>1. PICK k \in Logins : StartSession(k)
    BY <1>2
  <2>2. a # login[k].account
    BY <1>1, <2>1 DEF OneHolder, HoldsUser, HoldsForUpdate, StartSession
  <2>3. OpenOf(a)' \subseteq OpenOf(a)
    BY <1>1, <2>1, <2>2, StartOpensOne
  <2> QED BY <1>1, <2>3 DEF Remaining, OpenOf
<1>3. CASE \A k \in Logins : ~StartSession(k)
  <2>1. OpenOf(a)' \subseteq OpenOf(a)
    BY <1>1, <1>3, OnlyStartsOpen
  <2> QED BY <1>1, <2>1 DEF Remaining, OpenOf
<1> QED BY <1>2, <1>3

\* What a sign-in chooses to leave open has room for one more.
LEMMA ChoiceLeavesRoom ==
  ASSUME TypeOK, DeviceLimit, NEW l \in Logins, ChooseClosing(l)
  PROVE  /\ Cardinality(Remaining(l)') <= MaxDevices - 1
         /\ login'[l].enforce => Remaining(l)' = {}
<1>1. PICK a \in Accounts : a = login[l].account
  BY HoldersTyped DEF ChooseClosing, Idle
<1>2. PICK kept \in (IF login[l].enforce THEN {{}} ELSE KeptWithinLimit(a)) :
        Step(l, [stage |-> "chosen", account |-> a, enforce |-> login[l].enforce,
                 closing |-> OpenOf(a) \ kept, written |-> {}])
  BY <1>1 DEF ChooseClosing
<1>3. login'[l] = [stage |-> "chosen", account |-> a, enforce |-> login[l].enforce,
                   closing |-> OpenOf(a) \ kept, written |-> {}]
  BY <1>1, <1>2 DEF Step, TypeOK
<1>4. kept \subseteq OpenOf(a)
  BY <1>2 DEF KeptWithinLimit
<1>5. Remaining(l)' = kept
  <2>1. Remaining(l)' = {s \in DOMAIN sessions : sessions[s].account = a} \ (OpenOf(a) \ kept)
    BY <1>3 DEF ChooseClosing, Remaining, OpenOf
  <2> QED BY <2>1, <1>4 DEF OpenOf
<1>6. CASE login[l].enforce
  <2>1. kept = {}
    BY <1>2, <1>6
  <2>2. Cardinality(kept) = 0
    BY <2>1, FS_EmptySet
  <2> QED BY <1>5, <2>1, <2>2, MaxDevicesAssumption
<1>7. CASE ~login[l].enforce
  <2>1. kept \in KeptWithinLimit(a)
    BY <1>2, <1>7
  <2>2. IsFiniteSet(kept)
    BY <1>1, <1>4, FS_Subset DEF DeviceLimit
  <2>3. Cardinality(kept) \in Nat
    BY <2>2, FS_CardinalityType
  <2>4. Cardinality(kept) <= MaxDevices - 1
    BY <2>1, <2>3, MaxDevicesAssumption DEF KeptWithinLimit
  <2>5. ~login'[l].enforce
    BY <1>3, <1>7
  <2> QED BY <1>5, <2>4, <2>5
<1> QED BY <1>6, <1>7

LEMMA RoomForOneKept == DevicesInv /\ [Next]_vars => RoomForOne'
<1> SUFFICES ASSUME DevicesInv, [Next]_vars, NEW l \in Logins, Chosen(l)'
             PROVE  /\ Cardinality(Remaining(l)') <= MaxDevices - 1
                    /\ login'[l].enforce => Remaining(l)' = {}
  BY DEF RoomForOne
<1>1. CASE ChooseClosing(l)
  BY <1>1, ChoiceLeavesRoom DEF DevicesInv
<1>2. CASE /\ Chosen(l)
           /\ login'[l].account = login[l].account
           /\ login'[l].enforce = login[l].enforce
           /\ login'[l].closing = login[l].closing
           /\ ~StartSession(l)
  <2>1. Remaining(l)' \subseteq Remaining(l)
    BY <1>2, RemainingShrinks DEF DevicesInv
  <2>2. IsFiniteSet(Remaining(l))
    <3>1. login[l].account \in Accounts
      BY <1>2, HoldersTyped DEF DevicesInv, Chosen, Idle
    <3>2. IsFiniteSet(OpenOf(login[l].account))
      BY <3>1 DEF DevicesInv, DeviceLimit
    <3> QED BY <3>2, FS_Subset DEF Remaining
  <2>3. /\ Cardinality(Remaining(l)) \in Nat
        /\ IsFiniteSet(Remaining(l)')
        /\ Cardinality(Remaining(l)') \in Nat
        /\ Cardinality(Remaining(l)') <= Cardinality(Remaining(l))
    BY <2>1, <2>2, FS_Subset, FS_CardinalityType
  <2>4. /\ Cardinality(Remaining(l)) <= MaxDevices - 1
        /\ login[l].enforce => Remaining(l) = {}
    BY <1>2 DEF DevicesInv, RoomForOne
  <2> QED BY <1>2, <2>1, <2>3, <2>4, MaxDevicesAssumption
<1>3. CASE \E a \in Accounts, by \in Users : RevokeUserSessions(l, a, by)
  <2>1. login'[l].stage = "revoking"
    BY <1>3 DEF RevokeUserSessions, Step, DevicesInv, TypeOK
  <2> QED BY <2>1 DEF Chosen
<1> QED BY <1>1, <1>2, <1>3, FoundOrKept DEF DevicesInv, Chosen, Closes

LEMMA DeviceLimitKept == DevicesInv /\ [Next]_vars => DeviceLimit'
<1> SUFFICES ASSUME DevicesInv, [Next]_vars, NEW a \in Accounts
             PROVE  IsFiniteSet(OpenOf(a)') /\ Cardinality(OpenOf(a)') <= MaxDevices
  BY DEF DeviceLimit
<1>1. IsFiniteSet(OpenOf(a)) /\ Cardinality(OpenOf(a)) <= MaxDevices
  BY DEF DevicesInv, DeviceLimit
<1>2. CASE OpenOf(a)' \subseteq OpenOf(a)
  <2>1. /\ IsFiniteSet(OpenOf(a)')
        /\ Cardinality(OpenOf(a)') <= Cardinality(OpenOf(a))
    BY <1>1, <1>2, FS_Subset
  <2>2. Cardinality(OpenOf(a)) \in Nat /\ Cardinality(OpenOf(a)') \in Nat
    BY <1>1, <2>1, FS_CardinalityType
  <2> QED BY <1>1, <2>1, <2>2, MaxDevicesAssumption
<1>3. ASSUME NEW l \in Logins, StartSession(l), a = login[l].account, NEW s,
             OpenOf(a)' \subseteq Remaining(l) \cup {s}
      PROVE  IsFiniteSet(OpenOf(a)') /\ Cardinality(OpenOf(a)') <= MaxDevices
  <2>1. IsFiniteSet(Remaining(l))
    BY <1>1, <1>3, FS_Subset DEF Remaining
  <2>2. Cardinality(Remaining(l)) \in Nat
    BY <2>1, FS_CardinalityType
  <2>3. Cardinality(Remaining(l)) <= MaxDevices - 1
    BY <1>3 DEF DevicesInv, RoomForOne, StartSession, Chosen
  <2>4. IsFiniteSet(Remaining(l) \cup {s})
    BY <2>1, FS_AddElement
  <2>5. Cardinality(Remaining(l) \cup {s}) <= MaxDevices
    BY <2>1, <2>2, <2>3, FS_AddElement, MaxDevicesAssumption
  <2>6. /\ IsFiniteSet(OpenOf(a)')
        /\ Cardinality(OpenOf(a)') <= Cardinality(Remaining(l) \cup {s})
    BY <1>3, <2>4, FS_Subset
  <2>7. Cardinality(OpenOf(a)') \in Nat /\ Cardinality(Remaining(l) \cup {s}) \in Nat
    BY <2>4, <2>6, FS_CardinalityType
  <2> QED BY <2>5, <2>6, <2>7, MaxDevicesAssumption
<1>4. CASE \E l \in Logins : StartSession(l)
  BY <1>2, <1>3, <1>4, StartOpensOne DEF DevicesInv
<1>5. CASE \A l \in Logins : ~StartSession(l)
  BY <1>2, <1>5, OnlyStartsOpen DEF DevicesInv
<1> QED BY <1>4, <1>5

\* What a request finds to close are sessions of its own account, which no other
\* request holds.
Found(l) ==
    ChooseClosing(l) \/ \E a \in Accounts, by \in Users : RevokeUserSessions(l, a, by)

LEMMA FindsOwn ==
  ASSUME TypeOK, OneHolder, NEW l \in Logins, Found(l)
  PROVE  /\ UNCHANGED sessions
         /\ login'[l].account \in Accounts
         /\ login'[l].closing = OpenOf(login'[l].account) \cap login'[l].closing
         /\ login'[l].written = {}
         /\ \A k \in Logins : k # l => ~HoldsUser(k, login'[l].account)
<1>1. CASE ChooseClosing(l)
  <2>1. PICK a \in Accounts : a = login[l].account
    BY <1>1, HoldersTyped DEF ChooseClosing, Idle
  <2>2. /\ UNCHANGED sessions
        /\ login'[l].account = a
        /\ login'[l].closing \subseteq OpenOf(a)
        /\ login'[l].written = {}
    BY <1>1, <2>1 DEF ChooseClosing, Step, TypeOK
  <2>3. HoldsUser(l, a)
    BY <1>1, <2>1 DEF ChooseClosing, HoldsUser, HoldsForUpdate
  <2> QED BY <2>2, <2>3 DEF OneHolder
<1>2. ASSUME NEW a \in Accounts, NEW by \in Users, RevokeUserSessions(l, a, by)
      PROVE  /\ UNCHANGED sessions
             /\ login'[l].account = a
             /\ login'[l].closing = OpenOf(a)
             /\ login'[l].written = {}
             /\ \A k \in Logins : k # l => ~HoldsUser(k, a)
  BY <1>2 DEF RevokeUserSessions, Step, TypeOK
<1> QED BY <1>1, <1>2 DEF Found

\* A request that found nothing in this step had found the same before.
LEMMA KeptClosing ==
  ASSUME TypeOK, [Next]_vars, NEW l \in Logins, Closes(l)', ~Found(l)
  PROVE  /\ Closes(l)
         /\ login'[l].account = login[l].account
         /\ login'[l].closing = login[l].closing
         /\ login'[l].written \subseteq login[l].written \cup login[l].closing
  BY FoundOrKept DEF Found

LEMMA OwnRowsKept == TypeOK /\ OneHolder /\ OwnRows /\ [Next]_vars => OwnRows'
<1> SUFFICES ASSUME TypeOK, OneHolder, OwnRows, [Next]_vars, NEW l \in Logins, Closes(l)',
                    NEW s \in login'[l].closing \cap DOMAIN sessions'
             PROVE  sessions'[s].account = login'[l].account
  BY DEF OwnRows
<1>1. CASE Found(l)
  BY <1>1, FindsOwn DEF OpenOf
<1>2. CASE ~Found(l)
  <2>1. Closes(l) /\ login'[l].account = login[l].account /\ s \in login[l].closing
    BY <1>2, KeptClosing
  <2>2. ~Fresh(s)
    BY <2>1 DEF Fresh
  <2> QED BY <2>1, <2>2, RowsKeepAccount DEF OwnRows
<1> QED BY <1>1, <1>2

LEMMA ClosingApartKept ==
  TypeOK /\ OneHolder /\ OwnRows /\ ClosingApart /\ [Next]_vars => ClosingApart'
<1> SUFFICES ASSUME TypeOK, OneHolder, OwnRows, ClosingApart, [Next]_vars,
                    NEW k \in Logins, NEW l \in Logins, Closes(k)', Closes(l)', k # l
             PROVE  login'[k].closing \cap login'[l].closing = {}
  BY DEF ClosingApart
<1>1. ASSUME NEW m \in Logins, NEW n \in Logins, m # n, Found(m), Closes(n)'
      PROVE  login'[m].closing \cap login'[n].closing = {}
  <2>1. login'[n] = login[n]
    BY <1>1, ActsAlone DEF Found, Acts, LoginStep
  <2>2. Closes(n) /\ login[n].account \in Accounts
    BY <1>1, <2>1, HoldersTyped DEF Closes, Idle
  <2>3. HoldsUser(n, login[n].account)
    BY <2>2 DEF Closes, HoldsUser, HoldsForUpdate
  <2>4. login[n].account # login'[m].account
    BY <1>1, <2>3, FindsOwn
  <2>5. \A s \in login'[m].closing \cap login[n].closing :
          sessions[s].account = login'[m].account /\ sessions[s].account = login[n].account
    BY <1>1, <2>2, FindsOwn DEF OpenOf, OwnRows
  <2> QED BY <2>1, <2>4, <2>5
<1>2. CASE ~Found(k) /\ ~Found(l)
  BY <1>2, KeptClosing DEF ClosingApart
<1> QED BY <1>1, <1>2

LEMMA WrittenIsClosingKept ==
  TypeOK /\ OneHolder /\ WrittenIsClosing /\ [Next]_vars => WrittenIsClosing'
<1> SUFFICES ASSUME TypeOK, OneHolder, WrittenIsClosing, [Next]_vars,
                    NEW l \in Logins, Closes(l)'
             PROVE  login'[l].written \subseteq login'[l].closing
  BY DEF WrittenIsClosing
<1>1. CASE Found(l)
  BY <1>1, FindsOwn
<1>2. CASE ~Found(l)
  BY <1>2, KeptClosing DEF WrittenIsClosing
<1> QED BY <1>1, <1>2

LEMMA DevicesInvHolds == Spec => []DevicesInv
<1>1. Init => DevicesInv
  <2> SUFFICES ASSUME Init PROVE DevicesInv
    OBVIOUS
  <2>1. \A a : OpenOf(a) = {}
    BY DEF Init, OpenOf
  <2>2. DeviceLimit
    BY <2>1, FS_EmptySet, MaxDevicesAssumption DEF DeviceLimit
  <2>3. \A l \in Logins : login[l].stage = "idle"
    BY DEF Init, Idle
  <2> QED
    BY <2>2, <2>3, InitTyped DEF DevicesInv, OneHolder, RoomForOne, Chosen, HoldsUser,
       HoldsForUpdate, OwnRows, ClosingApart, WrittenIsClosing, Closes
<1>2. DevicesInv /\ [Next]_vars => DevicesInv'
  BY NextTyped, OneHolderKept, RoomForOneKept, DeviceLimitKept, OwnRowsKept,
     ClosingApartKept, WrittenIsClosingKept DEF DevicesInv
<1> QED BY <1>1, <1>2, PTL DEF Spec

(***************************************************************************)
(* An account never holds more sessions than the limit, however many       *)
(* devices sign in at once.                                                *)
(***************************************************************************)
THEOREM DevicesBounded == Spec => []WithinDeviceLimit
<1>1. DevicesInv => WithinDeviceLimit
  BY DEF DevicesInv, DeviceLimit, WithinDeviceLimit
<1> QED BY <1>1, DevicesInvHolds, PTL

(***************************************************************************)
(* A sign-in of a one-device account inserts cleanly: nothing the unique   *)
(* index would refuse stands beside its session.                           *)
(***************************************************************************)
THEOREM SignInsNeverCollide == Spec => []LoginsNeverCollide
<1>1. DevicesInv => LoginsNeverCollide
  BY DEF DevicesInv, RoomForOne, Chosen, Remaining, Rivals, LoginsNeverCollide
<1> QED BY <1>1, DevicesInvHolds, PTL

-----------------------------------------------------------------------------
(***************************************************************************)
(* Who has found what to close waits for no row of another request: they   *)
(* close sessions of different accounts.  A sign-in that has waits for     *)
(* nobody but the change, then; a closing of all sessions at most for one  *)
(* that holds the administrator's own row, and so not in turn for it.      *)
(***************************************************************************)
LEMMA NobodyWaitsInACircle == DevicesInv => OnlyTheChangeClosesACircle
<1> SUFFICES ASSUME DevicesInv, NEW l \in Logins, login[l] # Idle
             PROVE  \E k \in Logins : login[k] # Idle /\ ~WaitsForLogin(k)
  BY DEF OnlyTheChangeClosesACircle
<1>1. ASSUME NEW k \in Logins, NEW m \in Logins \ {k}, Closes(k)
      PROVE  (login[k].closing \ login[k].written) \cap WrittenBy(m) = {}
  BY <1>1 DEF DevicesInv, ClosingApart, WrittenIsClosing, WrittenBy
<1>2. ASSUME NEW k \in Logins, NEW user, HoldsForUpdate(k, user)
      PROVE  login[k] # Idle /\ ~WaitsForLogin(k)
  BY <1>1, <1>2 DEF HoldsForUpdate, WaitsForLogin, Idle
<1>3. ASSUME NEW k \in Logins, login[k].stage = "revoking"
      PROVE  \E m \in Logins : login[m] # Idle /\ ~WaitsForLogin(m)
  <2>1. CASE ~WaitsForLogin(k)
    BY <1>3, <2>1 DEF Idle
  <2>2. CASE WaitsForLogin(k)
    <3>1. PICK m \in Logins \ {k} : HoldsForUpdate(m, login[k].by)
      BY <1>1, <1>3, <2>2 DEF WaitsForLogin
    <3> QED BY <1>2, <3>1
  <2> QED BY <2>1, <2>2
<1>4. CASE WaitsForLogin(l) /\ login[l].stage = "verified"
  <2>1. PICK k \in Logins \ {l} : HoldsUser(k, login[l].account)
    BY <1>4 DEF WaitsForLogin, Closes
  <2> QED BY <1>2, <1>3, <2>1 DEF HoldsUser
<1>5. CASE WaitsForLogin(l) /\ login[l].stage = "revoking"
  BY <1>3, <1>5
<1>6. CASE WaitsForLogin(l) /\ login[l].stage = "chosen"
  BY <1>1, <1>6 DEF WaitsForLogin, Closes
<1> QED BY <1>4, <1>5, <1>6 DEF WaitsForLogin, Closes

(***************************************************************************)
(* Sign-ins, new passwords and suspensions never all wait for one another: *)
(* a circle of waits goes through the change of the policy.                *)
(***************************************************************************)
THEOREM SignInsGoOn == Spec => []OnlyTheChangeClosesACircle
  BY DevicesInvHolds, NobodyWaitsInACircle, PTL
=============================================================================
