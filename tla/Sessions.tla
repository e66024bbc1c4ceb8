------------------------------ MODULE Sessions ------------------------------
(***************************************************************************)
(* The device sessions of the accounts of one role: signing in             *)
(* (routers/auth.py, login; auth.py, issue_tokens), everything that closes *)
(* sessions, and the switch between one device and many                    *)
(* (services/session_policy.py).                                           *)
(*                                                                         *)
(* Each sign-in, each closing of all sessions of an account and the change *)
(* of the policy is a READ COMMITTED transaction of several statements:    *)
(* what it writes is seen by the others when it commits, and the rows it   *)
(* has written are locked until then.  An UPDATE finds its rows in a       *)
(* snapshot taken when it starts, and writes them one by one, in an order  *)
(* left open, each once its lock is free.                                  *)
(*                                                                         *)
(* An INSERT into audit_logs names the user who acts, and a change of      *)
(* session_policies.updated_by the user who made it: foreign keys, that    *)
(* take the user's row FOR KEY SHARE.  That waits for a sign-in, which     *)
(* holds its row FOR UPDATE, and not for an UPDATE of other columns.       *)
(*                                                                         *)
(* Only the rows that are not revoked are kept: no code reads another.     *)
(* Which of an account's sessions is the newest, or the stalest, depends   *)
(* on when its devices were last active and is left open.                  *)
(***************************************************************************)
EXTENDS Naturals, FiniteSets

CONSTANTS
    Accounts,
    Elsewhere,      \* stands for every user of another role
    Logins,         \* requests being served at once
    Ids,            \* bound of the model: names for the sessions in use
    MaxDevices      \* MAX_DEVICES_PER_USER

ASSUME MaxDevicesAssumption == MaxDevices \in Nat \ {0}
ASSUME ElsewhereAssumption == Elsewhere \notin Accounts

VARIABLES
    sessions,       \* refresh_sessions: from id to row
    single,         \* the policy: NOT allow_multiple_devices
    updatedBy,      \* who changed it last
    login,          \* what each sign-in, or closing of all sessions, is doing
    change          \* the change of the policy in progress, if any

vars == <<sessions, single, updatedBy, login, change>>

-----------------------------------------------------------------------------
Row == [account : Accounts, enforce : BOOLEAN]

Users == Accounts \cup {Elsewhere}

Idle == [stage |-> "idle"]

(* Stages of a sign-in: the password is "verified", the account's row      *)
(* "locked", the policy read, and the sessions to close "chosen".  One     *)
(* that is "revoking" closes all sessions of an account, by the hand of an *)
(* administrator or of its owner, who is written down nowhere (Elsewhere). *)
Login ==
    {Idle} \cup [stage : {"verified", "locked"}, account : Accounts]
    \cup [stage : {"deciding"}, account : Accounts, enforce : BOOLEAN]
    \cup [stage : {"chosen"}, account : Accounts, enforce : BOOLEAN,
          closing : SUBSET Ids, written : SUBSET Ids]
    \cup [stage : {"revoking"}, account : Accounts, by : Users,
          closing : SUBSET Ids, written : SUBSET Ids]

(* A change is "closing" the sessions beyond the newest, then "marking"    *)
(* the others.                                                             *)
Change ==
    {Idle} \cup [stage : {"closing", "marking"}, single : BOOLEAN, actor : Users,
                 closing : SUBSET Ids, marking : SUBSET Ids, written : SUBSET Ids]

TypeOK ==
    /\ DOMAIN sessions \subseteq Ids
    /\ \A s \in DOMAIN sessions : sessions[s] \in Row
    /\ single \in BOOLEAN
    /\ updatedBy \in Users
    /\ login \in [Logins -> Login]
    /\ change \in Change

Init ==
    /\ sessions = [s \in {} |-> Idle]
    /\ single \in BOOLEAN
    /\ updatedBy = Elsewhere
    /\ login = [l \in Logins |-> Idle]
    /\ change = Idle

OpenOf(a) == {s \in DOMAIN sessions : sessions[s].account = a}

Without(closed) == [s \in DOMAIN sessions \ closed |-> sessions[s]]

Step(l, state) == login' = [login EXCEPT ![l] = state]

-----------------------------------------------------------------------------
(* Locks.                                                                  *)

Closes(l) == login[l].stage \in {"chosen", "revoking"}

\* SELECT ... FOR UPDATE.
HoldsForUpdate(l, a) ==
    login[l].stage \in {"locked", "deciding", "chosen"} /\ login[l].account = a

HoldsUser(l, a) ==
    \/ HoldsForUpdate(l, a)
    \/ login[l].stage = "revoking" /\ login[l].account = a

\* FOR KEY SHARE, for the foreign key of a row that now names another user.
ChangeShares(a) == change # Idle /\ change.actor = a /\ a # updatedBy

Shareable(user) == \A l \in Logins : ~HoldsForUpdate(l, user)

WrittenBy(l) == IF Closes(l) THEN login[l].written ELSE {}

WrittenByChange == IF change = Idle THEN {} ELSE change.written

\* The sign-ins leave these rows alone.
FreeOfLogins(rows) == \A l \in Logins : WrittenBy(l) \cap rows = {}

FreeOfChange(rows) == WrittenByChange \cap rows = {}

\* A name nobody refers to any more stands for a new uuid.
Fresh(s) ==
    /\ s \notin DOMAIN sessions
    /\ \A l \in Logins : Closes(l) => s \notin login[l].closing
    /\ change # Idle => s \notin change.closing \cup change.marking

-----------------------------------------------------------------------------
(* login and issue_tokens.                                                 *)

\* The account is active and the password is the one in its row.
Verify(l, a) ==
    /\ login[l] = Idle
    /\ Step(l, [stage |-> "verified", account |-> a])
    /\ UNCHANGED <<sessions, single, updatedBy, change>>

\* Mutated form: the account is read without FOR UPDATE.
LockUserNot(l) ==
    /\ login[l].stage = "verified"
    /\ Step(l, [login[l] EXCEPT !.stage = "locked"])
    /\ UNCHANGED <<sessions, single, updatedBy, change>>

LockUser(l) ==
    /\ login[l].stage = "verified"
    /\ \A other \in Logins : ~HoldsUser(other, login[l].account)
    /\ ~ChangeShares(login[l].account)
    /\ Step(l, [login[l] EXCEPT !.stage = "locked"])
    /\ UNCHANGED <<sessions, single, updatedBy, change>>

\* Mutated form: the policy is read and not passed on.
HoldsOneDeviceDropped(l) ==
    /\ login[l].stage = "locked"
    /\ Step(l, [login[l] EXCEPT !.stage = "deciding"])
    /\ UNCHANGED <<sessions, single, updatedBy, change>>

HoldsOneDevice(l) ==
    /\ login[l].stage = "locked"
    /\ Step(l, [stage |-> "deciding", account |-> login[l].account, enforce |-> single])
    /\ UNCHANGED <<sessions, single, updatedBy, change>>

\* Mutated form: OFFSET MAX_DEVICES_PER_USER.
KeptOneMore(a) ==
    {kept \in SUBSET OpenOf(a) :
        \/ Cardinality(kept) = MaxDevices
        \/ Cardinality(kept) < MaxDevices /\ kept = OpenOf(a)}

\* What may stay open of an account that is about to get one session more: all
\* but the stalest.
KeptWithinLimit(a) ==
    {kept \in SUBSET OpenOf(a) :
        \/ Cardinality(kept) = MaxDevices - 1
        \/ Cardinality(kept) < MaxDevices - 1 /\ kept = OpenOf(a)}

\* revoke_user_sessions, or _retire_beyond_device_limit: the rows it will close.
ChooseClosing(l) ==
    /\ login[l].stage = "deciding"
    /\ LET a == login[l].account
       IN  \E kept \in (IF login[l].enforce THEN {{}} ELSE KeptWithinLimit(a)) :
             Step(l, [stage |-> "chosen", account |-> a, enforce |-> login[l].enforce,
                      closing |-> OpenOf(a) \ kept, written |-> {}])
    /\ UNCHANGED <<sessions, single, updatedBy, change>>

\* A row written by another transaction is waited for; one closed by it is
\* still locked.
CloseOther(l) ==
    /\ Closes(l)
    /\ \E s \in login[l].closing \ login[l].written :
         /\ FreeOfLogins({s}) /\ FreeOfChange({s})
         /\ Step(l, [login[l] EXCEPT !.written = @ \cup {s}])
    /\ UNCHANGED <<sessions, single, updatedBy, change>>

ClosedAll(l) == login[l].closing \subseteq login[l].written

\* Sessions of the account the unique index will not have beside an enforcing
\* one: the insert fails, or waits for the change and fails then.
Rivals(l) ==
    {s \in OpenOf(login[l].account) \ login[l].closing :
        \/ sessions[s].enforce
        \/ change.stage = "marking" /\ s \in change.written}

\* INSERT and COMMIT.
StartSession(l) ==
    /\ login[l].stage = "chosen" /\ ClosedAll(l)
    /\ IF login[l].enforce /\ Rivals(l) # {}
       THEN UNCHANGED sessions
       ELSE \E s \in Ids :
              /\ Fresh(s)
              /\ sessions' = [t \in (DOMAIN sessions \ login[l].closing) \cup {s} |->
                   IF t = s
                   THEN [account |-> login[l].account, enforce |-> login[l].enforce]
                   ELSE sessions[t]]
    /\ Step(l, Idle)
    /\ UNCHANGED <<single, updatedBy, change>>

\* The process dies, or PostgreSQL breaks a deadlock.
AbortLogin(l) ==
    /\ login[l] # Idle
    /\ Step(l, Idle)
    /\ UNCHANGED <<sessions, single, updatedBy, change>>

-----------------------------------------------------------------------------
(* What else closes sessions.                                              *)

Logout(s) ==
    /\ s \in DOMAIN sessions
    /\ FreeOfLogins({s}) /\ FreeOfChange({s})
    /\ sessions' = Without({s})
    /\ UNCHANGED <<single, updatedBy, login, change>>

\* Mutated form: the sessions are closed before the account's row is written.
RevokeBeforeRow(l, a, by) ==
    /\ login[l] = Idle
    /\ OpenOf(a) # {}
    /\ Step(l, [stage |-> "revoking", account |-> a, by |-> by,
                closing |-> OpenOf(a), written |-> {}])
    /\ UNCHANGED <<sessions, single, updatedBy, change>>

\* A new password, a reset one, a suspension or a change of role: the account's
\* row is written, and the sessions to close are found.
RevokeUserSessions(l, a, by) ==
    /\ login[l] = Idle
    /\ OpenOf(a) # {}
    /\ \A other \in Logins : ~HoldsUser(other, a)
    /\ Step(l, [stage |-> "revoking", account |-> a, by |-> by,
                closing |-> OpenOf(a), written |-> {}])
    /\ UNCHANGED <<sessions, single, updatedBy, change>>

\* The audit entry of an administrator, and COMMIT.
CommitRevoked(l) ==
    /\ login[l].stage = "revoking" /\ ClosedAll(l)
    /\ Shareable(login[l].by)
    /\ sessions' = Without(login[l].closing)
    /\ Step(l, Idle)
    /\ UNCHANGED <<single, updatedBy, change>>

-----------------------------------------------------------------------------
(* set_policy.  The upsert keeps the changes of one role apart.            *)

\* The upsert: the actor's row is shared if updated_by changes.
Upserts(actor) == change = Idle /\ (actor = updatedBy \/ Shareable(actor))

AllowMany(actor) ==
    /\ Upserts(actor)
    /\ change' = [stage |-> "closing", single |-> FALSE, actor |-> actor,
                  closing |-> {}, marking |-> {}, written |-> {}]
    /\ UNCHANGED <<sessions, single, updatedBy, login>>

\* The newest session of every account that has one.
OneOfEach ==
    {kept \in SUBSET DOMAIN sessions :
        \A a \in Accounts : OpenOf(a) # {} => Cardinality(kept \cap OpenOf(a)) = 1}

SelectExtra(actor) ==
    /\ Upserts(actor)
    /\ \E kept \in OneOfEach :
         change' = [stage |-> "closing", single |-> TRUE, actor |-> actor,
                    closing |-> DOMAIN sessions \ kept, marking |-> {}, written |-> {}]
    /\ UNCHANGED <<sessions, single, updatedBy, login>>

CloseExtra ==
    /\ change.stage = "closing"
    /\ \E s \in change.closing \ change.written :
         FreeOfLogins({s}) /\ change' = [change EXCEPT !.written = @ \cup {s}]
    /\ UNCHANGED <<sessions, single, updatedBy, login>>

ChooseMarking ==
    /\ change.stage = "closing"
    /\ change.closing \subseteq change.written
    /\ change' = [change EXCEPT !.stage = "marking",
                    !.marking = DOMAIN sessions \ change.closing]
    /\ UNCHANGED <<sessions, single, updatedBy, login>>

\* Sessions the unique index will not have beside s, once s is enforcing.
InTheWay(s) ==
    {t \in DOMAIN sessions \ change.closing :
        /\ change.single /\ s \in DOMAIN sessions
        /\ t # s /\ sessions[s].account = sessions[t].account
        /\ (sessions[t].enforce \/ t \in change.written)}

\* The index waits for who is closing such a session; if one is left, the
\* whole change fails.
MarkEnforced ==
    /\ change.stage = "marking"
    /\ \E s \in change.marking \ change.written :
         /\ FreeOfLogins({s} \cup InTheWay(s))
         /\ change' = IF InTheWay(s) # {} THEN Idle
                      ELSE [change EXCEPT !.written = @ \cup {s}]
    /\ UNCHANGED <<sessions, single, updatedBy, login>>

\* The audit entry, and COMMIT.
CommitPolicy ==
    /\ change.stage = "marking"
    /\ change.marking \subseteq change.written
    /\ Shareable(change.actor)
    /\ single' = change.single
    /\ updatedBy' = change.actor
    /\ sessions' = [s \in DOMAIN sessions \ change.closing |->
         IF s \in change.marking
         THEN [sessions[s] EXCEPT !.enforce = change.single] ELSE sessions[s]]
    /\ change' = Idle
    /\ UNCHANGED login

AbortChange ==
    /\ change # Idle
    /\ change' = Idle
    /\ UNCHANGED <<sessions, single, updatedBy, login>>

LoginStep(l) ==
    \/ LockUser(l)
    \/ HoldsOneDevice(l)
    \/ ChooseClosing(l)
    \/ CloseOther(l)
    \/ StartSession(l)
    \/ CommitRevoked(l)
    \/ AbortLogin(l)

SetPolicyStep == CloseExtra \/ ChooseMarking \/ MarkEnforced \/ CommitPolicy \/ AbortChange

Next ==
    \/ \E l \in Logins :
         \/ \E a \in Accounts : Verify(l, a)
         \/ \E a \in Accounts, by \in Users : RevokeUserSessions(l, a, by)
         \/ LoginStep(l)
    \/ \E s \in Ids : Logout(s)
    \/ \E actor \in Users : AllowMany(actor) \/ SelectExtra(actor)
    \/ SetPolicyStep

Spec == Init /\ [][Next]_vars

-----------------------------------------------------------------------------
(***************************************************************************)
(* login: two sign-ins racing each other are serialised, so the loser      *)
(* revokes and inserts cleanly.  When a sign-in of a one-device account is *)
(* about to insert, nothing the unique index would refuse stands beside    *)
(* it, whatever other sign-ins and changes of the policy are under way.    *)
(***************************************************************************)
LoginsNeverCollide ==
    \A l \in Logins :
        login[l].stage = "chosen" /\ login[l].enforce /\ ClosedAll(l) => Rivals(l) = {}

(***************************************************************************)
(* "Many devices" is not "every device ever": an account never has more    *)
(* sessions than MAX_DEVICES_PER_USER, however many sign in at once        *)
(* (_retire_beyond_device_limit, under the lock of the account).           *)
(***************************************************************************)
WithinDeviceLimit == \A a \in Accounts : Cardinality(OpenOf(a)) <= MaxDevices

\* Who may find a lock taken by another sign-in, whatever order it takes its
\* rows in.
WaitsForLogin(l) ==
    \E k \in Logins \ {l} :
        \/ login[l].stage = "verified" /\ HoldsUser(k, login[l].account)
        \/ Closes(l) /\ (login[l].closing \ login[l].written) \cap WrittenBy(k) # {}
        \/ login[l].stage = "revoking" /\ HoldsForUpdate(k, login[l].by)

(***************************************************************************)
(* Sign-ins, new passwords and suspensions take an account first and its   *)
(* sessions after, so they never wait for one another in a circle: one of  *)
(* them waits for nobody, or for the change of the policy alone.  (Through *)
(* the change a circle can close, see README; PostgreSQL breaks it off,    *)
(* which is Abort.)                                                        *)
(***************************************************************************)
OnlyTheChangeClosesACircle ==
    \/ \A l \in Logins : login[l] = Idle
    \/ \E l \in Logins : login[l] # Idle /\ ~WaitsForLogin(l)

-----------------------------------------------------------------------------
(* What the documentation says of this code and the code does not do.      *)

(***************************************************************************)
(* set_policy: turning the rule on has to mean something today, not at the *)
(* next login - everybody in this role keeps their newest session and      *)
(* loses the rest.  With nothing in progress, no account has two.          *)
(***************************************************************************)
PolicyHoldsToday ==
    single /\ change = Idle /\ (\A l \in Logins : login[l] = Idle)
        => \A a \in Accounts : Cardinality(OpenOf(a)) <= 1
=============================================================================
