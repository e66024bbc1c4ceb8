----------------------------- MODULE Attendance -----------------------------
(***************************************************************************)
(* Check-in and check-out (services/attendance.py) as the database sees    *)
(* them: each API worker serves one attendance request at a time, a        *)
(* request is one READ COMMITTED transaction whose statements interleave   *)
(* with those of the other workers, and the clock moves between them -     *)
(* the comparison of the face alone may take thirty seconds.               *)
(*                                                                         *)
(* A request goes through the stages                                       *)
(*                                                                         *)
(*   "keycheck"  its key is not one of the member's own events             *)
(*   "locking"   its key is nobody's; it waits for the member's row        *)
(*   "deciding"  it holds the row and reads the member's sessions          *)
(*   "judging"   admitted, the photograph is stored; the place is judged   *)
(*   "matching"  the place is accepted; the face is compared               *)
(*                                                                         *)
(* and ends in a commit or a refusal, which leaves the worker idle.  What  *)
(* the request carries (the place, the position, a reason) is chosen where *)
(* the code first reads it; the answer it gets is named in a comment and   *)
(* kept nowhere, as in the code.                                           *)
(***************************************************************************)
EXTENDS WorkingDay

CONSTANTS
    Members,        \* the people
    Workers,        \* API processes; the handlers are blocking, so one
                    \* request each
    Keys,           \* idempotency keys the clients may send
    Granted,        \* the places each member is assigned to
    Switchable,     \* bound: the places somebody switches off and on
    Distances,      \* distances from the place a phone may report
    Accuracies,     \* GPS accuracies a phone may report
    AllowRadius, WarningRadius, MinimumAccuracy,
    Horizon         \* bound of the model: the clock does not tick past it

ASSUME GrantedAssumption == Granted \in [Members -> SUBSET Locations]
ASSUME SwitchableAssumption == Switchable \subseteq Locations
ASSUME GeofenceAssumption ==
    /\ Distances \subseteq Nat /\ Accuracies \subseteq Nat
    /\ AllowRadius \in Nat /\ WarningRadius \in Nat /\ MinimumAccuracy \in Nat
    /\ 0 < AllowRadius /\ AllowRadius < WarningRadius
ASSUME HorizonAssumption == Horizon \in Nat

VARIABLES
    now,            \* the server's clock
    events,         \* the committed rows of attendance_events
    work,           \* what each worker is doing
    active          \* the places that are switched on

vars == <<now, events, work, active>>

-----------------------------------------------------------------------------
Kinds == {"CHECK_IN", "CHECK_OUT"}
ValidStatuses == {"SUCCESS", "WARNING_CONFIRMED"}
Statuses == ValidStatuses \cup {"BLOCKED", "FAILED"}

\* A row: time is server_time, created is created_at, which PostgreSQL fills
\* with the start of the transaction.
Event ==
    [member : Members, kind : Kinds, status : Statuses, loc : Locations,
     time : Nat, created : Nat, key : Keys]

Idle == [stage |-> "idle"]

EarlyStages == {"keycheck", "locking", "deciding"}
LateStages  == {"judging", "matching"}

EarlyRequest ==
    [stage : EarlyStages, member : Members, kind : Kinds, key : Keys, began : Nat]

\* Once admitted a request also has its place and the status it will be
\* recorded with if the face is the member's.
AdmittedRequest ==
    [stage : LateStages, member : Members, kind : Kinds, key : Keys, began : Nat,
     loc : Locations, status : ValidStatuses]

TypeOK ==
    /\ now \in Nat
    /\ events \in SUBSET Event
    /\ work \in [Workers -> {Idle} \cup EarlyRequest \cup AdmittedRequest]
    /\ active \in SUBSET Locations

Valid == {e \in events : e.status \in ValidStatuses}

KeyUsed(k) == \E e \in events : e.key = k

\* The stages in which a transaction holds its member's row of users.
HoldsRow(w, m) ==
    /\ work[w].stage \in {"deciding"} \cup LateStages
    /\ work[w].member = m

Init ==
    /\ now = 0
    /\ events = {}
    /\ work = [w \in Workers |-> Idle]
    /\ active = Locations

-----------------------------------------------------------------------------
(* Ends of a transaction.                                                  *)

Become(w, request) == work' = [work EXCEPT ![w] = request]

\* Roll back and answer: nothing the request did to the database remains.
Refuse(w) ==
    /\ Become(w, Idle)
    /\ UNCHANGED <<now, events, active>>

\* Mutated form: the table without its unique index.
RecordAnyKey(w, status) ==
    /\ events' = events \cup
         {[member |-> work[w].member, kind |-> work[w].kind, status |-> status,
           loc |-> work[w].loc, time |-> now, created |-> work[w].began,
           key |-> work[w].key]}
    /\ now' = now + 1
    /\ Become(w, Idle)
    /\ UNCHANGED active

\* Insert the row at the present instant and commit.  The key is unique over
\* the whole table: if another transaction has committed it since it was
\* looked up, the insert fails and the request ends in an error.
Record(w, status) ==
    IF KeyUsed(work[w].key)
    THEN Refuse(w)
    ELSE /\ events' = events \cup
              {[member |-> work[w].member, kind |-> work[w].kind, status |-> status,
                loc |-> work[w].loc, time |-> now, created |-> work[w].began,
                key |-> work[w].key]}
         /\ now' = now + 1
         /\ Become(w, Idle)
         /\ UNCHANGED active

-----------------------------------------------------------------------------
(* The beginning of both handlers.                                         *)

\* The first statement opens the transaction, and now() is that instant until
\* it ends.  It looks the key up among the member's own events; one that is
\* there is answered from its row, and nothing changes.
Receive(w, m, kind, k) ==
    /\ work[w] = Idle
    /\ ~\E e \in events : e.key = k /\ e.member = m
    /\ Become(w, [stage |-> "keycheck", member |-> m, kind |-> kind, key |-> k,
                  began |-> now])
    /\ UNCHANGED <<now, events, active>>

\* The second looks it up among everybody's: IDEMPOTENCY_KEY_CONFLICT.
CheckKey(w) ==
    /\ work[w].stage = "keycheck"
    /\ Become(w, IF KeyUsed(work[w].key)
                 THEN Idle ELSE [work[w] EXCEPT !.stage = "locking"])
    /\ UNCHANGED <<now, events, active>>

\* Mutated form: SELECT without FOR UPDATE.
LockMemberUnlocked(w) ==
    /\ work[w].stage = "locking"
    /\ Become(w, [work[w] EXCEPT !.stage = "deciding"])
    /\ UNCHANGED <<now, events, active>>

\* Mutated form: a request that waits for the row keeps the others from it.
LockMemberBehindWaiters(w) ==
    /\ work[w].stage = "locking"
    /\ \A v \in Workers \ {w} :
         ~(work[v].stage \in {"locking"} \cup LateStages /\ work[v].member = work[w].member)
    /\ Become(w, [work[w] EXCEPT !.stage = "deciding"])
    /\ UNCHANGED <<now, events, active>>

\* SELECT ... FOR UPDATE on the member's row.
LockMember(w) ==
    /\ work[w].stage = "locking"
    /\ \A v \in Workers : ~HoldsRow(v, work[w].member)
    /\ Become(w, [work[w] EXCEPT !.stage = "deciding"])
    /\ UNCHANGED <<now, events, active>>

Deciding(w, kind) == work[w].stage = "deciding" /\ work[w].kind = kind

\* Mutated form: the place is not carried on to the row.
AdmitNowhere(w, l, status) ==
    /\ Become(w, [work[w] EXCEPT !.stage = "judging"])
    /\ UNCHANGED <<now, events, active>>

\* The photograph is stored here, whatever the verdict will be; the row written
\* later names it.
Admit(w, l, status) ==
    /\ Become(w, [stage |-> "judging", member |-> work[w].member,
                  kind |-> work[w].kind, key |-> work[w].key,
                  began |-> work[w].began, loc |-> l, status |-> status])
    /\ UNCHANGED <<now, events, active>>

\* Active, and assigned to the member or to a unit of theirs.
LocationForMember(m, l) == l \in active /\ l \in Granted[m]

-----------------------------------------------------------------------------
(* check_in: which session the member is in, then the place.               *)

\* Mutated form: only an open session keeps the member from a new one.
MayCheckInAgain(w, l) ==
    LET m == work[w].member
    IN  /\ OpenState(Valid, m, now) = {}
        /\ LocationForMember(m, l)

\* Mutated form: only the sessions of the day the transaction began on count.
MayCheckInTwice(w, l) ==
    LET m == work[w].member
    IN  /\ OpenState(Valid, m, work[w].began) = {}
        /\ ~CheckedInToday(Valid, m, work[w].began)
        /\ LocationForMember(m, l)

\* Otherwise CHECK_IN_ALREADY_EXISTS, ALREADY_WORKED_TODAY, or the place is
\* not assigned.
MayCheckIn(w, l) ==
    LET m == work[w].member
    IN  /\ OpenState(Valid, m, now) = {}
        /\ ~CheckedInToday(Valid, m, work[w].began)
        /\ LocationForMember(m, l)

DecideCheckIn(w, l) ==
    /\ Deciding(w, "CHECK_IN")
    /\ IF MayCheckIn(w, l) THEN Admit(w, l, "SUCCESS") ELSE Refuse(w)

(* check_out: the session to close, then the place it is closed at - the   *)
(* one it was opened at, or another the member is assigned to, with a      *)
(* reason.                                                                 *)

\* Mutated form: an arrival of today can be departed from more than once.
OpenSessionReopened(w) ==
    {e \in CheckIns(Valid, work[w].member) : SessionIsOpen(e.loc, e.time, now)}

OpenSession(w) == OpenState(Valid, work[w].member, now)

\* ALREADY_CHECKED_OUT, SESSION_EXPIRED or CHECK_OUT_WITHOUT_CHECK_IN.
NothingToClose(w) ==
    /\ Deciding(w, "CHECK_OUT")
    /\ OpenSession(w) = {}
    /\ Refuse(w)

ClosedPlace(w) ==
    /\ Deciding(w, "CHECK_OUT")
    /\ \E open \in OpenSession(w) : open.loc \notin active

\* Checkout location is inactive.
CloseWhereOpened(w) ==
    /\ Deciding(w, "CHECK_OUT")
    /\ \E open \in OpenSession(w) :
         IF ClosedPlace(w) THEN Refuse(w) ELSE Admit(w, open.loc, "SUCCESS")

\* Not assigned, or CHECKOUT_LOCATION_REASON_REQUIRED.
CloseElsewhere(w, l, reasoned) ==
    /\ Deciding(w, "CHECK_OUT")
    /\ \E open \in OpenSession(w) : l # open.loc
    /\ IF LocationForMember(work[w].member, l) /\ reasoned
       THEN Admit(w, l, "WARNING_CONFIRMED") ELSE Refuse(w)

-----------------------------------------------------------------------------
(* Judging the position (domain/geofence.py) and, for an arrival, the hour.*)

EvaluateGeofence(distance, accuracy) ==
    IF accuracy > MinimumAccuracy      THEN "GPS_ACCURACY_LOW"
    ELSE IF distance <= AllowRadius    THEN "ALLOW"
    ELSE IF distance <= WarningRadius  THEN "WARNING_REASON_REQUIRED"
    ELSE "BLOCK"

GeofenceRejects(verdict) == verdict \in {"GPS_ACCURACY_LOW", "BLOCK"}

TooLate(l, t) == Hours[l].enforce /\ BeyondGrace(l, MinutesLate(l, t))

\* A rejected attempt is recorded before it is answered.
JudgeRejected(w, verdict) ==
    /\ work[w].stage = "judging"
    /\ GeofenceRejects(verdict)
    /\ Record(w, "BLOCKED")

\* WARNING_REASON_REQUIRED leaves no record, CHECK_IN_TOO_LATE does.
JudgeCheckIn(w, verdict, reasoned) ==
    /\ work[w].stage = "judging" /\ work[w].kind = "CHECK_IN"
    /\ ~GeofenceRejects(verdict)
    /\ LET warned == verdict = "WARNING_REASON_REQUIRED"
       IN  IF warned /\ ~reasoned
           THEN Refuse(w)
           ELSE IF TooLate(work[w].loc, now)
           THEN Record(w, "BLOCKED")
           ELSE /\ Become(w, [work[w] EXCEPT !.stage = "matching",
                     !.status = IF warned THEN "WARNING_CONFIRMED" ELSE "SUCCESS"])
                /\ UNCHANGED <<now, events, active>>

\* A departure needs no reason for standing inside the outer ring, and no hour
\* is too late for it.
JudgeCheckOut(w, verdict) ==
    /\ work[w].stage = "judging" /\ work[w].kind = "CHECK_OUT"
    /\ ~GeofenceRejects(verdict)
    /\ Become(w, [work[w] EXCEPT !.stage = "matching"])
    /\ UNCHANGED <<now, events, active>>

Judge(w) ==
    \E d \in Distances, a \in Accuracies, reasoned \in BOOLEAN :
        LET verdict == EvaluateGeofence(d, a)
        IN  \/ JudgeRejected(w, verdict)
            \/ JudgeCheckIn(w, verdict, reasoned)
            \/ JudgeCheckOut(w, verdict)

-----------------------------------------------------------------------------
(* Comparing the face.  face-ai is another service: any of its answers.    *)

\* FACE_NOT_ENROLLED, or face-ai is down or not configured.
FaceUnavailable(w) == work[w].stage = "matching" /\ Refuse(w)

FaceRefused(w) == work[w].stage = "matching" /\ Record(w, "FAILED")

FaceVerified(w) == work[w].stage = "matching" /\ Record(w, work[w].status)

-----------------------------------------------------------------------------
\* The process dies, the storage refuses the photograph, or PostgreSQL ends
\* the transaction to break a deadlock: everything is rolled back.
Abort(w) ==
    /\ work[w] # Idle
    /\ Refuse(w)

Tick ==
    /\ now < Horizon
    /\ now' = now + 1
    /\ UNCHANGED <<events, work, active>>

\* A manager switches a place off (remove_location) or on again.
SwitchPlace(l) ==
    /\ active' = IF l \in active THEN active \ {l} ELSE active \cup {l}
    /\ UNCHANGED <<now, events, work>>

Serve(w) ==
    \/ CheckKey(w)
    \/ \E l \in Locations : DecideCheckIn(w, l)
    \/ NothingToClose(w)
    \/ CloseWhereOpened(w)
    \/ \E l \in Locations, reasoned \in BOOLEAN : CloseElsewhere(w, l, reasoned)
    \/ Judge(w)
    \/ FaceUnavailable(w)
    \/ FaceRefused(w)
    \/ FaceVerified(w)

Next ==
    \/ \E w \in Workers :
         \/ \E m \in Members, kind \in Kinds, k \in Keys : Receive(w, m, kind, k)
         \/ LockMember(w)
         \/ Serve(w)
         \/ Abort(w)
    \/ Tick
    \/ \E l \in Switchable : SwitchPlace(l)

Spec == Init /\ [][Next]_vars

-----------------------------------------------------------------------------
(***************************************************************************)
(* The handlers run to their end: every statement, the storage call and    *)
(* the call to face-ai return or time out.  A row lock waits in            *)
(* PostgreSQL's queue, so a request that is again and again the only one   *)
(* waiting gets it.                                                        *)
(***************************************************************************)
Fairness == \A w \in Workers : WF_vars(Serve(w)) /\ SF_vars(LockMember(w))

FairSpec == Spec /\ Fairness

-----------------------------------------------------------------------------
(***************************************************************************)
(* What the service promises is AttendanceBook, read off the valid rows.   *)
(***************************************************************************)
Entries ==
    {[member |-> e.member, kind |-> e.kind, loc |-> e.loc, time |-> e.time] :
        e \in Valid}

Book == INSTANCE AttendanceBook WITH book <- Entries, clock <- now

(***************************************************************************)
(* Every interleaving of the workers, with all its refusals, failures and  *)
(* waits, is a history of the book: an arrival is only ever committed      *)
(* while its member has no session open, a departure only against an       *)
(* arrival of its own, and rejected attempts are never either.             *)
(***************************************************************************)
KeepsBook == Book!BookSpec

(***************************************************************************)
(* A member has at most one session open, however many workers serve that  *)
(* member's requests at once and whichever places, cut at different hours, *)
(* the requests name (_open_state, the row lock of check_in).              *)
(***************************************************************************)
AtMostOneOpen == Book!AtMostOneOpen

(***************************************************************************)
(* No departure is recorded twice for one arrival, or without one (the row *)
(* lock of check_out, the NOT EXISTS of _unclosed_check_in).               *)
(***************************************************************************)
DeparturesFollowArrivals == Book!DeparturesFollowArrivals

(***************************************************************************)
(* ALREADY_WORKED_TODAY: when two arrivals of a member fall on one working *)
(* date of the place of the earlier one, the later one's transaction had   *)
(* begun before that date did - _checked_in_today compares with now(), the *)
(* start of the transaction, and the row is stamped when it is inserted.   *)
(***************************************************************************)
OneSessionPerDay ==
    \A m \in Members : \A i, j \in CheckIns(Valid, m) :
        /\ i.time < j.time
        /\ SessionIsOpen(i.loc, i.time, j.time)
        => WorkDate(i.loc, j.created) < WorkDate(i.loc, j.time)

(***************************************************************************)
(* A double click, or a retry, leaves one record: an idempotency key names *)
(* at most one row of the table.                                           *)
(***************************************************************************)
OneEventPerKey == \A e, f \in events : e.key = f.key => e = f

(***************************************************************************)
(* Every request ends: no wait for the row of a member is for ever.        *)
(***************************************************************************)
RequestsEnd == \A w \in Workers : work[w] # Idle ~> work[w] = Idle

-----------------------------------------------------------------------------
(* What the documentation says of this code and the code does not do.      *)

\* The dates a row of this model can fall on.
Dates == {WorkDate(l, e.time) : l \in Locations, e \in Valid}

(***************************************************************************)
(* attendance_days.py, day_status: a departure with no arrival on its day  *)
(* is something only a correction or a manual edit can produce.            *)
(***************************************************************************)
NoOrphanDeparture ==
    \A m \in Members, d \in Dates : DayStatus(Valid, m, d) # "NO_CHECK_IN"

(***************************************************************************)
(* attendance_days.py: after a check-out the day is done, a second session *)
(* the same day is refused; check_in: a second one would show up as a      *)
(* second working day for the same date.                                   *)
(***************************************************************************)
OneSessionPerDate ==
    \A m \in Members : \A i, j \in CheckIns(Valid, m), o \in CheckOuts(Valid, m) :
        i.time < o.time /\ o.time < j.time
            => WorkDate(i.loc, i.time) # WorkDate(j.loc, j.time)
=============================================================================
