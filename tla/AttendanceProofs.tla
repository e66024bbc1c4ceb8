-------------------------- MODULE AttendanceProofs --------------------------
(***************************************************************************)
(* Attendance, proved for every set of members, workers, keys and places,  *)
(* all working hours, and with no bound on the clock other than Horizon,   *)
(* which may be any number: type correctness, the exclusion the row lock   *)
(* gives, that every step is a step of AttendanceBook, and what follows.   *)
(***************************************************************************)
EXTENDS Attendance, TLAPS

BookProofs == INSTANCE AttendanceBookProofs WITH book <- Entries, clock <- now

-----------------------------------------------------------------------------
(***************************************************************************)
(* The inductive invariant, in named parts.                                *)
(***************************************************************************)

\* What is recorded is past, and its transaction began before it was recorded.
Past == \A e \in events : e.time < now /\ e.created <= e.time

\* A transaction began in the past.
Began == \A w \in Workers : work[w] # Idle => work[w].began <= now

\* Two workers that hold one member's row are the same worker.
RowLock ==
    \A v, w \in Workers : \A m \in Members : HoldsRow(v, m) /\ HoldsRow(w, m) => v = w

\* What was read under the row lock is still so when the row is written: the
\* clock may pass the cut meanwhile, but that only ends sessions.
Admitted(w) ==
    work[w].stage \in LateStages =>
        /\ work[w].kind = "CHECK_IN" =>
              /\ OpenState(Valid, work[w].member, now) = {}
              /\ ~CheckedInToday(Valid, work[w].member, work[w].began)
        /\ work[w].kind = "CHECK_OUT" => Unclosed(Valid, work[w].member) # {}

AllAdmitted == \A w \in Workers : Admitted(w)

LockInv == TypeOK /\ Past /\ Began /\ RowLock /\ AllAdmitted

-----------------------------------------------------------------------------
\* What is proved of the book asks of its constants what Attendance asks.
LEMMA BookAssumptions ==
    BookProofs!DayLengthAssumption /\ BookProofs!HoursAssumption
  BY DayLengthAssumption, HoursAssumption
  DEF BookProofs!DayLengthAssumption, BookProofs!HoursAssumption, HoursOfPlace,
      BookProofs!HoursOfPlace, HoursMatchShift, BookProofs!HoursMatchShift

\* The book reads dates as the service does.
LEMMA DatesNeverGoBack ==
    ASSUME NEW l \in Locations, NEW t \in Int, NEW u \in Int, t <= u
    PROVE  /\ WorkDate(l, t) \in Int
           /\ WorkDate(l, u) \in Int
           /\ WorkDate(l, t) <= WorkDate(l, u)
  BY BookAssumptions, BookProofs!WorkDateMonotone
     DEF WorkDate, ShiftOffset, BookProofs!WorkDate, BookProofs!ShiftOffset

-----------------------------------------------------------------------------
(***************************************************************************)
(* What the readers of the events say as time passes and rows are added.   *)
(***************************************************************************)

LEMMA ValidTyped ==
    ASSUME TypeOK, NEW e \in Valid
    PROVE  /\ e \in events /\ e.member \in Members /\ e.kind \in Kinds
           /\ e.loc \in Locations /\ e.time \in Nat /\ e.created \in Nat
  BY DEF TypeOK, Valid, Event

\* A session that is over stays over.
LEMMA OverStaysOver ==
    ASSUME TypeOK, Past, NEW m \in Members, NEW t \in Nat, now <= t,
           OpenState(Valid, m, now) = {}
    PROVE  OpenState(Valid, m, t) = {}
<1>1. SUFFICES ASSUME NEW e \in OpenState(Valid, m, t)
               PROVE  FALSE
  OBVIOUS
<1>2. e \in UnclosedCheckIn(Valid, m) /\ e \in Valid /\ SessionIsOpen(e.loc, e.time, t)
  BY DEF OpenState, UnclosedCheckIn, Unclosed, CheckIns
<1>3. /\ e.loc \in Locations /\ e.time \in Int /\ now \in Int /\ t \in Int
      /\ e.time <= now
  BY <1>2, ValidTyped DEF TypeOK, Past
<1>4. ~SessionIsOpen(e.loc, e.time, now)
  BY <1>2 DEF OpenState
<1>5. /\ WorkDate(e.loc, e.time) \in Int /\ WorkDate(e.loc, now) \in Int
      /\ WorkDate(e.loc, t) \in Int
      /\ WorkDate(e.loc, e.time) <= WorkDate(e.loc, now)
      /\ WorkDate(e.loc, now) <= WorkDate(e.loc, t)
  BY <1>3, DatesNeverGoBack
<1>. QED
  BY <1>2, <1>4, <1>5 DEF SessionIsOpen

\* The readers see nothing of a member but that member's arrivals and
\* departures.
LEMMA ReadersAgree ==
    ASSUME NEW S, NEW T, NEW m,
           CheckIns(S, m) = CheckIns(T, m), CheckOuts(S, m) = CheckOuts(T, m)
    PROVE  /\ Unclosed(S, m) = Unclosed(T, m)
           /\ \A t : OpenState(S, m, t) = OpenState(T, m, t)
           /\ \A t : CheckedInToday(S, m, t) = CheckedInToday(T, m, t)
<1>1. Unclosed(S, m) = Unclosed(T, m)
  BY DEF Unclosed
<1>2. UnclosedCheckIn(S, m) = UnclosedCheckIn(T, m)
  BY <1>1 DEF UnclosedCheckIn
<1>3. \A t : OpenState(S, m, t) = OpenState(T, m, t)
  BY <1>2 DEF OpenState
<1>4. \A t : CheckedInToday(S, m, t) = CheckedInToday(T, m, t)
  BY DEF CheckedInToday
<1>. QED
  BY <1>1, <1>3, <1>4

\* A request, told from an idle worker by its stage.
LEMMA WorkTyped ==
    ASSUME TypeOK, NEW w \in Workers
    PROVE  /\ work[w].stage \in EarlyStages => work[w] \in EarlyRequest
           /\ work[w].stage \in LateStages => work[w] \in AdmittedRequest
           /\ work[w].stage \in EarlyStages \cup LateStages => work[w] # Idle
  BY DEF TypeOK, Idle, EarlyRequest, AdmittedRequest, EarlyStages, LateStages

-----------------------------------------------------------------------------
(***************************************************************************)
(* The three things a worker does to the state: move its request on, drop  *)
(* it, or record it.                                                       *)
(***************************************************************************)

\* A request moves on; if it comes to hold the row, nobody else holds it.
LEMMA MoveKeepsLockInv ==
    ASSUME LockInv, NEW w \in Workers, NEW r \in EarlyRequest \cup AdmittedRequest,
           Become(w, r), UNCHANGED <<now, events, active>>, r.began <= now,
           r.stage \in {"deciding"} \cup LateStages =>
               \A v \in Workers \ {w} : ~HoldsRow(v, r.member),
           Admitted(w)'
    PROVE  LockInv'
<1>1. TypeOK /\ Past /\ Began /\ RowLock /\ AllAdmitted
  BY DEF LockInv
<1>2. /\ work' \in [Workers -> {Idle} \cup EarlyRequest \cup AdmittedRequest]
      /\ work'[w] = r
      /\ \A v \in Workers \ {w} : work'[v] = work[v]
  BY <1>1 DEF TypeOK, Become
<1>3. TypeOK' /\ Past'
  BY <1>1, <1>2 DEF TypeOK, Past
<1>4. Began'
  BY <1>1, <1>2 DEF Began
<1>5. RowLock'
  BY <1>1, <1>2 DEF RowLock, HoldsRow
<1>6. AllAdmitted'
  BY <1>1, <1>2 DEF AllAdmitted, Admitted, Valid
<1>. QED
  BY <1>3, <1>4, <1>5, <1>6 DEF LockInv

LEMMA RefuseKeepsLockInv ==
    ASSUME LockInv, NEW w \in Workers, Refuse(w)
    PROVE  LockInv'
<1>1. TypeOK /\ Past /\ Began /\ RowLock /\ AllAdmitted
  BY DEF LockInv
<1>2. /\ work' \in [Workers -> {Idle} \cup EarlyRequest \cup AdmittedRequest]
      /\ work'[w] = Idle
      /\ \A v \in Workers \ {w} : work'[v] = work[v]
      /\ UNCHANGED <<now, events, active>>
  BY <1>1 DEF TypeOK, Refuse, Become
<1>3. TypeOK' /\ Past' /\ Began'
  BY <1>1, <1>2 DEF TypeOK, Past, Began
<1>4. RowLock'
  BY <1>1, <1>2 DEF RowLock, HoldsRow, Idle, LateStages
<1>5. AllAdmitted'
  <2>1. work'[w].stage \notin LateStages
    BY <1>2 DEF Idle, LateStages
  <2>2. Valid' = Valid
    BY <1>2 DEF Valid
  <2>3. ASSUME NEW v \in Workers, v # w PROVE Admitted(v)'
    BY <1>1, <1>2, <2>2, <2>3 DEF AllAdmitted, Admitted
  <2>. QED
    BY <2>1, <2>3 DEF AllAdmitted, Admitted
<1>. QED
  BY <1>3, <1>4, <1>5 DEF LockInv

\* Inserting a row, when it is not refused for its key.
LEMMA RecordAdds ==
    ASSUME LockInv, NEW w \in Workers, work[w].stage \in LateStages,
           NEW status \in Statuses, Record(w, status), ~KeyUsed(work[w].key)
    PROVE  /\ now' = now + 1 /\ active' = active
           /\ work' \in [Workers -> {Idle} \cup EarlyRequest \cup AdmittedRequest]
           /\ work'[w] = Idle
           /\ \A v \in Workers \ {w} : work'[v] = work[v]
           /\ \E e \in Event :
                /\ events' = events \cup {e}
                /\ e.member = work[w].member /\ e.kind = work[w].kind
                /\ e.status = status /\ e.loc = work[w].loc
                /\ e.time = now /\ e.created = work[w].began
                /\ e.key = work[w].key
                /\ Valid' = Valid \cup (IF status \in ValidStatuses THEN {e} ELSE {})
<1> DEFINE e == [member |-> work[w].member, kind |-> work[w].kind, status |-> status,
                 loc |-> work[w].loc, time |-> now, created |-> work[w].began,
                 key |-> work[w].key]
<1>1. TypeOK /\ Began
  BY DEF LockInv
<1>2. work[w] \in AdmittedRequest
  BY <1>1, WorkTyped
<1>3. e \in Event
  BY <1>1, <1>2 DEF AdmittedRequest, Event, TypeOK
<1>4. /\ events' = events \cup {e}
      /\ now' = now + 1 /\ active' = active
      /\ work' = [work EXCEPT ![w] = Idle]
  BY DEF Record, Become
<1>5. /\ work' \in [Workers -> {Idle} \cup EarlyRequest \cup AdmittedRequest]
      /\ work'[w] = Idle
      /\ \A v \in Workers \ {w} : work'[v] = work[v]
  BY <1>1, <1>4 DEF TypeOK
<1>6. Valid' = Valid \cup (IF status \in ValidStatuses THEN {e} ELSE {})
  BY <1>4 DEF Valid
<1>. QED
  BY <1>3, <1>4, <1>5, <1>6

LEMMA RecordKeepsLockInv ==
    ASSUME LockInv, NEW w \in Workers, work[w].stage \in LateStages,
           NEW status \in Statuses, Record(w, status)
    PROVE  LockInv'
<1>1. CASE KeyUsed(work[w].key)
  BY <1>1, RefuseKeepsLockInv DEF Record
<1>2. CASE ~KeyUsed(work[w].key)
  <2>1. TypeOK /\ Past /\ Began /\ RowLock /\ AllAdmitted
    BY DEF LockInv
  <2>2. work[w] \in AdmittedRequest /\ work[w].began <= now /\ work[w].member \in Members
    BY <2>1, WorkTyped DEF Began, AdmittedRequest
  <2>3. PICK e \in Event :
          /\ events' = events \cup {e}
          /\ e.member = work[w].member /\ e.time = now /\ e.created = work[w].began
          /\ Valid' = Valid \cup (IF status \in ValidStatuses THEN {e} ELSE {})
    BY <1>2, RecordAdds
  <2>4. /\ now' = now + 1 /\ active' = active
        /\ work' \in [Workers -> {Idle} \cup EarlyRequest \cup AdmittedRequest]
        /\ work'[w] = Idle
        /\ \A v \in Workers \ {w} : work'[v] = work[v]
    BY <1>2, RecordAdds
  <2>5. TypeOK'
    BY <2>1, <2>3, <2>4 DEF TypeOK
  <2>6. Past'
    BY <2>1, <2>2, <2>3, <2>4 DEF Past, TypeOK, Event
  <2>7. Began'
    BY <2>1, <2>4 DEF Began, TypeOK, Idle, EarlyRequest, AdmittedRequest
  <2>8. RowLock'
    BY <2>1, <2>4 DEF RowLock, HoldsRow, Idle, LateStages
  <2>9. ASSUME NEW v \in Workers, work'[v].stage \in LateStages
        PROVE  Admitted(v)'
    <3>1. v # w /\ work'[v] = work[v]
      BY <2>4, <2>9 DEF Idle, LateStages
    <3>2. work[v] \in AdmittedRequest
      BY <2>1, <2>9, <3>1, WorkTyped
    <3> DEFINE m == work[v].member
    <3>3. m \in Members /\ m # work[w].member
      BY <2>1, <2>2, <2>9, <3>1, <3>2 DEF RowLock, HoldsRow, AdmittedRequest
    <3>4. /\ CheckIns(Valid', m) = CheckIns(Valid, m)
          /\ CheckOuts(Valid', m) = CheckOuts(Valid, m)
      <4>1. PICK T \in SUBSET {e} : Valid' = Valid \cup T
        BY <2>3
      <4>2. e.member # m
        BY <2>3, <3>3
      <4> HIDE DEF m
      <4>. QED
        BY <4>1, <4>2 DEF CheckIns, CheckOuts
    <3>5. /\ Unclosed(Valid', m) = Unclosed(Valid, m)
          /\ \A t : OpenState(Valid', m, t) = OpenState(Valid, m, t)
          /\ \A t : CheckedInToday(Valid', m, t) = CheckedInToday(Valid, m, t)
      BY <3>4, ReadersAgree
    <3>6. OpenState(Valid, m, now) = {} => OpenState(Valid, m, now') = {}
      BY <2>1, <2>4, <3>3, OverStaysOver DEF TypeOK
    <3>7. Admitted(v)
      BY <2>1 DEF AllAdmitted
    <3>. QED
      BY <2>9, <3>1, <3>5, <3>6, <3>7 DEF Admitted
  <2>10. AllAdmitted'
    BY <2>9 DEF AllAdmitted, Admitted
  <2>. QED
    BY <2>5, <2>6, <2>7, <2>8, <2>10 DEF LockInv
<1>. QED
  BY <1>1, <1>2

-----------------------------------------------------------------------------
(***************************************************************************)
(* The actions, one by one.                                                *)
(***************************************************************************)

LEMMA ReceiveKeepsLockInv ==
    ASSUME LockInv, NEW w \in Workers, NEW m \in Members, NEW kind \in Kinds,
           NEW k \in Keys, Receive(w, m, kind, k)
    PROVE  LockInv'
<1> DEFINE r == [stage |-> "keycheck", member |-> m, kind |-> kind, key |-> k,
                 began |-> now]
<1>1. TypeOK
  BY DEF LockInv
<1>2. /\ r \in EarlyRequest /\ r.began <= now
      /\ r.stage \notin {"deciding"} \cup LateStages
  BY <1>1 DEF EarlyRequest, EarlyStages, LateStages, TypeOK
<1>3. Become(w, r) /\ UNCHANGED <<now, events, active>>
  BY DEF Receive
<1>4. Admitted(w)'
  BY <1>1, <1>3 DEF Become, TypeOK, Admitted, LateStages
<1> HIDE DEF r
<1>. QED
  BY <1>2, <1>3, <1>4, MoveKeepsLockInv

\* A request that has not been admitted moves to another early stage.
LEMMA EarlyMoveKeepsLockInv ==
    ASSUME LockInv, NEW w \in Workers, work[w].stage \in EarlyStages,
           NEW s \in EarlyStages, Become(w, [work[w] EXCEPT !.stage = s]),
           UNCHANGED <<now, events, active>>,
           s = "deciding" => \A v \in Workers : ~HoldsRow(v, work[w].member)
    PROVE  LockInv'
<1> DEFINE r == [work[w] EXCEPT !.stage = s]
<1>1. TypeOK /\ Began
  BY DEF LockInv
<1>2. work[w] \in EarlyRequest /\ work[w].began <= now
  BY <1>1, WorkTyped DEF Began
<1>3. /\ r \in EarlyRequest /\ r.began <= now /\ r.member = work[w].member
      /\ r.stage = s /\ s \notin LateStages
  BY <1>2 DEF EarlyRequest, EarlyStages, LateStages
<1>4. Admitted(w)'
  BY <1>1, <1>3 DEF Become, TypeOK, Admitted
<1> HIDE DEF r
<1>5. Become(w, r)
  BY DEF r
<1>. QED
  BY <1>3, <1>4, <1>5, MoveKeepsLockInv

LEMMA CheckKeyKeepsLockInv ==
    ASSUME LockInv, NEW w \in Workers, CheckKey(w)
    PROVE  LockInv'
<1>1. CASE KeyUsed(work[w].key)
  <2>1. Refuse(w)
    BY <1>1 DEF CheckKey, Refuse
  <2>. QED
    BY <2>1, RefuseKeepsLockInv
<1>2. CASE ~KeyUsed(work[w].key)
  BY <1>2, EarlyMoveKeepsLockInv DEF CheckKey, EarlyStages
<1>. QED
  BY <1>1, <1>2

LEMMA LockMemberKeepsLockInv ==
    ASSUME LockInv, NEW w \in Workers, LockMember(w)
    PROVE  LockInv'
  BY EarlyMoveKeepsLockInv DEF LockMember, EarlyStages

\* A request is admitted for what its kind demands.
LEMMA AdmitKeepsLockInv ==
    ASSUME LockInv, NEW w \in Workers, NEW l \in Locations,
           NEW status \in ValidStatuses,
           work[w].stage = "deciding", Admit(w, l, status),
           work[w].kind = "CHECK_IN" =>
               /\ OpenState(Valid, work[w].member, now) = {}
               /\ ~CheckedInToday(Valid, work[w].member, work[w].began),
           work[w].kind = "CHECK_OUT" => Unclosed(Valid, work[w].member) # {}
    PROVE  LockInv'
<1> DEFINE r == [stage |-> "judging", member |-> work[w].member,
                 kind |-> work[w].kind, key |-> work[w].key,
                 began |-> work[w].began, loc |-> l, status |-> status]
<1>1. TypeOK /\ Began /\ RowLock
  BY DEF LockInv
<1>2. /\ work[w] \in EarlyRequest /\ work[w].began <= now
      /\ work[w].member \in Members
  BY <1>1, WorkTyped DEF Began, EarlyStages, EarlyRequest
<1>3. /\ r \in AdmittedRequest /\ r.began = work[w].began
      /\ r.member = work[w].member /\ r.kind = work[w].kind
  BY <1>2 DEF EarlyRequest, AdmittedRequest, LateStages
<1>4. \A v \in Workers \ {w} : ~HoldsRow(v, work[w].member)
  BY <1>1, <1>2 DEF RowLock, HoldsRow
<1> HIDE DEF r
<1>5. Become(w, r) /\ UNCHANGED <<now, events, active>>
  BY DEF Admit, r
<1>6. work'[w] = r /\ Valid' = Valid /\ now' = now
  BY <1>1, <1>5 DEF Become, TypeOK, Valid
<1>7. Admitted(w)'
  BY <1>3, <1>6 DEF Admitted
<1>. QED
  BY <1>2, <1>3, <1>4, <1>5, <1>7, MoveKeepsLockInv

LEMMA DecideCheckInKeepsLockInv ==
    ASSUME LockInv, NEW w \in Workers, NEW l \in Locations, DecideCheckIn(w, l)
    PROVE  LockInv'
<1>1. CASE MayCheckIn(w, l)
  <2>1. /\ work[w].stage = "deciding" /\ work[w].kind = "CHECK_IN"
        /\ Admit(w, l, "SUCCESS")
    BY <1>1 DEF DecideCheckIn, Deciding
  <2>2. /\ OpenState(Valid, work[w].member, now) = {}
        /\ ~CheckedInToday(Valid, work[w].member, work[w].began)
    BY <1>1 DEF MayCheckIn
  <2>. QED
    BY <2>1, <2>2, AdmitKeepsLockInv DEF ValidStatuses
<1>2. CASE ~MayCheckIn(w, l)
  BY <1>2, RefuseKeepsLockInv DEF DecideCheckIn
<1>. QED
  BY <1>1, <1>2

\* An open session is one that nobody has closed.
LEMMA OpenIsUnclosed ==
    ASSUME TypeOK, NEW w \in Workers, NEW open \in OpenSession(w)
    PROVE  /\ Unclosed(Valid, work[w].member) # {}
           /\ open.loc \in Locations
<1>1. open \in Unclosed(Valid, work[w].member)
  BY DEF OpenSession, OpenState, UnclosedCheckIn
<1>2. open \in Valid
  BY <1>1 DEF Unclosed, CheckIns
<1>. QED
  BY <1>1, <1>2, ValidTyped

LEMMA CloseWhereOpenedKeepsLockInv ==
    ASSUME LockInv, NEW w \in Workers, CloseWhereOpened(w)
    PROVE  LockInv'
<1>1. TypeOK /\ work[w].stage = "deciding" /\ work[w].kind = "CHECK_OUT"
  BY DEF LockInv, CloseWhereOpened, Deciding
<1>2. CASE Refuse(w)
  BY <1>2, RefuseKeepsLockInv
<1>3. CASE ~Refuse(w)
  <2>1. PICK open \in OpenSession(w) : Admit(w, open.loc, "SUCCESS")
    BY <1>3 DEF CloseWhereOpened
  <2>2. Unclosed(Valid, work[w].member) # {} /\ open.loc \in Locations
    BY <1>1, OpenIsUnclosed
  <2>. QED
    BY <1>1, <2>1, <2>2, AdmitKeepsLockInv DEF ValidStatuses
<1>. QED
  BY <1>2, <1>3

LEMMA CloseElsewhereKeepsLockInv ==
    ASSUME LockInv, NEW w \in Workers, NEW l \in Locations,
           NEW reasoned \in BOOLEAN, CloseElsewhere(w, l, reasoned)
    PROVE  LockInv'
<1>1. TypeOK /\ work[w].stage = "deciding" /\ work[w].kind = "CHECK_OUT"
  BY DEF LockInv, CloseElsewhere, Deciding
<1>2. CASE Refuse(w)
  BY <1>2, RefuseKeepsLockInv
<1>3. CASE ~Refuse(w)
  <2>1. Admit(w, l, "WARNING_CONFIRMED")
    BY <1>3 DEF CloseElsewhere
  <2>2. Unclosed(Valid, work[w].member) # {}
    BY <1>1, OpenIsUnclosed DEF CloseElsewhere
  <2>. QED
    BY <1>1, <2>1, <2>2, AdmitKeepsLockInv DEF ValidStatuses
<1>. QED
  BY <1>2, <1>3

\* The place is accepted and the request goes on to the face.
LEMMA MatchKeepsLockInv ==
    ASSUME LockInv, NEW w \in Workers, work[w].stage = "judging",
           NEW status \in ValidStatuses,
           Become(w, [work[w] EXCEPT !.stage = "matching", !.status = status]),
           UNCHANGED <<now, events, active>>
    PROVE  LockInv'
<1> DEFINE r == [work[w] EXCEPT !.stage = "matching", !.status = status]
<1>1. TypeOK /\ Began /\ RowLock /\ Admitted(w)
  BY DEF LockInv, AllAdmitted
<1>2. /\ work[w] \in AdmittedRequest /\ work[w].began <= now
      /\ work[w].member \in Members
  BY <1>1, WorkTyped DEF Began, LateStages, AdmittedRequest
<1>3. /\ r \in AdmittedRequest /\ r.began = work[w].began
      /\ r.member = work[w].member /\ r.kind = work[w].kind
  BY <1>2 DEF AdmittedRequest, LateStages
<1>4. \A v \in Workers \ {w} : ~HoldsRow(v, work[w].member)
  BY <1>1, <1>2 DEF RowLock, HoldsRow, LateStages
<1> HIDE DEF r
<1>5. Become(w, r)
  BY DEF r
<1>6. work'[w] = r /\ Valid' = Valid /\ now' = now
  BY <1>1, <1>5 DEF Become, TypeOK, Valid
<1>7. Admitted(w)'
  BY <1>1, <1>3, <1>6 DEF Admitted, LateStages
<1>. QED
  BY <1>2, <1>3, <1>4, <1>5, <1>7, MoveKeepsLockInv

LEMMA JudgeKeepsLockInv ==
    ASSUME LockInv, NEW w \in Workers, Judge(w)
    PROVE  LockInv'
<1>1. work[w].stage = "judging" /\ work[w].stage \in LateStages
  BY DEF Judge, JudgeRejected, JudgeCheckIn, JudgeCheckOut, LateStages
<1>2. work[w] \in AdmittedRequest
  BY <1>1, WorkTyped DEF LockInv
<1>3. PICK d \in Distances, a \in Accuracies, reasoned \in BOOLEAN :
        \/ JudgeRejected(w, EvaluateGeofence(d, a))
        \/ JudgeCheckIn(w, EvaluateGeofence(d, a), reasoned)
        \/ JudgeCheckOut(w, EvaluateGeofence(d, a))
  BY DEF Judge
<1> DEFINE verdict == EvaluateGeofence(d, a)
<1>4. CASE JudgeRejected(w, verdict)
  BY <1>1, <1>4, RecordKeepsLockInv DEF JudgeRejected, Statuses
<1>5. CASE JudgeCheckIn(w, verdict, reasoned)
  <2>1. \/ Refuse(w)
        \/ Record(w, "BLOCKED")
        \/ \E status \in ValidStatuses :
             /\ Become(w, [work[w] EXCEPT !.stage = "matching", !.status = status])
             /\ UNCHANGED <<now, events, active>>
    BY <1>5 DEF JudgeCheckIn, ValidStatuses
  <2>. QED
    BY <1>1, <2>1, RefuseKeepsLockInv, RecordKeepsLockInv, MatchKeepsLockInv DEF Statuses
<1>6. CASE JudgeCheckOut(w, verdict)
  <2>1. work[w].status \in ValidStatuses
    BY <1>2 DEF AdmittedRequest
  <2>2. [work[w] EXCEPT !.stage = "matching"]
          = [work[w] EXCEPT !.stage = "matching", !.status = work[w].status]
    BY <1>2 DEF AdmittedRequest
  <2>. QED
    BY <1>1, <1>6, <2>1, <2>2, MatchKeepsLockInv DEF JudgeCheckOut
<1>. QED
  BY <1>3, <1>4, <1>5, <1>6

\* FaceRefused and FaceVerified: a row of either kind of status.
LEMMA MatchedRecords ==
    ASSUME LockInv, NEW w \in Workers, FaceRefused(w) \/ FaceVerified(w)
    PROVE  \E status \in Statuses : work[w].stage \in LateStages /\ Record(w, status)
<1>1. work[w].stage \in LateStages
  BY DEF FaceRefused, FaceVerified, LateStages
<1>2. work[w].status \in Statuses
  BY <1>1, WorkTyped DEF LockInv, AdmittedRequest, Statuses
<1>. QED
  BY <1>1, <1>2 DEF FaceRefused, FaceVerified, Statuses

LEMMA ServeKeepsLockInv ==
    ASSUME LockInv, NEW w \in Workers, Serve(w)
    PROVE  LockInv'
<1>1. CASE CheckKey(w)
  BY <1>1, CheckKeyKeepsLockInv
<1>2. CASE \E l \in Locations : DecideCheckIn(w, l)
  BY <1>2, DecideCheckInKeepsLockInv
<1>3. CASE NothingToClose(w) \/ FaceUnavailable(w)
  BY <1>3, RefuseKeepsLockInv DEF NothingToClose, FaceUnavailable
<1>4. CASE CloseWhereOpened(w)
  BY <1>4, CloseWhereOpenedKeepsLockInv
<1>5. CASE \E l \in Locations, reasoned \in BOOLEAN : CloseElsewhere(w, l, reasoned)
  BY <1>5, CloseElsewhereKeepsLockInv
<1>6. CASE Judge(w)
  BY <1>6, JudgeKeepsLockInv
<1>7. CASE FaceRefused(w) \/ FaceVerified(w)
  BY <1>7, MatchedRecords, RecordKeepsLockInv
<1>. QED
  BY <1>1, <1>2, <1>3, <1>4, <1>5, <1>6, <1>7 DEF Serve

LEMMA TickKeepsLockInv ==
    ASSUME LockInv, Tick
    PROVE  LockInv'
<1>1. TypeOK /\ Past /\ Began /\ RowLock /\ AllAdmitted
  BY DEF LockInv
<1>2. now' = now + 1 /\ UNCHANGED <<events, work, active>> /\ Valid' = Valid
  BY DEF Tick, Valid
<1>3. TypeOK' /\ RowLock'
  BY <1>1, <1>2 DEF TypeOK, RowLock, HoldsRow
<1>4. Past'
  BY <1>1, <1>2 DEF Past, TypeOK, Event
<1>5. Began'
  BY <1>1, <1>2 DEF Began, TypeOK, Idle, EarlyRequest, AdmittedRequest
<1>6. ASSUME NEW w \in Workers, work[w].stage \in LateStages
      PROVE  Admitted(w)'
  <2>1. work[w].member \in Members
    BY <1>1, <1>6, WorkTyped DEF AdmittedRequest
  <2>2. OpenState(Valid, work[w].member, now) = {}
          => OpenState(Valid, work[w].member, now') = {}
    BY <1>1, <1>2, <2>1, OverStaysOver DEF TypeOK
  <2>. QED
    BY <1>1, <1>2, <1>6, <2>2 DEF AllAdmitted, Admitted
<1>7. AllAdmitted'
  BY <1>2, <1>6 DEF AllAdmitted, Admitted
<1>. QED
  BY <1>3, <1>4, <1>5, <1>7 DEF LockInv

\* Nothing of the invariant is about which places are on.
LEMMA SwitchingKeepsLockInv ==
    ASSUME LockInv, UNCHANGED <<now, events, work>>, active' \in SUBSET Locations
    PROVE  LockInv'
  BY DEF LockInv, TypeOK, Past, Began, RowLock, HoldsRow, AllAdmitted, Admitted, Valid

LEMMA NextKeepsLockInv ==
    ASSUME LockInv, [Next]_vars
    PROVE  LockInv'
<1>1. CASE \E w \in Workers, m \in Members, kind \in Kinds, k \in Keys :
             Receive(w, m, kind, k)
  BY <1>1, ReceiveKeepsLockInv
<1>2. CASE \E w \in Workers : LockMember(w)
  BY <1>2, LockMemberKeepsLockInv
<1>3. CASE \E w \in Workers : Serve(w)
  BY <1>3, ServeKeepsLockInv
<1>4. CASE \E w \in Workers : Abort(w)
  BY <1>4, RefuseKeepsLockInv DEF Abort
<1>5. CASE Tick
  BY <1>5, TickKeepsLockInv
<1>6. CASE \E l \in Switchable : SwitchPlace(l)
  BY <1>6, SwitchingKeepsLockInv, SwitchableAssumption DEF SwitchPlace, LockInv, TypeOK
<1>7. CASE UNCHANGED vars
  BY <1>7, SwitchingKeepsLockInv DEF vars, LockInv, TypeOK
<1>. QED
  BY <1>1, <1>2, <1>3, <1>4, <1>5, <1>6, <1>7 DEF Next

LEMMA InitKeepsLockInv == Init => LockInv
<1>. SUFFICES ASSUME Init PROVE LockInv
  OBVIOUS
<1>1. TypeOK /\ Past /\ Began
  BY DEF Init, TypeOK, Past, Began
<1>2. \A w \in Workers : work[w].stage = "idle"
  BY DEF Init, Idle
<1>3. RowLock /\ AllAdmitted
  BY <1>2 DEF RowLock, HoldsRow, AllAdmitted, Admitted, LateStages
<1>. QED
  BY <1>1, <1>3 DEF LockInv

(***************************************************************************)
(* The inductive invariant holds: what was read under the row lock is      *)
(* still so when the row is written.                                       *)
(***************************************************************************)
THEOREM KeepsLockInv == Spec => []LockInv
<1>1. LockInv /\ [Next]_vars => LockInv'
  BY NextKeepsLockInv
<1>. QED
  BY <1>1, InitKeepsLockInv, PTL DEF Spec

\* Type correctness of the attendance service.
THEOREM TypeCorrect == Spec => []TypeOK
<1>1. LockInv => TypeOK
  BY DEF LockInv
<1>. QED
  BY <1>1, KeepsLockInv, PTL

-----------------------------------------------------------------------------
(***************************************************************************)
(* A step leaves the rows alone, or records one admitted request.          *)
(***************************************************************************)
Recorded(w, status) ==
    /\ work[w].stage \in LateStages
    /\ ~KeyUsed(work[w].key)
    /\ Record(w, status)

LEMMA JudgeCases ==
    ASSUME LockInv, NEW w \in Workers, Judge(w)
    PROVE  \/ UNCHANGED <<now, events>>
           \/ \E status \in Statuses : work[w].stage \in LateStages /\ Record(w, status)
  BY DEF Judge, JudgeRejected, JudgeCheckIn, JudgeCheckOut, Refuse, LateStages, Statuses

LEMMA ServeCases ==
    ASSUME LockInv, NEW w \in Workers, Serve(w)
    PROVE  \/ UNCHANGED <<now, events>>
           \/ \E status \in Statuses : work[w].stage \in LateStages /\ Record(w, status)
<1>1. CASE FaceRefused(w) \/ FaceVerified(w)
  BY <1>1, MatchedRecords
<1>2. CASE Judge(w)
  BY <1>2, JudgeCases
<1>3. CASE ~(Judge(w) \/ FaceRefused(w) \/ FaceVerified(w))
  BY <1>3 DEF Serve, CheckKey, DecideCheckIn, NothingToClose, CloseWhereOpened,
              CloseElsewhere, Admit, FaceUnavailable, Refuse
<1>. QED
  BY <1>1, <1>2, <1>3

LEMMA StepCases ==
    ASSUME LockInv, [Next]_vars
    PROVE  \/ UNCHANGED <<now, events>>
           \/ Tick
           \/ \E w \in Workers, status \in Statuses : Recorded(w, status)
<1>1. ASSUME NEW w \in Workers, NEW status \in Statuses,
             work[w].stage \in LateStages, Record(w, status)
      PROVE  UNCHANGED <<now, events>> \/ Recorded(w, status)
  BY <1>1 DEF Record, Recorded, Refuse
<1>2. CASE \E w \in Workers : Serve(w)
  BY <1>1, <1>2, ServeCases
<1>3. CASE ~(\E w \in Workers : Serve(w)) /\ Next
  BY <1>3 DEF Next, Receive, LockMember, Abort, Refuse, SwitchPlace
<1>4. CASE UNCHANGED vars
  BY <1>4 DEF vars
<1>. QED
  BY <1>2, <1>3, <1>4

-----------------------------------------------------------------------------
(***************************************************************************)
(* A key names at most one row: the insert of a key that has been recorded *)
(* since it was looked up fails.                                           *)
(***************************************************************************)
THEOREM KeysAreUnique == Spec => []OneEventPerKey
<1>1. Init => OneEventPerKey
  BY DEF Init, OneEventPerKey
<1>2. ASSUME LockInv, OneEventPerKey, [Next]_vars
      PROVE  OneEventPerKey'
  <2>1. CASE UNCHANGED <<now, events>> \/ Tick
    BY <1>2, <2>1 DEF OneEventPerKey, Tick
  <2>2. CASE \E w \in Workers, status \in Statuses : Recorded(w, status)
    <3>1. PICK w \in Workers, status \in Statuses : Recorded(w, status)
      BY <2>2
    <3>2. PICK e \in Event : events' = events \cup {e} /\ e.key = work[w].key
      BY <1>2, <3>1, RecordAdds DEF Recorded
    <3>. QED
      BY <1>2, <3>1, <3>2 DEF OneEventPerKey, Recorded, KeyUsed
  <2>. QED
    BY <1>2, <2>1, <2>2, StepCases
<1>3. LockInv /\ OneEventPerKey /\ [Next]_vars => OneEventPerKey'
  BY <1>2
<1>. QED
  BY <1>1, <1>3, KeepsLockInv, PTL DEF Spec

(***************************************************************************)
(* Two arrivals of a member on one working date: only when the later one's *)
(* transaction began before that date.                                     *)
(***************************************************************************)
THEOREM OneSessionADay == Spec => []OneSessionPerDay
<1>1. Init => OneSessionPerDay
  BY DEF Init, OneSessionPerDay, CheckIns, Valid
<1>2. ASSUME LockInv, OneSessionPerDay, [Next]_vars
      PROVE  OneSessionPerDay'
  <2>1. CASE UNCHANGED <<now, events>> \/ Tick
    <3>1. Valid' = Valid
      BY <2>1 DEF Tick, Valid
    <3>. QED
      BY <1>2, <3>1 DEF OneSessionPerDay
  <2>2. CASE \E w \in Workers, status \in Statuses : Recorded(w, status)
    <3>1. PICK w \in Workers, status \in Statuses : Recorded(w, status)
      BY <2>2
    <3>2. PICK e \in Event :
            /\ e.member = work[w].member /\ e.kind = work[w].kind
            /\ e.time = now /\ e.created = work[w].began
            /\ Valid' = Valid \cup (IF status \in ValidStatuses THEN {e} ELSE {})
      BY <1>2, <3>1, RecordAdds DEF Recorded
    <3>3. /\ TypeOK /\ Past /\ Admitted(w) /\ work[w].began <= now
          /\ work[w] \in AdmittedRequest
      BY <1>2, <3>1, WorkTyped DEF LockInv, AllAdmitted, Recorded, Began
    <3>4. SUFFICES ASSUME NEW m \in Members,
                          NEW i \in CheckIns(Valid', m), NEW j \in CheckIns(Valid', m),
                          i.time < j.time, SessionIsOpen(i.loc, i.time, j.time)
                   PROVE  WorkDate(i.loc, j.created) < WorkDate(i.loc, j.time)
      BY DEF OneSessionPerDay
    <3>5. CASE j \in Valid
      <4>1. j.time < now
        BY <3>3, <3>5 DEF Past, Valid
      <4>2. i \in CheckIns(Valid, m) /\ j \in CheckIns(Valid, m)
        BY <3>2, <3>3, <3>4, <3>5, <4>1, ValidTyped DEF CheckIns, TypeOK
      <4>. QED
        BY <1>2, <3>4, <4>2 DEF OneSessionPerDay
    <3>6. CASE j \notin Valid
      <4>1. j = e /\ work[w].member = m /\ work[w].kind = "CHECK_IN"
        BY <3>2, <3>4, <3>6 DEF CheckIns
      <4>2. i \in CheckIns(Valid, m)
        BY <3>2, <3>3, <3>4, <4>1 DEF CheckIns, TypeOK
      <4>3. ~SessionIsOpen(i.loc, i.time, work[w].began)
        BY <3>1, <3>3, <4>1, <4>2 DEF Admitted, CheckedInToday, Recorded
      <4>4. /\ i.loc \in Locations /\ work[w].began \in Int /\ now \in Int
        BY <3>3, <4>2, ValidTyped DEF CheckIns, AdmittedRequest, TypeOK
      <4>5. /\ WorkDate(i.loc, work[w].began) \in Int /\ WorkDate(i.loc, now) \in Int
            /\ WorkDate(i.loc, work[w].began) <= WorkDate(i.loc, now)
        BY <3>3, <4>4, DatesNeverGoBack
      <4>. QED
        BY <3>2, <3>4, <4>1, <4>3, <4>5 DEF SessionIsOpen
    <3>. QED
      BY <3>5, <3>6
  <2>. QED
    BY <1>2, <2>1, <2>2, StepCases
<1>3. LockInv /\ OneSessionPerDay /\ [Next]_vars => OneSessionPerDay'
  BY <1>2
<1>. QED
  BY <1>1, <1>3, KeepsLockInv, PTL DEF Spec

-----------------------------------------------------------------------------
(***************************************************************************)
(* The detailed specification implements the book.                         *)
(***************************************************************************)

\* The entry a valid row is read as.
EntryOf(e) == [member |-> e.member, kind |-> e.kind, loc |-> e.loc, time |-> e.time]

\* The readers of the book find the entries of what the readers of the rows
\* find.
LEMMA ReadersOfBook ==
    ASSUME TypeOK, NEW m \in Members
    PROVE  /\ \A e \in Unclosed(Valid, m) : EntryOf(e) \in Book!Unclosed(Entries, m)
           /\ \A t : OpenState(Valid, m, t) = {} => Book!OpenState(Entries, m, t) = {}
<1>1. Entries = {EntryOf(e) : e \in Valid}
  BY DEF Entries, EntryOf
<1>2. \A e : /\ EntryOf(e).member = e.member /\ EntryOf(e).kind = e.kind
             /\ EntryOf(e).loc = e.loc /\ EntryOf(e).time = e.time
  BY DEF EntryOf
<1>3. /\ \A p \in Book!CheckIns(Entries, m) :
            \E e \in CheckIns(Valid, m) : p = EntryOf(e)
      /\ \A e \in CheckIns(Valid, m) : EntryOf(e) \in Book!CheckIns(Entries, m)
  BY <1>1, <1>2 DEF CheckIns, Book!CheckIns
<1>4. /\ \A p \in Book!CheckOuts(Entries, m) :
            \E e \in CheckOuts(Valid, m) : p = EntryOf(e)
      /\ \A e \in CheckOuts(Valid, m) : EntryOf(e) \in Book!CheckOuts(Entries, m)
  BY <1>1, <1>2 DEF CheckOuts, Book!CheckOuts
<1> HIDE DEF EntryOf
<1>5. \A e \in Unclosed(Valid, m) : EntryOf(e) \in Book!Unclosed(Entries, m)
  BY <1>2, <1>3, <1>4 DEF Unclosed, Book!Unclosed
<1>6. \A p \in Book!Unclosed(Entries, m) : \E e \in Unclosed(Valid, m) : p = EntryOf(e)
  BY <1>2, <1>3, <1>4 DEF Unclosed, Book!Unclosed
<1>7. \A p \in Book!UnclosedCheckIn(Entries, m) :
          \E e \in UnclosedCheckIn(Valid, m) : p = EntryOf(e)
  BY <1>2, <1>5, <1>6 DEF UnclosedCheckIn, Book!UnclosedCheckIn
<1>8. \A l, t, u : Book!SessionIsOpen(l, t, u) <=> SessionIsOpen(l, t, u)
  BY DEF SessionIsOpen, Book!SessionIsOpen, WorkDate, Book!WorkDate,
         ShiftOffset, Book!ShiftOffset
<1>9. ASSUME NEW t, NEW p \in Book!OpenState(Entries, m, t)
      PROVE  OpenState(Valid, m, t) # {}
  BY <1>2, <1>7, <1>8, <1>9 DEF OpenState, Book!OpenState
<1>. QED
  BY <1>5, <1>9

LEMMA StepKeepsBook ==
    ASSUME LockInv, [Next]_vars
    PROVE  [Book!BookNext]_Book!bookVars
<1>1. CASE UNCHANGED <<now, events>>
  BY <1>1 DEF Book!bookVars, Entries, Valid
<1>2. CASE Tick
  BY <1>2 DEF Tick, Book!BookNext, Book!PassTime, Entries, Valid
<1>3. CASE \E w \in Workers, status \in Statuses : Recorded(w, status)
  <2>1. PICK w \in Workers, status \in Statuses : Recorded(w, status)
    BY <1>3
  <2>2. PICK e \in Event :
          /\ e.member = work[w].member /\ e.kind = work[w].kind /\ e.time = now
          /\ Valid' = Valid \cup (IF status \in ValidStatuses THEN {e} ELSE {})
    BY <2>1, RecordAdds DEF Recorded
  <2>3. now' = now + 1
    BY <2>1, RecordAdds DEF Recorded
  <2>4. CASE status \notin ValidStatuses
    <3>1. Entries' = Entries
      BY <2>2, <2>4 DEF Entries
    <3>. QED
      BY <2>3, <3>1 DEF Book!BookNext, Book!PassTime
  <2>5. CASE status \in ValidStatuses
    <3>1. /\ TypeOK /\ e.member \in Members /\ e.loc \in Locations /\ e.kind \in Kinds
      BY DEF LockInv, Event
    <3>2. Entries' = Entries \cup {EntryOf(e)}
      BY <2>2, <2>5 DEF Entries, EntryOf
    <3>3. Book!Write(e.member, e.kind, e.loc)
      BY <2>2, <2>3, <3>2 DEF Book!Write, EntryOf
    <3>4. Admitted(w)
      BY DEF LockInv, AllAdmitted
    <3>5. CASE e.kind = "CHECK_IN"
      <4>1. OpenState(Valid, e.member, now) = {}
        BY <2>1, <2>2, <3>4, <3>5 DEF Admitted, Recorded
      <4>2. Book!OpenState(Entries, e.member, now) = {}
        BY <3>1, <4>1, ReadersOfBook
      <4>3. Book!Arrive(e.member, e.loc)
        BY <3>3, <3>5, <4>2 DEF Book!Arrive
      <4>. QED
        BY <3>1, <4>3 DEF Book!BookNext
    <3>6. CASE e.kind = "CHECK_OUT"
      <4>1. Unclosed(Valid, e.member) # {}
        BY <2>1, <2>2, <3>4, <3>6 DEF Admitted, Recorded
      <4>2. Book!Unclosed(Entries, e.member) # {}
        BY <3>1, <4>1, ReadersOfBook
      <4>3. Book!Depart(e.member, e.loc)
        BY <3>3, <3>6, <4>2 DEF Book!Depart
      <4>. QED
        BY <3>1, <4>3 DEF Book!BookNext
    <3>. QED
      BY <3>1, <3>5, <3>6 DEF Kinds
  <2>. QED
    BY <2>4, <2>5
<1>. QED
  BY <1>1, <1>2, <1>3, StepCases

(***************************************************************************)
(* Every behaviour of the attendance service is a behaviour of the book.   *)
(***************************************************************************)
THEOREM ImplementsBook == Spec => KeepsBook
<1>1. Init => Book!BookInit
  BY DEF Init, Book!BookInit, Entries, Valid
<1>2. LockInv /\ [Next]_vars => [Book!BookNext]_Book!bookVars
  BY StepKeepsBook
<1>. QED
  BY <1>1, <1>2, KeepsLockInv, PTL DEF Spec, KeepsBook, Book!BookSpec

\* The book the refinement names and the book the proofs are about are one.
LEMMA SameReaders ==
    /\ \A l, t, u : Book!SessionIsOpen(l, t, u) <=> BookProofs!SessionIsOpen(l, t, u)
    /\ \A S, m : /\ Book!CheckIns(S, m) = BookProofs!CheckIns(S, m)
                 /\ Book!CheckOuts(S, m) = BookProofs!CheckOuts(S, m)
                 /\ Book!Unclosed(S, m) = BookProofs!Unclosed(S, m)
    /\ \A S, m, t : Book!OpenState(S, m, t) = BookProofs!OpenState(S, m, t)
<1>1. \A l, t, u : Book!SessionIsOpen(l, t, u) <=> BookProofs!SessionIsOpen(l, t, u)
  BY DEF Book!SessionIsOpen, BookProofs!SessionIsOpen, Book!WorkDate,
         BookProofs!WorkDate, Book!ShiftOffset, BookProofs!ShiftOffset
<1>2. \A S, m : /\ Book!CheckIns(S, m) = BookProofs!CheckIns(S, m)
               /\ Book!CheckOuts(S, m) = BookProofs!CheckOuts(S, m)
  BY DEF Book!CheckIns, BookProofs!CheckIns, Book!CheckOuts, BookProofs!CheckOuts
<1>3. \A S, m : Book!Unclosed(S, m) = BookProofs!Unclosed(S, m)
  BY <1>2 DEF Book!Unclosed, BookProofs!Unclosed
<1>4. \A S, m : Book!UnclosedCheckIn(S, m) = BookProofs!UnclosedCheckIn(S, m)
  BY <1>3 DEF Book!UnclosedCheckIn, BookProofs!UnclosedCheckIn
<1>5. \A S, m, t : Book!OpenState(S, m, t) = BookProofs!OpenState(S, m, t)
  BY <1>1, <1>4 DEF Book!OpenState, BookProofs!OpenState
<1>. QED
  BY <1>1, <1>2, <1>3, <1>5

LEMMA SameBook == Book!BookSpec => BookProofs!BookSpec
<1>1. Book!BookInit => BookProofs!BookInit
  BY DEF Book!BookInit, BookProofs!BookInit
<1>2. \A m, k, l : Book!Write(m, k, l) => BookProofs!Write(m, k, l)
  BY DEF Book!Write, BookProofs!Write
<1>3. \A m, l : Book!Arrive(m, l) => BookProofs!Arrive(m, l)
  BY <1>2, SameReaders DEF Book!Arrive, BookProofs!Arrive
<1>4. \A m, l : Book!Depart(m, l) => BookProofs!Depart(m, l)
  BY <1>2, SameReaders DEF Book!Depart, BookProofs!Depart
<1>5. [Book!BookNext]_Book!bookVars => [BookProofs!BookNext]_BookProofs!bookVars
  BY <1>3, <1>4 DEF Book!BookNext, BookProofs!BookNext, Book!PassTime,
                    BookProofs!PassTime, Book!bookVars, BookProofs!bookVars
<1>. QED
  BY <1>1, <1>5, PTL DEF Book!BookSpec, BookProofs!BookSpec

(***************************************************************************)
(* A member has at most one session open, however many workers serve that  *)
(* member's requests at once.                                              *)
(***************************************************************************)
THEOREM OneOpenSession == Spec => []AtMostOneOpen
<1>1. BookProofs!BookSpec => []BookProofs!AtMostOneOpen
  BY BookAssumptions, BookProofs!BookAtMostOneOpen
<1>2. BookProofs!AtMostOneOpen => AtMostOneOpen
  BY SameReaders DEF AtMostOneOpen, Book!AtMostOneOpen, BookProofs!AtMostOneOpen
<1>. QED
  BY <1>1, <1>2, ImplementsBook, SameBook, PTL DEF KeepsBook

(***************************************************************************)
(* Every departure that is recorded closes an arrival of its own.          *)
(***************************************************************************)
THEOREM DeparturesClose == Spec => []DeparturesFollowArrivals
<1>1. BookProofs!BookSpec => []BookProofs!DeparturesFollowArrivals
  BY BookAssumptions, BookProofs!BookDeparturesFollowArrivals
<1>2. BookProofs!DeparturesFollowArrivals => DeparturesFollowArrivals
  BY SameReaders DEF DeparturesFollowArrivals, Book!DeparturesFollowArrivals,
                     BookProofs!DeparturesFollowArrivals
<1>. QED
  BY <1>1, <1>2, ImplementsBook, SameBook, PTL DEF KeepsBook
=============================================================================
