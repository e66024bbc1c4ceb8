----------------------------- MODULE WorkingDay -----------------------------
(***************************************************************************)
(* The rules of a working day, shared by every module that looks at        *)
(* attendance: where a place cuts its day, which working date an instant   *)
(* belongs to, which session is still open, and what a day is called on    *)
(* the screens (services/attendance_days.py and the readers of             *)
(* services/attendance.py).                                                *)
(*                                                                         *)
(* Instants are natural numbers of an unspecified unit; a calendar day is  *)
(* DayLength of them.  Hours[l] is the row of the place l: its shift kind, *)
(* the expected start and end (instants of a day), the grace the place     *)
(* allows and whether it refuses who comes later.                          *)
(*                                                                         *)
(* The operators about sessions take a set of VALID events, records with   *)
(* at least the fields member, kind, loc and time.                         *)
(***************************************************************************)
EXTENDS Integers

CONSTANTS
    DayLength,      \* instants in a calendar day
    Locations,      \* the places
    Hours           \* the working hours of each place

HoursOfPlace ==
    [kind : {"DAY", "NIGHT"}, start : 0 .. DayLength - 1,
     end : 0 .. DayLength - 1, grace : Nat, enforce : BOOLEAN]

\* A day shift starts before it ends, a night shift the other way round:
\* locations_hours_match_shift and _validate_hours.
\* The code halves the off-duty gap exactly, so the unit of time is one that
\* divides it.
HoursMatchShift(h) ==
    IF h.kind = "NIGHT"
    THEN h.start > h.end /\ (h.start - h.end) % 2 = 0
    ELSE h.start < h.end

ASSUME DayLengthAssumption == DayLength \in Nat \ {0}

ASSUME HoursAssumption ==
    /\ Hours \in [Locations -> HoursOfPlace]
    /\ \A l \in Locations : HoursMatchShift(Hours[l])

-----------------------------------------------------------------------------
(***************************************************************************)
(* The cut: midnight for a day shift, the middle of the off-duty gap for a *)
(* night shift.                                                            *)
(***************************************************************************)
ShiftOffset(h) ==
    IF h.kind = "NIGHT" THEN h.end + (h.start - h.end) \div 2 ELSE 0

\* The working date, at the place l, of the instant t.
WorkDate(l, t) == (t - ShiftOffset(Hours[l])) \div DayLength

\* A check-in is open only until its working day ends.
SessionIsOpen(l, opened, t) == WorkDate(l, opened) = WorkDate(l, t)

\* Instants past the start of the shift that t belongs to, never negative.
MinutesLate(l, t) ==
    LET delta == t - (WorkDate(l, t) * DayLength + Hours[l].start)
    IN  IF delta > 0 THEN delta ELSE 0

BeyondGrace(l, late) == late > Hours[l].grace

-----------------------------------------------------------------------------
(***************************************************************************)
(* Sessions, read from a set of valid events.                              *)
(***************************************************************************)
CheckIns(S, m)  == {e \in S : e.member = m /\ e.kind = "CHECK_IN"}
CheckOuts(S, m) == {e \in S : e.member = m /\ e.kind = "CHECK_OUT"}

\* The check-ins of m with no check-out after them.
Unclosed(S, m) ==
    {e \in CheckIns(S, m) : \A o \in CheckOuts(S, m) : o.time <= e.time}

\* The latest of them; the query that returns it has LIMIT 1.
UnclosedCheckIn(S, m) ==
    {e \in Unclosed(S, m) : \A f \in Unclosed(S, m) : f.time <= e.time}

\* The session m can still check out of at t: empty, or that check-in.
OpenState(S, m, t) ==
    {e \in UnclosedCheckIn(S, m) : SessionIsOpen(e.loc, e.time, t)}

\* Has m opened a session on the working date of t?  The date is the one of
\* the place of each check-in.
CheckedInToday(S, m, t) ==
    \E e \in CheckIns(S, m) : SessionIsOpen(e.loc, e.time, t)

-----------------------------------------------------------------------------
(***************************************************************************)
(* One row of the screens: days() groups the valid events of m by the      *)
(* working date of the place of each, takes the first arrival and the last *)
(* departure, and drops a departure that is not after the arrival.         *)
(***************************************************************************)
OnDate(E, d) == {e \in E : WorkDate(e.loc, e.time) = d}

DayStatus(S, m, d) ==
    LET ins  == OnDate(CheckIns(S, m), d)
        outs == OnDate(CheckOuts(S, m), d)
        first == CHOOSE i \in ins : \A j \in ins : i.time <= j.time
        closing == {o \in outs : o.time > first.time}
    IN  CASE ins = {} /\ outs # {}       -> "NO_CHECK_IN"
          [] ins = {} /\ outs = {}       -> "NO_ATTENDANCE"
          [] ins # {} /\ closing = {}    -> "OPEN"
          [] ins # {} /\ closing # {}    -> "CLOSED"
=============================================================================
