------------------------ MODULE AttendanceBookProofs ------------------------
(***************************************************************************)
(* What AttendanceBook promises, proved for every set of members and       *)
(* places, all working hours and every length of the day.                  *)
(***************************************************************************)
EXTENDS AttendanceBook, TLAPS

-----------------------------------------------------------------------------
(***************************************************************************)
(* The arithmetic of the cut, for every length of the day and all working  *)
(* hours.                                                                  *)
(***************************************************************************)

\* Division by the length of a day, as the multiple it leaves below.
LEMMA DivisionBounds ==
    ASSUME NEW a \in Int
    PROVE  /\ a \div DayLength \in Int
           /\ DayLength * (a \div DayLength) <= a
           /\ a < DayLength * (a \div DayLength) + DayLength
  BY DayLengthAssumption

\* Days do not run backwards.
LEMMA DivisionMonotone ==
    ASSUME NEW a \in Int, NEW b \in Int, a <= b
    PROVE  a \div DayLength <= b \div DayLength
<1> DEFINE p == a \div DayLength
           q == b \div DayLength
<1>1. /\ p \in Int /\ q \in Int
      /\ DayLength * p <= a
      /\ b < DayLength * q + DayLength
  BY DivisionBounds
<1> HIDE DEF p, q
<1>2. ASSUME q + 1 <= p PROVE FALSE
  <2>1. \A x, y \in Int : x <= y => DayLength * x <= DayLength * y
    BY DayLengthAssumption
  <2>2. DayLength * (q + 1) <= DayLength * p
    BY <1>1, <1>2, <2>1
  <2>3. DayLength * (q + 1) = DayLength * q + DayLength
    BY <1>1, DayLengthAssumption
  <2>. QED
    BY <1>1, <2>2, <2>3, DayLengthAssumption
<1>3. p <= q
  BY <1>1, <1>2
<1>. QED
  BY <1>3 DEF p, q

LEMMA ShiftOffsetType ==
    ASSUME NEW l \in Locations
    PROVE  ShiftOffset(Hours[l]) \in Int
  BY HoursAssumption, DayLengthAssumption DEF ShiftOffset, HoursOfPlace

\* The working date, at one place, never goes back (WORK_DATE_SQL, work_date).
LEMMA WorkDateMonotone ==
    ASSUME NEW l \in Locations, NEW t \in Int, NEW u \in Int, t <= u
    PROVE  /\ WorkDate(l, t) \in Int
           /\ WorkDate(l, u) \in Int
           /\ WorkDate(l, t) <= WorkDate(l, u)
<1> DEFINE o == ShiftOffset(Hours[l])
<1>1. o \in Int
  BY ShiftOffsetType
<1> HIDE DEF o
<1>2. t - o \in Int /\ u - o \in Int /\ t - o <= u - o
  BY <1>1
<1>3. /\ (t - o) \div DayLength \in Int
      /\ (u - o) \div DayLength \in Int
      /\ (t - o) \div DayLength <= (u - o) \div DayLength
  BY <1>2, DivisionBounds, DivisionMonotone
<1>. QED
  BY <1>3 DEF WorkDate, o

-----------------------------------------------------------------------------
(***************************************************************************)
(* The inductive invariant.  That at most one session is open does not     *)
(* follow from itself: an arrival is refused only on account of the LATEST *)
(* arrival nobody departed from, so what has to be carried along is that   *)
(* the earlier ones lie on days already over.                              *)
(***************************************************************************)
BookInv == BookTypeOK /\ NewSessionAfterCut /\ DeparturesFollowArrivals

\* An arrival nobody departed from, when the member may open a session: its
\* working day is over.
LEMMA UnclosedIsOver ==
    ASSUME BookInv, NEW m \in Members, OpenState(book, m, clock) = {},
           NEW i \in Unclosed(book, m)
    PROVE  WorkDate(i.loc, i.time) < WorkDate(i.loc, clock)
<1> USE DEF BookInv, BookTypeOK
<1>1. /\ i \in CheckIns(book, m) /\ i \in book
      /\ i.loc \in Locations /\ i.time \in Int /\ clock \in Int
      /\ i.time <= clock
  BY DEF Unclosed, CheckIns, Entry
<1>2. /\ WorkDate(i.loc, i.time) \in Int /\ WorkDate(i.loc, clock) \in Int
      /\ WorkDate(i.loc, i.time) <= WorkDate(i.loc, clock)
  BY <1>1, WorkDateMonotone
<1>3. CASE i \in UnclosedCheckIn(book, m)
  <2>1. ~SessionIsOpen(i.loc, i.time, clock)
    BY <1>3 DEF OpenState
  <2>. QED
    BY <2>1, <1>2 DEF SessionIsOpen
<1>4. CASE i \notin UnclosedCheckIn(book, m)
  <2>1. PICK f \in Unclosed(book, m) : ~(f.time <= i.time)
    BY <1>4 DEF UnclosedCheckIn
  <2>2. /\ f \in CheckIns(book, m)
        /\ f.time \in Int /\ i.time < f.time /\ f.time <= clock
    BY <2>1, <1>1 DEF Unclosed, CheckIns, Entry
  <2>3. \A o \in CheckOuts(book, m) : ~(i.time < o.time /\ o.time < f.time)
    BY <1>1 DEF Unclosed, CheckOuts, Entry
  <2>4. WorkDate(i.loc, i.time) < WorkDate(i.loc, f.time)
    BY <1>1, <2>2, <2>3 DEF NewSessionAfterCut
  <2>5. /\ WorkDate(i.loc, f.time) \in Int
        /\ WorkDate(i.loc, f.time) <= WorkDate(i.loc, clock)
    BY <1>1, <2>2, WorkDateMonotone
  <2>. QED
    BY <1>2, <2>4, <2>5
<1>. QED
  BY <1>3, <1>4

\* The invariant implies that at most one session is open.
LEMMA InvImpliesAtMostOneOpen ==
    ASSUME BookInv
    PROVE  AtMostOneOpen
<1> USE DEF BookInv, BookTypeOK
<1>1. SUFFICES ASSUME NEW m \in Members,
                      NEW i \in Unclosed(book, m), NEW j \in Unclosed(book, m),
                      SessionIsOpen(i.loc, i.time, clock),
                      SessionIsOpen(j.loc, j.time, clock)
               PROVE  i = j
  BY DEF AtMostOneOpen
<1>2. ASSUME NEW a \in Unclosed(book, m), NEW b \in Unclosed(book, m),
             SessionIsOpen(a.loc, a.time, clock), a.time < b.time
      PROVE  FALSE
  <2>1. /\ a \in CheckIns(book, m) /\ b \in CheckIns(book, m)
        /\ a.loc \in Locations /\ a.time \in Int /\ b.time \in Int
        /\ clock \in Int /\ b.time <= clock
    BY DEF Unclosed, CheckIns, Entry
  <2>2. \A o \in CheckOuts(book, m) : ~(a.time < o.time /\ o.time < b.time)
    BY <2>1 DEF Unclosed, CheckOuts, Entry
  <2>3. WorkDate(a.loc, a.time) < WorkDate(a.loc, b.time)
    BY <1>2, <2>1, <2>2 DEF NewSessionAfterCut
  <2>4. /\ WorkDate(a.loc, a.time) \in Int
        /\ WorkDate(a.loc, b.time) \in Int
        /\ WorkDate(a.loc, clock) \in Int
        /\ WorkDate(a.loc, b.time) <= WorkDate(a.loc, clock)
    BY <2>1, WorkDateMonotone
  <2>. QED
    BY <1>2, <2>3, <2>4 DEF SessionIsOpen
<1>3. /\ i \in book /\ j \in book /\ i.time \in Int /\ j.time \in Int
  BY DEF Unclosed, CheckIns, Entry
<1>4. i.time = j.time
  BY <1>1, <1>2, <1>3
<1>. QED
  BY <1>3, <1>4

-----------------------------------------------------------------------------
(***************************************************************************)
(* The invariant is kept, step by step.                                    *)
(***************************************************************************)

\* What writing an entry does to the arrivals and departures of each member.
LEMMA Written ==
    ASSUME BookTypeOK, NEW m \in Members, NEW kind \in {"CHECK_IN", "CHECK_OUT"},
           NEW l \in Locations, Write(m, kind, l)
    PROVE  /\ BookTypeOK'
           /\ \E e \in Entry :
                /\ e.member = m /\ e.kind = kind /\ e.loc = l /\ e.time = clock
                /\ book' = book \cup {e}
                /\ \A n \in Members :
                     /\ CheckIns(book', n) = CheckIns(book, n) \cup
                          IF n = m /\ kind = "CHECK_IN" THEN {e} ELSE {}
                     /\ CheckOuts(book', n) = CheckOuts(book, n) \cup
                          IF n = m /\ kind = "CHECK_OUT" THEN {e} ELSE {}
<1> DEFINE e == [member |-> m, kind |-> kind, loc |-> l, time |-> clock]
<1>1. /\ e \in Entry
      /\ e.member = m /\ e.kind = kind /\ e.loc = l /\ e.time = clock
      /\ book' = book \cup {e} /\ clock' = clock + 1
  BY DEF Write, BookTypeOK, Entry
<1> HIDE DEF e
<1>2. BookTypeOK'
  <2>1. book' \in SUBSET Entry /\ clock' \in Nat
    BY <1>1 DEF BookTypeOK
  <2>2. \A f \in book' : f.time < clock'
    BY <1>1 DEF BookTypeOK, Entry
  <2>3. \A f, g \in book' : f.time = g.time => f = g
    BY <1>1 DEF BookTypeOK, Entry
  <2>. QED
    BY <2>1, <2>2, <2>3 DEF BookTypeOK
<1>3. ASSUME NEW n \in Members
      PROVE  /\ CheckIns(book', n) = CheckIns(book, n) \cup
                  IF n = m /\ kind = "CHECK_IN" THEN {e} ELSE {}
             /\ CheckOuts(book', n) = CheckOuts(book, n) \cup
                  IF n = m /\ kind = "CHECK_OUT" THEN {e} ELSE {}
  BY <1>1 DEF CheckIns, CheckOuts
<1>. QED
  BY <1>1, <1>2, <1>3

LEMMA ArriveKeepsInv ==
    ASSUME BookInv, NEW m \in Members, NEW l \in Locations, Arrive(m, l)
    PROVE  BookInv'
<1>1. BookTypeOK /\ Write(m, "CHECK_IN", l) /\ OpenState(book, m, clock) = {}
  BY DEF BookInv, Arrive
<1>2. BookTypeOK'
  BY <1>1, Written
<1>3. PICK e \in Entry :
        /\ e.member = m /\ e.loc = l /\ e.time = clock
        /\ \A n \in Members :
             /\ CheckIns(book', n) = CheckIns(book, n) \cup IF n = m THEN {e} ELSE {}
             /\ CheckOuts(book', n) = CheckOuts(book, n)
  BY <1>1, Written
<1>4. NewSessionAfterCut'
  <2>1. SUFFICES ASSUME NEW n \in Members,
                        NEW i \in CheckIns(book', n), NEW j \in CheckIns(book', n),
                        i.time < j.time,
                        \A o \in CheckOuts(book', n) : ~(i.time < o.time /\ o.time < j.time)
                 PROVE  WorkDate(i.loc, i.time) < WorkDate(i.loc, j.time)
    BY DEF NewSessionAfterCut
  <2>2. CASE j \in CheckIns(book, n)
    <3>1. i \in CheckIns(book, n)
      BY <1>1, <1>3, <2>1, <2>2 DEF CheckIns, BookTypeOK, Entry
    <3>. QED
      BY <1>3, <2>1, <2>2, <3>1 DEF BookInv, NewSessionAfterCut
  <2>3. CASE j \notin CheckIns(book, n)
    <3>1. n = m /\ j = e
      BY <1>3, <2>3
    <3>2. i \in CheckIns(book, m) /\ j.time = clock
      BY <1>1, <1>3, <2>1, <3>1 DEF BookTypeOK
    <3>3. i \in Unclosed(book, m)
      BY <1>1, <1>3, <2>1, <3>1, <3>2
      DEF Unclosed, CheckIns, CheckOuts, BookTypeOK, Entry
    <3>. QED
      BY <1>1, <3>2, <3>3, UnclosedIsOver
  <2>. QED
    BY <2>2, <2>3
<1>5. DeparturesFollowArrivals'
  BY <1>3 DEF BookInv, DeparturesFollowArrivals
<1>. QED
  BY <1>2, <1>4, <1>5 DEF BookInv

LEMMA DepartKeepsInv ==
    ASSUME BookInv, NEW m \in Members, NEW l \in Locations, Depart(m, l)
    PROVE  BookInv'
<1>1. BookTypeOK /\ Write(m, "CHECK_OUT", l) /\ Unclosed(book, m) # {}
  BY DEF BookInv, Depart
<1>2. BookTypeOK'
  BY <1>1, Written
<1>3. PICK e \in Entry :
        /\ e.member = m /\ e.time = clock
        /\ \A n \in Members :
             /\ CheckIns(book', n) = CheckIns(book, n)
             /\ CheckOuts(book', n) = CheckOuts(book, n) \cup IF n = m THEN {e} ELSE {}
  BY <1>1, Written
<1>4. NewSessionAfterCut'
  BY <1>3 DEF BookInv, NewSessionAfterCut
<1>5. DeparturesFollowArrivals'
  <2>1. SUFFICES ASSUME NEW n \in Members, NEW o \in CheckOuts(book', n)
                 PROVE  \E i \in CheckIns(book', n) :
                          /\ i.time < o.time
                          /\ \A p \in CheckOuts(book', n) :
                               ~(i.time < p.time /\ p.time < o.time)
    BY DEF DeparturesFollowArrivals
  <2>2. \A f \in CheckIns(book, n) \cup CheckOuts(book, n) :
            f.time \in Nat /\ f.time < clock /\ clock \in Nat
    BY <1>1 DEF BookTypeOK, CheckIns, CheckOuts, Entry
  <2>3. CASE o \in CheckOuts(book, n)
    <3>1. PICK i \in CheckIns(book, n) :
            /\ i.time < o.time
            /\ \A p \in CheckOuts(book, n) : ~(i.time < p.time /\ p.time < o.time)
      BY <2>3 DEF BookInv, DeparturesFollowArrivals
    <3>. QED
      BY <1>3, <2>2, <2>3, <3>1
  <2>4. CASE o \notin CheckOuts(book, n)
    <3>1. n = m /\ o = e
      BY <1>3, <2>4
    <3>2. PICK i \in Unclosed(book, m) : TRUE
      BY <1>1
    <3>. QED
      BY <1>3, <2>2, <3>1, <3>2 DEF Unclosed
  <2>. QED
    BY <2>3, <2>4
<1>. QED
  BY <1>2, <1>4, <1>5 DEF BookInv

LEMMA PassTimeKeepsInv ==
    ASSUME BookInv, PassTime
    PROVE  BookInv'
  BY DEF BookInv, PassTime, BookTypeOK, Entry, NewSessionAfterCut,
         DeparturesFollowArrivals, CheckIns, CheckOuts

LEMMA BookInitKeepsInv == BookInit => BookInv
  BY DEF BookInit, BookInv, BookTypeOK, NewSessionAfterCut,
         DeparturesFollowArrivals, CheckIns, CheckOuts

LEMMA BookNextKeepsInv ==
    ASSUME BookInv, [BookNext]_bookVars
    PROVE  BookInv'
<1>1. CASE \E m \in Members, l \in Locations : Arrive(m, l)
  BY <1>1, ArriveKeepsInv
<1>2. CASE \E m \in Members, l \in Locations : Depart(m, l)
  BY <1>2, DepartKeepsInv
<1>3. CASE PassTime
  BY <1>3, PassTimeKeepsInv
<1>4. CASE UNCHANGED bookVars
  BY <1>4 DEF bookVars, BookInv, BookTypeOK, NewSessionAfterCut,
              DeparturesFollowArrivals, CheckIns, CheckOuts
<1>. QED
  BY <1>1, <1>2, <1>3, <1>4 DEF BookNext

-----------------------------------------------------------------------------
(***************************************************************************)
(* The book keeps its inductive invariant, and with it: at most one        *)
(* session of a member is open at any time, and every departure has an     *)
(* arrival of its own.                                                     *)
(***************************************************************************)
THEOREM BookKeepsInv == BookSpec => []BookInv
<1>1. BookInit => BookInv
  BY BookInitKeepsInv
<1>2. BookInv /\ [BookNext]_bookVars => BookInv'
  BY BookNextKeepsInv
<1>. QED
  BY <1>1, <1>2, PTL DEF BookSpec

\* At most one session of a member is open (_open_state, check_in).
THEOREM BookAtMostOneOpen == BookSpec => []AtMostOneOpen
<1>1. BookInv => AtMostOneOpen
  BY InvImpliesAtMostOneOpen
<1>. QED
  BY <1>1, BookKeepsInv, PTL

\* Every departure closes an arrival of its own (_unclosed_check_in).
THEOREM BookDeparturesFollowArrivals == BookSpec => []DeparturesFollowArrivals
<1>1. BookInv => DeparturesFollowArrivals
  BY DEF BookInv
<1>. QED
  BY <1>1, BookKeepsInv, PTL
=============================================================================
