--------------------------- MODULE AttendanceBook ---------------------------
(***************************************************************************)
(* What the attendance service promises, with everything it does to keep   *)
(* the promise left out: no workers, no row locks, no idempotency keys, no *)
(* refusals, no photographs.  A book of arrivals and departures, and a     *)
(* clock.                                                                  *)
(*                                                                         *)
(*   - an arrival is written only while its member has no session open;    *)
(*   - a departure is written only against an arrival nobody has departed  *)
(*     from, and it may be written after that arrival's day has ended (the *)
(*     request was admitted before the cut and answered after it);         *)
(*   - what is written stays written, and its instant is in the past.      *)
(***************************************************************************)
EXTENDS WorkingDay

CONSTANT Members

VARIABLES
    book,           \* the arrivals and departures written so far
    clock           \* later than everything in the book

bookVars == <<book, clock>>

Entry ==
    [member : Members, kind : {"CHECK_IN", "CHECK_OUT"},
     loc : Locations, time : Nat]

BookInit == book = {} /\ clock \in Nat

\* Writing takes the clock past the instant of the entry.
Write(m, kind, l) ==
    /\ book' = book \cup {[member |-> m, kind |-> kind, loc |-> l, time |-> clock]}
    /\ clock' = clock + 1

Arrive(m, l) ==
    /\ OpenState(book, m, clock) = {}
    /\ Write(m, "CHECK_IN", l)

Depart(m, l) ==
    /\ Unclosed(book, m) # {}
    /\ Write(m, "CHECK_OUT", l)

PassTime ==
    /\ clock' = clock + 1
    /\ UNCHANGED book

BookNext ==
    \/ \E m \in Members, l \in Locations : Arrive(m, l) \/ Depart(m, l)
    \/ PassTime

BookSpec == BookInit /\ [][BookNext]_bookVars

-----------------------------------------------------------------------------
BookTypeOK ==
    /\ book \in SUBSET Entry
    /\ clock \in Nat
    /\ \A e \in book : e.time < clock
    /\ \A e, f \in book : e.time = f.time => e = f

(***************************************************************************)
(* Two arrivals of one member with no departure between them: the later    *)
(* one was written after the working day of the earlier one had ended.     *)
(***************************************************************************)
NewSessionAfterCut ==
    \A m \in Members : \A i, j \in CheckIns(book, m) :
        /\ i.time < j.time
        /\ \A o \in CheckOuts(book, m) : ~(i.time < o.time /\ o.time < j.time)
        => WorkDate(i.loc, i.time) < WorkDate(i.loc, j.time)

(***************************************************************************)
(* A member has at most one session open: two arrivals that nobody has     *)
(* departed from and whose working days both include the present are the   *)
(* same arrival.                                                           *)
(***************************************************************************)
AtMostOneOpen ==
    \A m \in Members : \A i, j \in Unclosed(book, m) :
        /\ SessionIsOpen(i.loc, i.time, clock)
        /\ SessionIsOpen(j.loc, j.time, clock)
        => i = j

(***************************************************************************)
(* Every departure closes an arrival of its own: there is an arrival       *)
(* before it with no other departure in between.                           *)
(***************************************************************************)
DeparturesFollowArrivals ==
    \A m \in Members : \A o \in CheckOuts(book, m) :
        \E i \in CheckIns(book, m) :
            /\ i.time < o.time
            /\ \A p \in CheckOuts(book, m) : ~(i.time < p.time /\ p.time < o.time)
=============================================================================
