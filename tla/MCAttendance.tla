---------------------------- MODULE MCAttendance ----------------------------
(***************************************************************************)
(* Instances of Attendance for TLC.  The office keeps a day shift and is   *)
(* cut at midnight; the plant keeps a night shift, from the last instant   *)
(* of the day to the first (NightEnd) of the next, and is cut half way     *)
(* between the two.                                                        *)
(***************************************************************************)
EXTENDS Attendance, TLC

CONSTANTS office, plant, an, binh, NightEnd

MCHours ==
    [l \in {office, plant} |->
        IF l = office
        THEN [kind |-> "DAY", start |-> 0, end |-> DayLength - 1, grace |-> 1, enforce |-> TRUE]
        ELSE [kind |-> "NIGHT", start |-> DayLength - 1, end |-> NightEnd,
              grace |-> 0, enforce |-> FALSE]]

MCGranted == [m \in Members |-> IF m = an THEN {office, plant} ELSE {office}]
\* Workers, and keys, differ in nothing but their names.
MCSymmetry == Permutations(Workers) \cup Permutations(Keys)
=============================================================================
