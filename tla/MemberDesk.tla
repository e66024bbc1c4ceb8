----------------------------- MODULE MemberDesk -----------------------------
(***************************************************************************)
(* The server as one member's phone meets it: the sessions of the day, the *)
(* place each was opened or closed at, the face on file.  How the workers  *)
(* behind it interleave is the matter of Attendance; here a request that   *)
(* is admitted is one step, which that module's refinement of the book     *)
(* entitles us to, and what is kept of its refusals is what the page that  *)
(* sent it tells apart:                                                    *)
(*                                                                         *)
(*   "ok"         recorded                                                 *)
(*   "reason"     WARNING_REASON_REQUIRED: nothing recorded                *)
(*   "again"      another photograph may do (RETRYABLE of the page)        *)
(*   "refused"    another photograph will not help                         *)
(*                                                                         *)
(* One working date ends for every place at once (NewDay).                 *)
(***************************************************************************)
EXTENDS Naturals, FiniteSets

CONSTANTS
    Places,         \* the places the member is assigned to
    MaxPhotos,      \* bound: photographs taken
    LastDay         \* bound: working dates

ASSUME DeskAssumption == MaxPhotos \in Nat /\ LastDay \in Nat

VARIABLE
    desk            \* the member's rows of the database

NoPlace == [place |-> "none"]
Photos  == 1 .. MaxPhotos
Kinds   == {"CHECK_IN", "CHECK_OUT"}

\* A row of attendance_events with a valid status.
Record == [photo : Photos, kind : Kinds, place : Places, day : 0 .. LastDay]

\* A row of face_embeddings, or of face_change_requests.
Filing == [photo : Photos, as : {"enrolled", "pending"}]

DeskTypeOK ==
    desk \in [day : 0 .. LastDay, on : SUBSET Places, records : SUBSET Record,
             faces : SUBSET (Photos \cup {0}), change : Photos \cup {0},
             filed : SUBSET Filing, challenge : Nat]

(***************************************************************************)
(*  day      the working date of the present                               *)
(*  on       the places that are switched on                               *)
(*  records  the valid rows                                                *)
(*  faces    the photographs behind the faces on file that are not revoked *)
(*           (0 is one registered before)                                  *)
(*  change   the photograph of the pending face-change request, 0 if none  *)
(*  filed    the rows of both tables, those revoked or decided with them  *)
(*  challenge  the call whose enrolment challenge is not consumed, 0 if    *)
(*           none                                                          *)
(***************************************************************************)
DeskInit(faces, on) ==
    desk = [day |-> 0, on |-> on, records |-> {}, faces |-> faces,
            change |-> 0, filed |-> {}, challenge |-> 0]

-----------------------------------------------------------------------------
Today(kind) == {r \in desk.records : r.kind = kind /\ r.day = desk.day}

OpenSession == IF Today("CHECK_OUT") = {} THEN Today("CHECK_IN") ELSE {}

OpenPlace ==
    IF OpenSession = {} THEN NoPlace ELSE (CHOOSE r \in OpenSession : TRUE).place

\* my_state: which button the portal shows, and why it is off.
MyState ==
    [state |-> IF OpenSession # {} THEN "CHECKED_IN"
               ELSE IF Today("CHECK_IN") # {} THEN "DONE_FOR_TODAY"
               ELSE "NOT_CHECKED_IN",
     openPlace  |-> OpenPlace,
     canCheckIn |-> desk.on # {} /\ desk.faces # {}]

\* list_member_locations: those that are on.
MyPlaces == desk.on

-----------------------------------------------------------------------------
(* check_in and check_out: what may come of a request now.                 *)

\* Mutated form: neither an open session nor one of today is in the way.
MayCheckInAnyway(place) == place \in desk.on

\* Mutated form: the place is not looked up.
MayCheckInAnywhere(place) == OpenSession = {} /\ Today("CHECK_IN") = {}

MayCheckIn(place) ==
    /\ OpenSession = {} /\ Today("CHECK_IN") = {}
    /\ place \in desk.on

\* Nothing said about another place, the one it was opened at; else an assigned
\* place that is on, and a reason.
MayCheckOut(place, reasoned) ==
    /\ OpenSession # {}
    /\ place \in desk.on
    /\ place # OpenPlace => reasoned

\* Only an arrival has to account for standing in the outer ring; without a
\* face on file nobody is recognised.
Verdicts(kind, place, reasoned) ==
    LET admitted == IF kind = "CHECK_IN" THEN MayCheckIn(place)
                    ELSE MayCheckOut(place, reasoned)
    IN  {"refused"}
        \cup (IF admitted /\ kind = "CHECK_IN" /\ ~reasoned THEN {"reason"} ELSE {})
        \cup (IF admitted /\ desk.faces # {} THEN {"ok", "again"} ELSE {})

Serve(photo, kind, place, verdict) ==
    desk' = IF verdict = "ok"
            THEN [desk EXCEPT !.records = @ \cup
                    {[photo |-> photo, kind |-> kind, place |-> place, day |-> desk.day]}]
            ELSE desk

-----------------------------------------------------------------------------
(* Enrolment (routers/faces.py): a challenge is issued, looked up again    *)
(* before the face is encoded by the other service, and consumed when the  *)
(* result is kept.                                                         *)

IssueChallenge(call) == desk' = [desk EXCEPT !.challenge = call]

ChallengeHolds(call) == desk.challenge = call

\* A first face is kept; a second one waits for a reviewer, with a reason, and
\* one at a time.
EnrolOutcome(reasoned) ==
    IF desk.faces = {} THEN "enrolled"
    ELSE IF reasoned /\ desk.change = 0 THEN "pending" ELSE "refused"

KeepFace(photo, outcome, call) ==
    LET row == [photo |-> photo, as |-> outcome]
        kept == [desk EXCEPT !.challenge = IF @ = call THEN 0 ELSE @,
                             !.filed = @ \cup {row}]
    IN  desk' = CASE outcome = "enrolled" -> [kept EXCEPT !.faces = {photo}]
                  [] outcome = "pending"  -> [kept EXCEPT !.change = photo]
                  [] outcome = "refused"  -> desk

-----------------------------------------------------------------------------
(* What others do meanwhile.                                               *)

\* A reviewer accepts the pending face, which takes the place of all others,
\* or turns it down (face_requests.py, decide).
DecideFace ==
    /\ desk.change # 0
    /\ \E approve \in BOOLEAN :
         desk' = [desk EXCEPT !.change = 0,
                    !.faces = IF approve THEN {desk.change} ELSE @]

\* The place's manager switches it off (remove_location).
SwitchOff(place) ==
    /\ place \in desk.on
    /\ desk' = [desk EXCEPT !.on = @ \ {place}]

NewDay ==
    /\ desk.day < LastDay
    /\ desk' = [desk EXCEPT !.day = @ + 1]
=============================================================================
