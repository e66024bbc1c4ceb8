----------------------------- MODULE CheckInPage -----------------------------
(***************************************************************************)
(* The page that checks in and out (app/attendance/page.tsx): what it      *)
(* believes of the day, what the person has chosen, the photograph it      *)
(* keeps to send again, and what it says of the last one.                  *)
(*                                                                         *)
(* The operators below are functions of the page: the handlers return the  *)
(* page they leave.  Phone composes them with the camera, the requests     *)
(* under way and the server.                                               *)
(***************************************************************************)
EXTENDS MemberDesk

NotLoaded == [state |-> "unknown", openPlace |-> NoPlace, canCheckIn |-> TRUE]

Phases == {"idle", "working", "done", "failed"}

NoPhoto == 0
Nothing == [kind |-> "nothing", photo |-> NoPhoto]

(***************************************************************************)
(*  seen     the answer of my_state the page works from                    *)
(*  offered  the member's places, at the same moment                       *)
(*  place    the one selected (locationId)                                 *)
(*  reason   whether something is typed in the form of the warning ring    *)
(*  placeReason  whether five characters say why another place             *)
(*  held     the photograph with its position, kept for another send       *)
(*           (pendingRef)                                                  *)
(*  said     the verdict on screen (successInfo), of which photograph      *)
(***************************************************************************)
CheckInPages ==
    [screen : {"checkin"},
     seen : [state : {"unknown", "NOT_CHECKED_IN", "CHECKED_IN", "DONE_FOR_TODAY"},
             openPlace : Places \cup {NoPlace}, canCheckIn : BOOLEAN],
     offered : SUBSET Places, place : Places \cup {NoPlace}, phase : Phases,
     needsReason : BOOLEAN, reason : BOOLEAN, placeReason : BOOLEAN,
     blocked : BOOLEAN, retryable : BOOLEAN, held : Photos \cup {NoPhoto},
     said : [kind : Kinds \cup {"nothing"}, photo : Photos \cup {NoPhoto}]]

OpenedCheckIn ==
    [screen |-> "checkin", seen |-> NotLoaded, offered |-> {}, place |-> NoPlace,
     phase |-> "idle", needsReason |-> FALSE, reason |-> FALSE,
     placeReason |-> FALSE, blocked |-> FALSE, retryable |-> FALSE,
     held |-> NoPhoto, said |-> Nothing]

-----------------------------------------------------------------------------
(* What the page derives.                                                  *)

CheckedIn(p) == p.seen.state = "CHECKED_IN"

\* Leaving from a place other than the one the day was opened at - which the
\* page knows only while that place is among those it offers.
MovedPlace(p) ==
    /\ CheckedIn(p) /\ p.seen.openPlace \in p.offered
    /\ p.place # p.seen.openPlace

\* The card that takes the place of the camera.
Gated(p) ==
    \/ p.seen.state = "DONE_FOR_TODAY"
    \/ ~p.seen.canCheckIn /\ ~CheckedIn(p)

\* The camera is there until a verdict is.
ShowsCamera(p) == ~Gated(p) /\ p.said = Nothing

CameraDisabled(p) ==
    \/ p.phase = "working"
    \/ p.needsReason /\ ~p.reason
    \/ MovedPlace(p) /\ ~p.placeReason

\* A request is what send would make of the page at this moment: the kind, the
\* place and the reason are those of the closure, under a key of its own.
Asks(p, photo) ==
    [photo |-> photo, kind |-> IF CheckedIn(p) THEN "CHECK_OUT" ELSE "CHECK_IN",
     place |-> p.place, reasoned |-> CheckedIn(p) /\ MovedPlace(p)]

\* Only an arrival carries the reason of the warning ring.
AsksWithReason(p, photo) ==
    [Asks(p, photo) EXCEPT !.reasoned = IF CheckedIn(p) THEN @ ELSE p.reason]

-----------------------------------------------------------------------------
(* Handlers: what they leave of the page.                                  *)

\* The first choice is the open place, even one that is not offered, then the
\* default: any of them.
AfterLoad(p, seen, offered, default) ==
    [p EXCEPT !.seen = seen, !.offered = offered,
       !.place = IF seen.openPlace # NoPlace THEN seen.openPlace ELSE default]

\* onCaptured with a photograph: the page waits for the position.
AfterCapture(p) == [p EXCEPT !.phase = "working"]

\* onCaptured(null), a retake.  What was typed stays.
AfterRetake(p) ==
    [p EXCEPT !.phase = "idle", !.needsReason = FALSE, !.blocked = FALSE,
       !.retryable = FALSE, !.held = NoPhoto, !.said = Nothing]

AfterNoPosition(p) == [p EXCEPT !.phase = "failed", !.blocked = TRUE]

AfterPosition(p, photo) == [p EXCEPT !.held = photo]

\* Mutated form: the page says so before it is told.
AfterSendHopeful(p) ==
    [p EXCEPT !.phase = "done",
       !.said = [kind |-> IF CheckedIn(p) THEN "CHECK_OUT" ELSE "CHECK_IN",
                 photo |-> p.held]]

AfterSend(p) == [p EXCEPT !.phase = "working"]

AfterResend(p) == AfterSend([p EXCEPT !.retryable = FALSE])

\* run, the answer: recorded.
AfterSuccess(p, photo, kind) ==
    [p EXCEPT !.phase = "done", !.said = [kind |-> kind, photo |-> photo],
       !.needsReason = FALSE, !.reason = FALSE, !.retryable = FALSE,
       !.held = NoPhoto]

\* ... and the state the page then asks for.
AfterRefresh(p, seen) == [p EXCEPT !.seen = seen]

AfterNeedsReason(p) == [p EXCEPT !.phase = "idle", !.needsReason = TRUE]

\* Mutated form: the transport failure leaves the page as it was.
AfterFailureSilent(p, class) ==
    IF class = "transport" THEN p
    ELSE [p EXCEPT !.phase = "failed", !.retryable = FALSE,
            !.blocked = class # "again"]

\* What is still in hand can be sent again when the network failed; anything but
\* a bad photograph sends the person home.
AfterFailure(p, class) ==
    [p EXCEPT !.phase = "failed",
       !.retryable = class = "transport" /\ p.held # NoPhoto,
       !.blocked = class = "refused"]

-----------------------------------------------------------------------------
(* What the person may do.                                                 *)

PicksPlace(p, place) ==
    /\ ~Gated(p) /\ p.said = Nothing /\ Cardinality(p.offered) > 1
    /\ place \in p.offered

TypesPlaceReason(p) ==
    ~Gated(p) /\ p.said = Nothing /\ Cardinality(p.offered) > 1 /\ MovedPlace(p)

TypesReason(p) == ~Gated(p) /\ p.needsReason

ConfirmOffered(p) ==
    ~Gated(p) /\ p.needsReason /\ p.reason /\ p.phase # "working" /\ p.held # NoPhoto

ResendOffered(p) ==
    ~Gated(p) /\ p.retryable /\ p.phase # "working" /\ p.held # NoPhoto
=============================================================================
