-------------------------------- MODULE Phone --------------------------------
(***************************************************************************)
(* A member's phone: the check-in page and the enrolment page with their   *)
(* camera, the requests they have under way, and the server.               *)
(*                                                                         *)
(* A handler runs to its next await at once; what it awaits - the encoding *)
(* of a frame, the position, an answer - comes at any later moment, in any *)
(* order, and works with what the handler's closure saw when it was made.  *)
(* A request whose answer is lost, or has not come within                  *)
(* REQUEST_TIMEOUT_MS, is a transport failure to the page; the server may  *)
(* serve it all the same, before that or after.  Leaving a page does not   *)
(* stop its handlers.                                                      *)
(***************************************************************************)
EXTENDS CameraCapture, CheckInPage, EnrollPage

CONSTANTS
    Calls,          \* bound: handlers at work at one time, numbered
    Bounds          \* bounds of the model, alternatives of which a behaviour
                    \* takes one: the pages visited, how often one is opened,
                    \* the tab hidden, a photograph taken, a place switched
                    \* off, a working date ends, whether the guide and the
                    \* camera may fail, the places on and the faces on file at
                    \* first, the handlers at work

Bound ==
    [screens : SUBSET {"checkin", "enroll"}, opens : Nat, hides : Nat,
     photos : 0 .. MaxPhotos, offs : Nat, days : Nat, slips : BOOLEAN,
     places : SUBSET Places, faces : SUBSET {{}, {0}}, calls : SUBSET Calls]

ASSUME CallsAssumption == Calls \subseteq Nat \ {0} /\ Bounds \subseteq Bound

VARIABLES
    page,           \* the page on screen
    calls,          \* the handlers at work
    shots,          \* photographs taken
    left            \* what is left of the bounds

vars == <<cam, tab, desk, page, calls, shots, left>>

Away == [screen |-> "away"]
Free == [stage |-> "free"]

(***************************************************************************)
(* A handler is at one of the stages                                       *)
(*   "encoding"  the frame is being encoded                                *)
(*   "locating"  it waits for the position                                 *)
(*   "sent"      its check-in or check-out is on its way to the server     *)
(*   "start", "verify", "checked"  it enrols: the challenge is asked for,  *)
(*               the photograph sent, the challenge found valid            *)
(*   "answered"  an answer is on its way back                              *)
(*   "refresh"   recorded; it has asked for the new state                  *)
(* and its answer goes to the page, to a page that was left (past), or to  *)
(* nobody, for the phone gave up on it (lost).                             *)
(***************************************************************************)
Request ==
    [photo : Photos, kind : Kinds \cup {"ENROLL"}, place : Places \cup {NoPlace},
     reasoned : BOOLEAN]

Answers == {"none", "ok", "reason", "again", "refused", "enrolled", "pending"}

Call ==
    [stage : {"encoding", "locating", "sent", "start", "verify", "checked",
              "answered", "refresh"},
     ask : Request, by : {"page", "past", "lost"}, answer : Answers]

TypeOK ==
    /\ cam \in Camera \cup {Unmounted}
    /\ tab \in {"visible", "hidden"}
    /\ DeskTypeOK
    /\ page \in {Away} \cup CheckInPages \cup EnrollPages
    /\ calls \in [Calls -> {Free} \cup Call]
    /\ shots \in 0 .. MaxPhotos
    /\ left \in Bound

Init ==
    /\ left \in Bounds
    /\ cam = Unmounted /\ tab = "visible"
    /\ \E faces \in left.faces : DeskInit(faces, left.places)
    /\ page = Away
    /\ calls = [c \in Calls |-> Free]
    /\ shots = 0

OnCheckIn == page.screen = "checkin"
OnEnroll  == page.screen = "enroll"

-----------------------------------------------------------------------------
(* The parts of an action.                                                 *)

Spend(what) == left[what] > 0 /\ left' = [left EXCEPT ![what] = @ - 1]

ShowsCam(p) ==
    \/ p.screen = "enroll"
    \/ p.screen = "checkin" /\ ShowsCamera(p)

\* The page becomes p; the camera c stays as long as the page shows one.
Turn(p, c) ==
    /\ page' = p
    /\ cam' = IF ~ShowsCam(p) THEN Unmounted
              ELSE IF c = Unmounted THEN Mounted ELSE c

Disabled == IF OnCheckIn THEN CameraDisabled(page) ELSE EnrollDisabled(page)

Became(c, call) == calls' = [calls EXCEPT ![c] = call]

At(c, stage) == calls[c].stage = stage
Moved(c, stage) == Became(c, [calls[c] EXCEPT !.stage = stage])

\* What a handler does to its page, if that is still the one on screen.
Tells(c, p) == IF calls[c].by = "page" THEN Turn(p, cam) ELSE UNCHANGED <<page, cam>>

Begin(c, stage, ask) ==
    /\ c \in left.calls /\ calls[c] = Free
    /\ \A d \in left.calls : calls[d] = Free => c <= d
    /\ Became(c, [stage |-> stage, ask |-> ask, by |-> "page", answer |-> "none"])

-----------------------------------------------------------------------------
(* Moving about.                                                           *)

\* The handlers of the page that is left go on without it.
LeftBehind ==
    [c \in Calls |->
        IF calls[c] = Free \/ calls[c].by = "lost" THEN calls[c]
        ELSE [calls[c] EXCEPT !.by = "past"]]

Open(p) ==
    /\ page = Away /\ p.screen \in left.screens
    /\ Spend("opens")
    /\ Turn(p, Unmounted)
    /\ UNCHANGED <<tab, desk, calls, shots>>

Leave ==
    /\ page # Away /\ left.opens > 0
    /\ Turn(Away, cam)
    /\ calls' = LeftBehind
    /\ UNCHANGED <<tab, desk, shots, left>>

\* load: the state and the places, or the face on file.  A load that fails
\* leaves the page as it is.
Load ==
    /\ OnCheckIn /\ page.seen = NotLoaded
    /\ \E default \in MyPlaces \cup {NoPlace} :
         /\ default = NoPlace <=> MyPlaces = {}
         /\ Turn(AfterLoad(page, MyState, MyPlaces, default), cam)
    /\ UNCHANGED <<tab, desk, calls, shots, left>>

LoadFace ==
    /\ OnEnroll /\ ~page.enrolled /\ desk.faces # {}
    /\ Turn(AfterFaceStatus(page, TRUE), cam)
    /\ UNCHANGED <<tab, desk, calls, shots, left>>

-----------------------------------------------------------------------------
(* What the person does on a page.                                         *)

Types ==
    /\ \/ /\ OnCheckIn /\ TypesReason(page)
          /\ Turn([page EXCEPT !.reason = ~@], cam)
       \/ /\ OnCheckIn /\ TypesPlaceReason(page)
          /\ Turn([page EXCEPT !.placeReason = ~@], cam)
       \/ /\ OnCheckIn
          /\ \E place \in Places :
               PicksPlace(page, place) /\ Turn([page EXCEPT !.place = place], cam)
       \/ /\ OnEnroll /\ TypesFaceReason(page)
          /\ Turn([page EXCEPT !.reason = ~@], cam)
    /\ UNCHANGED <<tab, desk, calls, shots, left>>

OpensCamera ==
    /\ page # Away
    /\ PressOpen(Disabled)
    /\ UNCHANGED <<desk, page, calls, shots, left>>

\* The closure of the shutter is that of the page at this moment.  The button
\* stays as it is until the frame is encoded: it can be pressed again.
PressShutter(c) ==
    /\ page # Away /\ Spend("photos")
    /\ ShutterOpen(Disabled)
    /\ shots' = shots + 1
    /\ Begin(c, "encoding",
             IF OnCheckIn THEN Asks(page, shots + 1)
             ELSE [photo |-> shots + 1, kind |-> "ENROLL", place |-> NoPlace,
                   reasoned |-> FALSE])
    /\ UNCHANGED <<cam, tab, desk, page>>

Retake ==
    /\ page # Away /\ RetakeOffered(Disabled, page.phase)
    /\ Turn(IF OnCheckIn THEN AfterRetake(page) ELSE AfterEnrollCapture(page, 0),
            Retaken(cam))
    /\ UNCHANGED <<tab, desk, calls, shots, left>>

Confirm(c) ==
    /\ OnCheckIn /\ ConfirmOffered(page)
    /\ Begin(c, "sent", AsksWithReason(page, page.held))
    /\ Turn(AfterSend(page), cam)
    /\ UNCHANGED <<tab, desk, shots, left>>

Resend(c) ==
    /\ OnCheckIn /\ ResendOffered(page)
    /\ Begin(c, "sent", AsksWithReason(page, page.held))
    /\ Turn(AfterResend(page), cam)
    /\ UNCHANGED <<tab, desk, shots, left>>

Submit(c) ==
    /\ OnEnroll /\ SubmitOffered(page)
    /\ Begin(c, "start", [photo |-> page.captured, kind |-> "ENROLL",
                          place |-> NoPlace, reasoned |-> page.reason])
    /\ Turn(AfterSubmit(page), cam)
    /\ UNCHANGED <<tab, desk, shots, left>>

-----------------------------------------------------------------------------
(* The handlers go on.                                                     *)

\* The photograph takes the place of the video and is handed to the page.
Encoded(c) ==
    /\ At(c, "encoding")
    /\ LET mine == calls[c].by = "page"
           shown == IF IsMounted THEN FrameEncoded(cam) ELSE cam
       IN  IF calls[c].ask.kind = "ENROLL"
           THEN /\ Became(c, Free)
                /\ IF mine THEN Turn(AfterEnrollCapture(page, calls[c].ask.photo), shown)
                   ELSE UNCHANGED <<page, cam>>
           ELSE /\ Moved(c, "locating")
                /\ IF mine THEN Turn(AfterCapture(page), shown)
                   ELSE UNCHANGED <<page, cam>>
    /\ UNCHANGED <<tab, desk, shots, left>>

\* The frame could not be encoded.
NotEncoded(c) ==
    /\ At(c, "encoding")
    /\ Became(c, Free)
    /\ UNCHANGED <<cam, tab, desk, page, shots, left>>

\* A position, a warm one or a fresh one: the request goes out, even from a
\* page that was left.
Located(c) ==
    /\ At(c, "locating")
    /\ Moved(c, "sent")
    /\ Tells(c, AfterSend(AfterPosition(page, calls[c].ask.photo)))
    /\ UNCHANGED <<tab, desk, shots, left>>

NotLocated(c) ==
    /\ At(c, "locating")
    /\ Became(c, Free)
    /\ Tells(c, AfterNoPosition(page))
    /\ UNCHANGED <<tab, desk, shots, left>>

-----------------------------------------------------------------------------
(* The server.                                                             *)

Answered(c, answer) ==
    Became(c, IF calls[c].by = "lost" THEN Free
              ELSE [calls[c] EXCEPT !.stage = "answered", !.answer = answer])

Served(c) ==
    /\ At(c, "sent")
    /\ LET ask == calls[c].ask
       IN  \E verdict \in Verdicts(ask.kind, ask.place, ask.reasoned) :
             /\ Serve(ask.photo, ask.kind, ask.place, verdict)
             /\ Answered(c, verdict)
    /\ UNCHANGED <<cam, tab, page, shots, left>>

\* The challenge is issued and the photograph sent with it.
ChallengeIssued(c) ==
    /\ At(c, "start")
    /\ IssueChallenge(c)
    /\ IF calls[c].by = "lost" THEN Became(c, Free) ELSE Moved(c, "verify")
    /\ UNCHANGED <<cam, tab, page, shots, left>>

\* verify looks the challenge up, lets it go, and waits for the other service.
ChallengeChecked(c) ==
    /\ At(c, "verify")
    /\ IF ChallengeHolds(c) THEN Moved(c, "checked") ELSE Answered(c, "refused")
    /\ UNCHANGED <<cam, tab, desk, page, shots, left>>

\* The other service is down or finds no usable face, or the face is kept.
FaceEncoded(c) ==
    /\ At(c, "checked")
    /\ \E answer \in {"refused", EnrolOutcome(calls[c].ask.reasoned)} :
         /\ KeepFace(calls[c].ask.photo, answer, c)
         /\ Answered(c, answer)
    /\ UNCHANGED <<cam, tab, page, shots, left>>

\* What arrived at nobody is lost on its way, too.
Vanishes(c) ==
    /\ calls[c] # Free /\ calls[c].by = "lost"
    /\ Became(c, Free)
    /\ UNCHANGED <<cam, tab, desk, page, shots, left>>

-----------------------------------------------------------------------------
(* The answer, or none.                                                    *)

Heard(c) ==
    /\ At(c, "answered")
    /\ LET ask == calls[c].ask
           answer == calls[c].answer
       IN  /\ IF answer \in {"ok", "enrolled"} THEN Moved(c, "refresh") ELSE Became(c, Free)
           /\ Tells(c, CASE answer = "ok"     -> AfterSuccess(page, ask.photo, ask.kind)
                         [] answer = "reason" -> AfterNeedsReason(page)
                         [] answer \in {"again", "refused"} /\ ask.kind # "ENROLL"
                                              -> AfterFailure(page, answer)
                         [] OTHER             -> AfterVerdict(page, ask.photo, answer))
    /\ UNCHANGED <<tab, desk, shots, left>>

\* No answer: offline, dropped, or later than the timeout.  The request may
\* have been served, be served yet, or never arrive.
Unheard(c) ==
    /\ calls[c].stage \in {"sent", "start", "verify", "checked", "answered"}
    /\ calls[c].by # "lost"
    /\ Became(c, IF At(c, "answered") THEN Free ELSE [calls[c] EXCEPT !.by = "lost"])
    /\ Tells(c, IF calls[c].ask.kind = "ENROLL" THEN AfterVerdict(page, calls[c].ask.photo, "refused")
                ELSE AfterFailure(page, "transport"))
    /\ UNCHANGED <<tab, desk, shots, left>>

Refreshed(c) ==
    /\ At(c, "refresh")
    /\ Became(c, Free)
    /\ Tells(c, IF calls[c].ask.kind = "ENROLL"
                THEN AfterFaceStatus(page, desk.faces # {})
                ELSE AfterRefresh(page, MyState))
    /\ UNCHANGED <<tab, desk, shots, left>>

NotRefreshed(c) ==
    /\ At(c, "refresh")
    /\ Became(c, Free)
    /\ \E class \in {"transport", "refused"} :
         Tells(c, IF calls[c].ask.kind = "ENROLL" THEN AfterStatusLost(page)
                  ELSE AfterFailure(page, class))
    /\ UNCHANGED <<tab, desk, shots, left>>

-----------------------------------------------------------------------------
Guides ==
    /\ GuideTick \/ GuideAnswers \/ (left.slips /\ GuideFails)
    /\ UNCHANGED <<desk, page, calls, shots, left>>

Opens ==
    /\ PermissionKnown \/ StreamOpens \/ (left.slips /\ StreamRefused) \/ Show
    /\ UNCHANGED <<desk, page, calls, shots, left>>

Hides == Spend("hides") /\ Hide /\ UNCHANGED <<desk, page, calls, shots>>

Others ==
    /\ \/ DecideFace /\ UNCHANGED left
       \/ Spend("days") /\ NewDay
       \/ Spend("offs") /\ \E place \in Places : SwitchOff(place)
    /\ UNCHANGED <<cam, tab, page, calls, shots>>

\* The person, who may do nothing at all.
Person ==
    \/ Open(OpenedCheckIn) \/ Open(OpenedEnroll) \/ Leave
    \/ Types \/ OpensCamera \/ Retake
    \/ \E c \in Calls : PressShutter(c) \/ Confirm(c) \/ Resend(c) \/ Submit(c)

\* What is awaited comes.
Awaited(c) ==
    \/ Encoded(c) \/ NotEncoded(c) \/ Located(c) \/ NotLocated(c)
    \/ Served(c) \/ ChallengeIssued(c) \/ ChallengeChecked(c) \/ FaceEncoded(c)
    \/ Heard(c) \/ Unheard(c) \/ Vanishes(c)
    \/ Refreshed(c) \/ NotRefreshed(c)

Next ==
    \/ Person
    \/ Guides \/ Opens \/ Hides
    \/ Load \/ LoadFace
    \/ \E c \in Calls : Awaited(c)
    \/ Others

Spec == Init /\ [][Next]_vars

-----------------------------------------------------------------------------
(***************************************************************************)
(* What is awaited comes: frames are encoded, the browser gives a position *)
(* or an error within its timeout, and a request is answered or given up   *)
(* after REQUEST_TIMEOUT_MS; the guide's timer runs while the tab shows.   *)
(***************************************************************************)
Fairness == (\A c \in Calls : WF_vars(Awaited(c))) /\ WF_vars(Guides)

FairSpec == Spec /\ Fairness

-----------------------------------------------------------------------------
(***************************************************************************)
(* A page says that something was recorded only when it was: of the very   *)
(* photograph its answer was about there is a row, of the kind it says, a  *)
(* valid attendance, or a face kept or filed for review.  No order of      *)
(* answers, losses and repeated sends makes it say so of a photograph the  *)
(* server turned down or never met.  It need not be the photograph in      *)
(* hand: of a shutter pressed twice the answer to one may be shown over    *)
(* the other.                                                              *)
(***************************************************************************)
SaysWhatWasRecorded ==
    /\ OnCheckIn /\ page.said # Nothing =>
         \E r \in desk.records : r.kind = page.said.kind /\ r.photo = page.said.photo
    /\ OnEnroll /\ page.said \in {"enrolled", "pending"} =>
         [photo |-> page.reading, as |-> page.said] \in desk.filed

(***************************************************************************)
(* However often the shutter is pressed, a lost request sent again, or the *)
(* page left and opened with a request under way, a working date has one   *)
(* arrival and one departure, and the departure has its arrival.           *)
(***************************************************************************)
OneSessionOfManySends ==
    \A r \in desk.records :
        /\ \A s \in desk.records : s.kind = r.kind /\ s.day = r.day => s = r
        /\ r.kind = "CHECK_OUT" =>
             \E s \in desk.records : s.kind = "CHECK_IN" /\ s.day = r.day

(***************************************************************************)
(* The shutter only ever opens on what the guide says of the view on       *)
(* screen: nothing it said, and no failure of its calls, outlives the view *)
(* it was about, however late it comes (the cancelled flag of the loop).   *)
(***************************************************************************)
GuideIsOfThisView ==
    IsMounted /\ (cam.guide # "none" \/ cam.guideDown) => Live(cam)

(***************************************************************************)
(* A page that works on a photograph comes to a verdict, or is left.       *)
(***************************************************************************)
Working == page # Away /\ page.phase = "working"

EveryPhotoIsJudged == Working ~> ~Working

(***************************************************************************)
(* A slow network must not lock somebody out of clocking in: in front of a *)
(* live picture the guide sooner or later says what is wrong with it, or   *)
(* the shutter opens, though no call of the guide ever succeeds.           *)
(***************************************************************************)
Watched == IsMounted /\ Live(cam) /\ cam.picture /\ tab = "visible"

NotLockedOut == Watched ~> ~Watched \/ Ready(cam) \/ cam.guide = "fail"

-----------------------------------------------------------------------------
(***************************************************************************)
(* attendance/page.tsx: an open session is always closable, even when the  *)
(* manager removed the place in the meantime.  On a page that knows of the *)
(* session and of the places as they are, while the member has a place at  *)
(* all, some choice of place makes a request the server takes.             *)
(***************************************************************************)
Choices == {page.place} \cup {place \in Places : PicksPlace(page, place)}

AlwaysClosable ==
    OnCheckIn /\ CheckedIn(page) /\ page.seen = MyState /\ page.offered = MyPlaces
        /\ MyPlaces # {}
    => \E place \in Choices :
         MayCheckOut(place, MovedPlace([page EXCEPT !.place = place]))
=============================================================================
