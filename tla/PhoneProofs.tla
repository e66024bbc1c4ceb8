------------------------------ MODULE PhoneProofs ------------------------------
(***************************************************************************)
(* What a member's phone guarantees for any places, any number of          *)
(* photographs, handlers at work and working dates, and a guide of any     *)
(* patience.                                                               *)
(***************************************************************************)
EXTENDS Phone, TLAPS

-----------------------------------------------------------------------------
(***************************************************************************)
(* The camera.                                                             *)
(***************************************************************************)

\* What the guide said, and a call of this view, are of a view that is live.
GoodCam(c) ==
  /\ c \in Camera
  /\ c.guide # "none" \/ c.guideDown \/ c.call = "asked" => Live(c)

CamOK(c) == c = Unmounted \/ GoodCam(c)

LEMMA MountedCam == GoodCam(Mounted)
<1>1. Mounted \in Camera
  BY CameraAssumption DEF Mounted, Camera
<1> QED BY <1>1 DEF GoodCam, Mounted

\* The effect keyed on the live view: whatever becomes of the view.
LEMMA LoopGood ==
  ASSUME NEW old, GoodCam(old), NEW new \in Camera, new.guide = old.guide,
         new.guideDown = old.guideDown, new.call = old.call
  PROVE  /\ GoodCam(GuideLoop(old, new))
         /\ Live(GuideLoop(old, new)) = Live(new)
<1> DEFINE c == GuideLoop(old, new)
<1>1. CASE Live(new) = Live(old)
  BY <1>1 DEF GuideLoop, GoodCam
<1>2. CASE Live(new) # Live(old)
  <2> DEFINE call == IF old.call = "asked" THEN "stale" ELSE old.call
  <2>1. call \in {"none", "stale"}
    BY DEF GoodCam, Camera
  <2>2. c = [new EXCEPT !.guide = "none", !.guideDown = FALSE, !.failures = 0, !.call = call]
    BY <1>2 DEF GuideLoop
  <2> HIDE DEF call
  <2>0. 0 \in 0 .. GuideFailuresBeforeFallback
    BY CameraAssumption
  <2>3. c \in Camera
    BY <2>0, <2>1, <2>2 DEF Camera
  <2>4. /\ c.guide = "none" /\ c.guideDown = FALSE /\ c.call = call
        /\ c.streaming = new.streaming /\ c.preview = new.preview
    BY <2>2 DEF Camera
  <2> QED BY <2>1, <2>3, <2>4 DEF GoodCam, Live
<1> QED BY <1>1, <1>2

LEMMA StreamsGood ==
  ASSUME NEW c, GoodCam(c)
  PROVE  /\ GoodCam(Start(c)) /\ GoodCam(StopStream(c))
         /\ GoodCam(FrameEncoded(c)) /\ GoodCam(Retaken(c))
<1> c \in Camera
  BY DEF GoodCam
<1>1. ASSUME NEW d, GoodCam(d) PROVE GoodCam(Start(d))
  <2>1. d \in Camera
    BY <1>1 DEF GoodCam
  <2>2. CASE d.opening < MaxOpening
    <3>1. [d EXCEPT !.opening = @ + 1] \in Camera
      BY <2>1, <2>2, CameraAssumption DEF Camera
    <3> QED BY <1>1, <2>1, <2>2, <3>1 DEF GoodCam, Start, Live, Camera
  <2> QED BY <1>1, <2>2 DEF Start
<1>2. NoStream(c) \in Camera
  BY DEF NoStream, Camera
<1>3. /\ NoStream(c).guide = c.guide /\ NoStream(c).guideDown = c.guideDown
      /\ NoStream(c).call = c.call
  BY DEF NoStream, Camera
<1>4. GoodCam(StopStream(c))
  BY <1>2, <1>3, LoopGood DEF StopStream
<1>5. GoodCam(FrameEncoded(c))
  <2> DEFINE d == [NoStream(c) EXCEPT !.preview = TRUE]
  <2>1. d \in Camera /\ d.guide = c.guide /\ d.guideDown = c.guideDown /\ d.call = c.call
    BY <1>2, <1>3 DEF Camera
  <2> QED BY <2>1, LoopGood DEF FrameEncoded
<1>6. GoodCam(Retaken(c))
  <2> DEFINE d == [c EXCEPT !.preview = FALSE, !.picture = FALSE]
  <2>1. d \in Camera /\ d.guide = c.guide /\ d.guideDown = c.guideDown /\ d.call = c.call
    BY DEF Camera
  <2> QED BY <1>1, <2>1, LoopGood DEF Retaken
<1> QED BY <1>1, <1>4, <1>5, <1>6

\* Every action of the camera.
LEMMA CamSteps ==
  ASSUME CamOK(cam), tab \in {"visible", "hidden"},
         \/ PermissionKnown \/ (\E disabled : PressOpen(disabled)) \/ StreamOpens
         \/ StreamRefused \/ Hide \/ Show \/ GuideTick \/ GuideAnswers \/ GuideFails
  PROVE  CamOK(cam') /\ tab' \in {"visible", "hidden"}
<1>0. ASSUME IsMounted PROVE GoodCam(cam) /\ cam \in Camera
  BY <1>0 DEF CamOK, IsMounted, GoodCam
<1>1. CASE PermissionKnown
  <2>1. GoodCam(cam) /\ cam \in Camera /\ tab' = tab
    BY <1>0, <1>1 DEF PermissionKnown
  <2> DEFINE c == [cam EXCEPT !.asking = FALSE]
  <2>2. c \in Camera /\ c.guide = cam.guide /\ c.guideDown = cam.guideDown /\ c.call = cam.call
          /\ c.streaming = cam.streaming /\ c.preview = cam.preview
    BY <2>1 DEF Camera
  <2>3. GoodCam(c)
    BY <2>1, <2>2 DEF GoodCam, Live
  <2>4. cam' = c \/ cam' = Start(c)
    BY <1>1 DEF PermissionKnown
  <2> QED BY <2>1, <2>3, <2>4, StreamsGood DEF CamOK
<1>2. ASSUME NEW disabled, PressOpen(disabled) PROVE CamOK(cam') /\ tab' = tab
  BY <1>0, <1>2, StreamsGood DEF PressOpen, CamOK
<1>3. CASE StreamOpens
  <2>1. GoodCam(cam) /\ cam \in Camera /\ tab' = tab /\ cam.opening > 0
    BY <1>0, <1>3 DEF StreamOpens
  <2> DEFINE new == [cam EXCEPT !.opening = @ - 1, !.held = TRUE, !.streaming = TRUE,
                       !.picture = ~cam.preview]
             c == GuideLoop(cam, new)
  <2>2. new \in Camera
    <3>1. cam.opening - 1 \in 0 .. MaxOpening
      BY <2>1, CameraAssumption DEF Camera
    <3>2. (~cam.preview) \in BOOLEAN
      OBVIOUS
    <3> QED BY <2>1, <3>1, <3>2 DEF Camera
  <2>3. new.guide = cam.guide /\ new.guideDown = cam.guideDown /\ new.call = cam.call
    BY <2>1 DEF Camera
  <2>4. GoodCam(c)
    BY <2>1, <2>2, <2>3, LoopGood
  <2>5. cam' = IF Live(c) /\ ~Live(cam) /\ c.call = "none" THEN [c EXCEPT !.call = "asked"] ELSE c
    BY <1>3 DEF StreamOpens
  <2> HIDE DEF c
  <2>6. Live(c) => GoodCam([c EXCEPT !.call = "asked"])
    BY <2>4 DEF GoodCam, Camera, Live
  <2> QED BY <2>1, <2>4, <2>5, <2>6 DEF CamOK
<1>4. CASE StreamRefused
  <2>1. GoodCam(cam) /\ cam \in Camera /\ tab' = tab /\ cam.opening > 0
    BY <1>0, <1>4 DEF StreamRefused
  <2>2. cam.opening - 1 \in 0 .. MaxOpening
    BY <2>1, CameraAssumption DEF Camera
  <2>3. cam' = [cam EXCEPT !.opening = @ - 1]
    BY <1>4 DEF StreamRefused
  <2>4. cam' \in Camera
    BY <2>1, <2>2, <2>3 DEF Camera
  <2> QED BY <2>1, <2>3, <2>4 DEF GoodCam, CamOK, Live, Camera
<1>5. CASE Hide
  <2>1. CASE IsMounted /\ cam.held /\ ~cam.preview
    <3> DEFINE c == StopStream(cam)
    <3>1. GoodCam(c) /\ cam' = [c EXCEPT !.hiddenWhileLive = TRUE]
      BY <1>0, <1>5, <2>1, StreamsGood DEF Hide
    <3> HIDE DEF c
    <3>2. GoodCam(cam')
      BY <3>1 DEF GoodCam, Camera, Live
    <3> QED BY <1>5, <3>2 DEF CamOK, Hide
  <2>2. CASE ~(IsMounted /\ cam.held /\ ~cam.preview)
    BY <1>5, <2>2 DEF Hide
  <2> QED BY <2>1, <2>2
<1>6. CASE Show
  <2>1. CASE IsMounted /\ cam.hiddenWhileLive
    <3> DEFINE c == [cam EXCEPT !.hiddenWhileLive = FALSE]
    <3>1. GoodCam(c)
      BY <1>0, <2>1 DEF GoodCam, Camera, Live
    <3>2. cam' = Start(c)
      BY <1>6, <2>1 DEF Show
    <3> QED BY <1>6, <3>1, <3>2, StreamsGood DEF CamOK, Show
  <2>2. CASE ~(IsMounted /\ cam.hiddenWhileLive)
    BY <1>6, <2>2 DEF Show
  <2> QED BY <2>1, <2>2
<1>7. CASE GuideTick
  <2>1. GoodCam(cam) /\ cam \in Camera /\ tab' = tab /\ Live(cam)
          /\ cam' = [cam EXCEPT !.call = "asked"]
    BY <1>0, <1>7 DEF GuideTick
  <2> QED BY <2>1 DEF GoodCam, CamOK, Camera, Live
<1>8. CASE GuideAnswers
  <2>1. GoodCam(cam) /\ cam \in Camera /\ tab' = tab /\ cam.call # "none"
    BY <1>0, <1>8 DEF GuideAnswers
  <2>2. PICK said \in GuideSays :
          cam' = IF cam.call = "stale" THEN [cam EXCEPT !.call = "none"]
                 ELSE [cam EXCEPT !.call = "none", !.guide = said, !.guideDown = FALSE,
                                  !.failures = 0]
    BY <1>8 DEF GuideAnswers
  <2>3. said \in {"ok", "fail"}
    BY DEF GuideSays
  <2>4. CASE cam.call = "stale"
    BY <2>1, <2>2, <2>4 DEF GoodCam, CamOK, Camera, Live
  <2>5. CASE cam.call = "asked"
    <3>1. cam' = [cam EXCEPT !.call = "none", !.guide = said, !.guideDown = FALSE, !.failures = 0]
      BY <2>2, <2>5
    <3>0. 0 \in 0 .. GuideFailuresBeforeFallback
      BY CameraAssumption
    <3>2. cam' \in Camera
      BY <2>1, <2>3, <3>0, <3>1 DEF Camera
    <3>3. Live(cam')
      BY <2>1, <2>5, <3>1 DEF GoodCam, Camera, Live
    <3> QED BY <2>1, <3>2, <3>3 DEF GoodCam, CamOK
  <2> QED BY <2>1, <2>4, <2>5 DEF Camera
<1>9. CASE GuideFails
  <2> DEFINE n == IF cam.failures < GuideFailuresBeforeFallback THEN cam.failures + 1 ELSE cam.failures
             down == cam.guideDown \/ (cam.call = "asked" /\ n >= GuideFailuresBeforeFallback)
  <2>1. GoodCam(cam) /\ cam \in Camera /\ tab' = tab
    BY <1>0, <1>9 DEF GuideFails
  <2>2. cam' = [cam EXCEPT !.call = "none", !.failures = n, !.guideDown = down]
    BY <1>9 DEF GuideFails
  <2>3. n \in 0 .. GuideFailuresBeforeFallback /\ down \in BOOLEAN
    BY <2>1, CameraAssumption DEF Camera
  <2>4. down => Live(cam)
    BY <2>1 DEF GoodCam
  <2> HIDE DEF n, down
  <2>5. cam' \in Camera
    BY <2>1, <2>2, <2>3 DEF Camera
  <2>6. /\ cam'.guide = cam.guide /\ cam'.guideDown = down /\ cam'.call = "none"
        /\ cam'.streaming = cam.streaming /\ cam'.preview = cam.preview
    BY <2>1, <2>2 DEF Camera
  <2> QED BY <2>1, <2>4, <2>5, <2>6 DEF GoodCam, CamOK, Live
<1> QED BY <1>1, <1>2, <1>3, <1>4, <1>5, <1>6, <1>7, <1>8, <1>9
-----------------------------------------------------------------------------
(***************************************************************************)
(* The member's rows.                                                      *)
(***************************************************************************)

ServerGood == DeskTypeOK /\ OneSessionOfManySends

\* Nothing recorded is taken back, nor a face that was kept or filed.
Grows == desk.records \subseteq desk'.records /\ desk.filed \subseteq desk'.filed

FiledAs(verdict, photo, filed) == [photo |-> photo, as |-> verdict] \in filed

\* Two rows of one kind and date are one; a departure has its arrival.
LEMMA ServeGood ==
  ASSUME ServerGood, NEW photo \in Photos, NEW kind \in Kinds, NEW place, NEW reasoned,
         NEW verdict \in Verdicts(kind, place, reasoned), Serve(photo, kind, place, verdict)
  PROVE  /\ ServerGood' /\ Grows
         /\ verdict \in {"ok", "reason", "again", "refused"}
         /\ verdict = "ok" => \E r \in desk'.records : r.kind = kind /\ r.photo = photo
<1> DEFINE r == [photo |-> photo, kind |-> kind, place |-> place, day |-> desk.day]
<1>0. verdict \in {"ok", "reason", "again", "refused"}
  BY DEF Verdicts
<1>1. CASE verdict # "ok"
  <2>1. desk' = desk
    BY <1>1 DEF Serve
  <2> QED BY <1>0, <1>1, <2>1 DEF ServerGood, DeskTypeOK, OneSessionOfManySends, Grows
<1>2. CASE verdict = "ok"
  <2>1. desk' = [desk EXCEPT !.records = desk.records \cup {r}]
    BY <1>2 DEF Serve
  <2>2. IF kind = "CHECK_IN" THEN MayCheckIn(place) ELSE MayCheckOut(place, reasoned)
    BY <1>2 DEF Verdicts
  <2>3. place \in Places
    BY <2>2 DEF MayCheckIn, MayCheckOut, ServerGood, DeskTypeOK
  <2>4. r \in Record
    BY <2>3 DEF Record, ServerGood, DeskTypeOK
  <2>5. /\ desk'.records = desk.records \cup {r} /\ desk'.filed = desk.filed
        /\ DeskTypeOK'
    <3>1. desk.records \cup {r} \in SUBSET Record
      BY <2>4 DEF ServerGood, DeskTypeOK
    <3> HIDE DEF r
    <3> QED BY <2>1, <3>1 DEF ServerGood, DeskTypeOK
  <2>6. \A s \in desk.records : s.kind = kind => s.day # desk.day
    BY <2>2 DEF MayCheckIn, MayCheckOut, OpenSession, Today, Kinds
  <2>7. kind = "CHECK_OUT" => \E s \in desk.records : s.kind = "CHECK_IN" /\ s.day = desk.day
    BY <2>2 DEF MayCheckOut, OpenSession, Today
  <2>8. r.kind = kind /\ r.day = desk.day /\ r.photo = photo
    OBVIOUS
  <2> HIDE DEF r
  <2>9. OneSessionOfManySends'
    BY <2>5, <2>6, <2>7, <2>8 DEF OneSessionOfManySends, ServerGood
  <2> QED BY <1>0, <2>5, <2>8, <2>9 DEF ServerGood, Grows
<1> QED BY <1>1, <1>2

\* What leaves the rows of attendance alone.
LEMMA RowsKept ==
  ASSUME ServerGood, DeskTypeOK', desk'.records = desk.records,
         desk.filed \subseteq desk'.filed
  PROVE  ServerGood' /\ Grows
  BY DEF ServerGood, OneSessionOfManySends, Grows

LEMMA EnrolGood ==
  ASSUME ServerGood, NEW call \in Nat
  PROVE  /\ IssueChallenge(call) => ServerGood' /\ Grows
         /\ \A photo \in Photos, reasoned \in BOOLEAN :
              \A outcome \in {"refused", EnrolOutcome(reasoned)} :
                KeepFace(photo, outcome, call) =>
                  /\ ServerGood' /\ Grows
                  /\ outcome \in {"refused", "enrolled", "pending"}
                  /\ outcome \in {"enrolled", "pending"} => FiledAs(outcome, photo, desk'.filed)
<1>1. ASSUME IssueChallenge(call) PROVE ServerGood' /\ Grows
  BY <1>1, RowsKept DEF IssueChallenge, ServerGood, DeskTypeOK
<1>2. ASSUME NEW photo \in Photos, NEW reasoned \in BOOLEAN,
             NEW outcome \in {"refused", EnrolOutcome(reasoned)}, KeepFace(photo, outcome, call)
      PROVE  /\ ServerGood' /\ Grows
             /\ outcome \in {"refused", "enrolled", "pending"}
             /\ outcome \in {"enrolled", "pending"} => FiledAs(outcome, photo, desk'.filed)
  <2> DEFINE left0 == IF desk.challenge = call THEN 0 ELSE desk.challenge
             rows == desk.filed \cup {[photo |-> photo, as |-> outcome]}
             kept == [desk EXCEPT !.challenge = left0, !.filed = rows]
  <2>0. outcome \in {"refused", "enrolled", "pending"}
    BY DEF EnrolOutcome
  <2>1. /\ DeskTypeOK /\ left0 \in Nat /\ photo \in Photos \cup {0}
        /\ outcome # "refused" => rows \in SUBSET Filing
    BY <2>0 DEF ServerGood, DeskTypeOK, Filing
  <2>2. CASE outcome = "refused"
    <3>1. desk' = desk
      BY <1>2, <2>2 DEF KeepFace
    <3> QED BY <2>2, <3>1, RowsKept DEF ServerGood, DeskTypeOK
  <2>3. CASE outcome \in {"enrolled", "pending"}
    <3>1. \/ desk' = [kept EXCEPT !.faces = {photo}]
          \/ desk' = [kept EXCEPT !.change = photo]
      BY <1>2, <2>3 DEF KeepFace
    <3>2. desk.filed \subseteq rows /\ FiledAs(outcome, photo, rows)
      BY DEF FiledAs
    <3>3. rows \in SUBSET Filing
      BY <2>1, <2>3
    <3> HIDE DEF left0, rows
    <3>4. PICK faces \in {desk.faces, {photo}}, change \in {desk.change, photo} :
            desk' = [desk EXCEPT !.challenge = left0, !.filed = rows,
                                 !.faces = faces, !.change = change]
      BY <2>1, <3>1 DEF DeskTypeOK
    <3>5. faces \in SUBSET (Photos \cup {0}) /\ change \in Photos \cup {0}
      BY <2>1 DEF DeskTypeOK
    <3>6. DeskTypeOK' /\ desk'.records = desk.records /\ desk'.filed = rows
      BY <2>1, <3>3, <3>4, <3>5 DEF DeskTypeOK
    <3> QED BY <2>3, <3>2, <3>6, RowsKept
  <2> QED BY <2>0, <2>2, <2>3
<1> QED BY <1>1, <1>2

LEMMA OthersKeep ==
  ASSUME ServerGood, DecideFace \/ (\E place \in Places : SwitchOff(place)) \/ NewDay
  PROVE  ServerGood' /\ Grows
<1> DeskTypeOK
  BY DEF ServerGood
<1>1. CASE DecideFace
  <2>1. PICK approve \in BOOLEAN :
          desk' = [desk EXCEPT !.change = 0, !.faces = IF approve THEN {desk.change} ELSE @]
    BY <1>1 DEF DecideFace
  <2> DEFINE faces == IF approve THEN {desk.change} ELSE desk.faces
  <2>2. faces \in SUBSET (Photos \cup {0})
    BY DEF DeskTypeOK
  <2>3. desk' = [desk EXCEPT !.change = 0, !.faces = faces]
    BY <2>1
  <2> HIDE DEF faces
  <2>4. DeskTypeOK' /\ desk'.records = desk.records /\ desk'.filed = desk.filed
    BY <2>2, <2>3 DEF DeskTypeOK
  <2> QED BY <2>2, <2>4, RowsKept
<1>2. CASE \E place \in Places : SwitchOff(place)
  BY <1>2, RowsKept DEF SwitchOff, DeskTypeOK
<1>3. CASE NewDay
  <2>1. desk.day + 1 \in 0 .. LastDay
    BY <1>3, DeskAssumption DEF NewDay, DeskTypeOK
  <2>2. DeskTypeOK' /\ desk'.records = desk.records /\ desk'.filed = desk.filed
    BY <1>3, <2>1 DEF NewDay, DeskTypeOK
  <2> QED BY <2>2, RowsKept
<1> QED BY <1>1, <1>2, <1>3

-----------------------------------------------------------------------------
(***************************************************************************)
(* The pages.                                                              *)
(***************************************************************************)

RecordedIn(kind, photo, records) == \E r \in records : r.kind = kind /\ r.photo = photo

\* What the page says is on record.
GoodCheckIn(p, records) ==
  /\ p \in CheckInPages
  /\ p.said # Nothing => RecordedIn(p.said.kind, p.said.photo, records)

GoodEnroll(p, filed) ==
  /\ p \in EnrollPages
  /\ p.said \in {"enrolled", "pending"} => FiledAs(p.said, p.reading, filed)

GoodPage(p, d) == p = Away \/ GoodCheckIn(p, d.records) \/ GoodEnroll(p, d.filed)

\* What does not announce anything.
LEMMA CheckInKept ==
  ASSUME NEW records, NEW p, GoodCheckIn(p, records), NEW q \in CheckInPages,
         q.said \in {p.said, Nothing}
  PROVE  GoodCheckIn(q, records)
  BY DEF GoodCheckIn

LEMMA MyStateTyped ==
  ASSUME DeskTypeOK
  PROVE  /\ MyState \in [state : {"unknown", "NOT_CHECKED_IN", "CHECKED_IN", "DONE_FOR_TODAY"},
                          openPlace : Places \cup {NoPlace}, canCheckIn : BOOLEAN]
         /\ MyPlaces \subseteq Places
<1>1. OpenSession \subseteq Record
  BY DEF OpenSession, Today, DeskTypeOK
<1>2. OpenPlace \in Places \cup {NoPlace}
  <2>1. CASE OpenSession = {}
    BY <2>1 DEF OpenPlace
  <2>2. CASE OpenSession # {}
    <3>1. (CHOOSE r \in OpenSession : TRUE) \in Record
      BY <1>1, <2>2
    <3> QED BY <2>2, <3>1 DEF OpenPlace, Record
  <2> QED BY <2>1, <2>2
<1> QED BY <1>2 DEF MyState, MyPlaces, DeskTypeOK

LEMMA OpenedGood ==
  ASSUME NEW d PROVE GoodPage(OpenedCheckIn, d) /\ GoodPage(OpenedEnroll, d)
<1>1. OpenedCheckIn \in CheckInPages
  BY DEF OpenedCheckIn, CheckInPages, NotLoaded, Nothing, NoPhoto, Phases
<1>2. OpenedEnroll \in EnrollPages
  BY DEF OpenedEnroll, EnrollPages, EnrollPhases
<1> QED BY <1>1, <1>2 DEF GoodPage, GoodCheckIn, GoodEnroll, OpenedCheckIn, OpenedEnroll

LEMMA CheckInHandled ==
  ASSUME NEW records, NEW p, GoodCheckIn(p, records)
  PROVE  /\ \A seen \in [state : {"unknown", "NOT_CHECKED_IN", "CHECKED_IN", "DONE_FOR_TODAY"},
                          openPlace : Places \cup {NoPlace}, canCheckIn : BOOLEAN] :
              /\ GoodCheckIn(AfterRefresh(p, seen), records)
              /\ \A offered \in SUBSET Places, default \in Places \cup {NoPlace} :
                   GoodCheckIn(AfterLoad(p, seen, offered, default), records)
         /\ GoodCheckIn(AfterCapture(p), records) /\ GoodCheckIn(AfterRetake(p), records)
         /\ GoodCheckIn(AfterNoPosition(p), records)
         /\ \A photo \in Photos : GoodCheckIn(AfterPosition(p, photo), records)
         /\ GoodCheckIn(AfterSend(p), records) /\ GoodCheckIn(AfterResend(p), records)
         /\ \A photo \in Photos, kind \in Kinds :
              RecordedIn(kind, photo, records) => GoodCheckIn(AfterSuccess(p, photo, kind), records)
         /\ GoodCheckIn(AfterNeedsReason(p), records)
         /\ \A class : GoodCheckIn(AfterFailure(p, class), records)
<1> p \in CheckInPages
  BY DEF GoodCheckIn
<1>0. ASSUME NEW q \in CheckInPages, q.said = p.said \/ q.said = Nothing
      PROVE  GoodCheckIn(q, records)
  BY <1>0, CheckInKept
<1>1. ASSUME NEW seen \in [state : {"unknown", "NOT_CHECKED_IN", "CHECKED_IN", "DONE_FOR_TODAY"},
                           openPlace : Places \cup {NoPlace}, canCheckIn : BOOLEAN]
      PROVE  /\ GoodCheckIn(AfterRefresh(p, seen), records)
             /\ \A offered \in SUBSET Places, default \in Places \cup {NoPlace} :
                  GoodCheckIn(AfterLoad(p, seen, offered, default), records)
  <2>1. GoodCheckIn(AfterRefresh(p, seen), records)
    <3>1. AfterRefresh(p, seen) \in CheckInPages /\ AfterRefresh(p, seen).said = p.said
      BY DEF CheckInPages, AfterRefresh
    <3> QED BY <1>0, <3>1
  <2>2. ASSUME NEW offered \in SUBSET Places, NEW default \in Places \cup {NoPlace}
        PROVE  GoodCheckIn(AfterLoad(p, seen, offered, default), records)
    <3> DEFINE place == IF seen.openPlace # NoPlace THEN seen.openPlace ELSE default
    <3>1. place \in Places \cup {NoPlace}
      OBVIOUS
    <3>2. AfterLoad(p, seen, offered, default)
            = [p EXCEPT !.seen = seen, !.offered = offered, !.place = place]
      BY DEF AfterLoad
    <3> HIDE DEF place
    <3>3. AfterLoad(p, seen, offered, default) \in CheckInPages
      BY <3>1, <3>2 DEF CheckInPages
    <3>4. AfterLoad(p, seen, offered, default).said = p.said
      BY <3>2 DEF CheckInPages
    <3> QED BY <1>0, <3>3, <3>4
  <2> QED BY <2>1, <2>2
<1>2. GoodCheckIn(AfterCapture(p), records) /\ GoodCheckIn(AfterSend(p), records)
        /\ GoodCheckIn(AfterNoPosition(p), records) /\ GoodCheckIn(AfterNeedsReason(p), records)
  <2>1. LET q == AfterCapture(p) IN q \in CheckInPages /\ q.said = p.said
    BY DEF CheckInPages, AfterCapture, Phases
  <2>2. LET q == AfterNoPosition(p) IN q \in CheckInPages /\ q.said = p.said
    BY DEF CheckInPages, AfterNoPosition, Phases
  <2>3. LET q == AfterNeedsReason(p) IN q \in CheckInPages /\ q.said = p.said
    BY DEF CheckInPages, AfterNeedsReason, Phases
  <2> QED BY <1>0, <2>1, <2>2, <2>3 DEF AfterSend, AfterCapture
<1>3. GoodCheckIn(AfterRetake(p), records)
  <2>1. AfterRetake(p) \in CheckInPages
    BY DEF CheckInPages, AfterRetake, Phases, NoPhoto, Nothing
  <2>2. AfterRetake(p).said = Nothing
    BY DEF CheckInPages, AfterRetake
  <2> QED BY <1>0, <2>1, <2>2
<1>4. ASSUME NEW photo \in Photos PROVE GoodCheckIn(AfterPosition(p, photo), records)
  <2>1. AfterPosition(p, photo) \in CheckInPages /\ AfterPosition(p, photo).said = p.said
    BY DEF CheckInPages, AfterPosition
  <2> QED BY <1>0, <2>1
<1>5. GoodCheckIn(AfterResend(p), records)
  <2>1. LET q == [p EXCEPT !.retryable = FALSE, !.phase = "working"]
        IN  q \in CheckInPages /\ q.said = p.said
    BY DEF CheckInPages, Phases
  <2>2. AfterResend(p) = [p EXCEPT !.retryable = FALSE, !.phase = "working"]
    BY DEF AfterResend, AfterSend, CheckInPages
  <2> QED BY <1>0, <2>1, <2>2
<1>6. ASSUME NEW photo \in Photos, NEW kind \in Kinds, RecordedIn(kind, photo, records)
      PROVE  GoodCheckIn(AfterSuccess(p, photo, kind), records)
  <2> DEFINE said == [kind |-> kind, photo |-> photo]
             q == AfterSuccess(p, photo, kind)
  <2>1. said \in [kind : Kinds \cup {"nothing"}, photo : Photos \cup {NoPhoto}]
    OBVIOUS
  <2>2. said.kind = kind /\ said.photo = photo
    OBVIOUS
  <2>3. q = [p EXCEPT !.phase = "done", !.said = said, !.needsReason = FALSE, !.reason = FALSE,
                      !.retryable = FALSE, !.held = NoPhoto]
    BY DEF AfterSuccess
  <2>0. NoPhoto \in Photos \cup {NoPhoto} /\ "done" \in Phases
    BY DEF Phases
  <2> HIDE DEF said
  <2>4. q \in CheckInPages
    BY <2>0, <2>1, <2>3 DEF CheckInPages
  <2>5. q.said = said
    BY <2>3 DEF CheckInPages
  <2> QED BY <1>6, <2>2, <2>4, <2>5 DEF GoodCheckIn
<1>7. ASSUME NEW class PROVE GoodCheckIn(AfterFailure(p, class), records)
  <2> DEFINE retry == class = "transport" /\ p.held # NoPhoto
             block == class = "refused"
  <2>1. retry \in BOOLEAN /\ block \in BOOLEAN
    OBVIOUS
  <2>2. AfterFailure(p, class) = [p EXCEPT !.phase = "failed", !.retryable = retry, !.blocked = block]
    BY DEF AfterFailure
  <2> HIDE DEF retry, block
  <2>3. LET q == AfterFailure(p, class) IN q \in CheckInPages /\ q.said = p.said
    BY <2>1, <2>2 DEF CheckInPages, Phases
  <2> QED BY <1>0, <2>3
<1> QED BY <1>1, <1>2, <1>3, <1>4, <1>5, <1>6, <1>7

\* What is typed or picked on the page.
LEMMA CheckInTyped ==
  ASSUME NEW records, NEW p, GoodCheckIn(p, records)
  PROVE  /\ \A v \in BOOLEAN : GoodCheckIn([p EXCEPT !.reason = v], records)
         /\ \A v \in BOOLEAN : GoodCheckIn([p EXCEPT !.placeReason = v], records)
         /\ \A place \in Places : GoodCheckIn([p EXCEPT !.place = place], records)
<1> p \in CheckInPages
  BY DEF GoodCheckIn
<1>1. \A v \in BOOLEAN :
        LET q == [p EXCEPT !.reason = v] IN q \in CheckInPages /\ q.said = p.said
  BY DEF CheckInPages
<1>2. \A v \in BOOLEAN :
        LET q == [p EXCEPT !.placeReason = v] IN q \in CheckInPages /\ q.said = p.said
  BY DEF CheckInPages
<1>3. \A place \in Places :
        LET q == [p EXCEPT !.place = place] IN q \in CheckInPages /\ q.said = p.said
  BY DEF CheckInPages
<1> QED BY <1>1, <1>2, <1>3, CheckInKept

LEMMA EnrollHandled ==
  ASSUME NEW filed, NEW p, GoodEnroll(p, filed)
  PROVE  /\ \A enrolled \in BOOLEAN : GoodEnroll(AfterFaceStatus(p, enrolled), filed)
         /\ \A photo \in Photos \cup {0} : GoodEnroll(AfterEnrollCapture(p, photo), filed)
         /\ GoodEnroll(AfterSubmit(p), filed)
         /\ \A photo \in Photos : \A outcome :
              (outcome \in {"enrolled", "pending"} => FiledAs(outcome, photo, filed))
                 => GoodEnroll(AfterVerdict(p, photo, outcome), filed)
         /\ GoodEnroll(AfterStatusLost(p), filed)
         /\ GoodEnroll([p EXCEPT !.reason = ~@], filed)
<1> p \in EnrollPages
  BY DEF GoodEnroll
<1>0. ASSUME NEW q \in EnrollPages, q.said = p.said, q.reading = p.reading
      PROVE  GoodEnroll(q, filed)
  BY <1>0 DEF GoodEnroll
<1>1. ASSUME NEW enrolled \in BOOLEAN PROVE GoodEnroll(AfterFaceStatus(p, enrolled), filed)
  <2>1. LET q == AfterFaceStatus(p, enrolled) IN q \in EnrollPages /\ q.said = p.said /\ q.reading = p.reading
    BY DEF EnrollPages, AfterFaceStatus
  <2> QED BY <1>0, <2>1
<1>2. ASSUME NEW photo \in Photos \cup {0} PROVE GoodEnroll(AfterEnrollCapture(p, photo), filed)
  <2>1. LET q == AfterEnrollCapture(p, photo) IN q \in EnrollPages /\ q.said = "nothing"
    BY DEF EnrollPages, AfterEnrollCapture, EnrollPhases
  <2> QED BY <2>1 DEF GoodEnroll
<1>3. GoodEnroll(AfterSubmit(p), filed) /\ GoodEnroll(AfterStatusLost(p), filed)
  <2>1. LET q == AfterSubmit(p) IN q \in EnrollPages /\ q.said = p.said /\ q.reading = p.reading
    BY DEF EnrollPages, AfterSubmit, EnrollPhases
  <2>2. LET q == AfterStatusLost(p) IN q \in EnrollPages /\ q.said = p.said /\ q.reading = p.reading
    BY DEF EnrollPages, AfterStatusLost, EnrollPhases
  <2> QED BY <1>0, <2>1, <2>2
<1>4. ASSUME NEW photo \in Photos, NEW outcome,
             outcome \in {"enrolled", "pending"} => FiledAs(outcome, photo, filed)
      PROVE  GoodEnroll(AfterVerdict(p, photo, outcome), filed)
  <2>1. CASE outcome \in {"enrolled", "pending"}
    <3>1. LET q == AfterVerdict(p, photo, outcome)
          IN  q \in EnrollPages /\ q.said = outcome /\ q.reading = photo
      BY <2>1 DEF EnrollPages, AfterVerdict, EnrollPhases
    <3> QED BY <1>4, <2>1, <3>1 DEF GoodEnroll
  <2>2. CASE outcome \notin {"enrolled", "pending"}
    <3>1. LET q == AfterVerdict(p, photo, outcome) IN q \in EnrollPages /\ q.said = "refused"
      BY <2>2 DEF EnrollPages, AfterVerdict, EnrollPhases
    <3> QED BY <3>1 DEF GoodEnroll
  <2> QED BY <2>1, <2>2
<1>5. GoodEnroll([p EXCEPT !.reason = ~@], filed)
  <2>1. (~p.reason) \in BOOLEAN
    OBVIOUS
  <2>2. LET q == [p EXCEPT !.reason = ~@] IN q \in EnrollPages /\ q.said = p.said /\ q.reading = p.reading
    BY <2>1 DEF EnrollPages
  <2> QED BY <1>0, <2>2
<1> QED BY <1>1, <1>2, <1>3, <1>4, <1>5

-----------------------------------------------------------------------------
(***************************************************************************)
(* The handlers, and the phone.                                            *)
(***************************************************************************)

\* What a handler carries, and what its answer stands for.
GoodCall(k, d) ==
  /\ k \in Call
  /\ k.stage \in {"locating", "sent"} => k.ask.kind \in Kinds
  /\ k.stage \in {"start", "verify", "checked"} => k.ask.kind = "ENROLL"
  /\ k.stage = "answered" =>
       /\ k.answer \in IF k.ask.kind = "ENROLL" THEN {"refused", "enrolled", "pending"}
                       ELSE {"ok", "reason", "again", "refused"}
       /\ k.answer = "ok" => RecordedIn(k.ask.kind, k.ask.photo, d.records)
       /\ k.answer \in {"enrolled", "pending"} => FiledAs(k.answer, k.ask.photo, d.filed)

\* One that still works for the page works for the page on screen.
OnScreen(k, screen) ==
  k.by = "page" =>
    /\ k.ask.kind = "ENROLL" => screen = "enroll"
    /\ k.ask.kind \in Kinds => screen = "checkin"

CallsGood(cs, screen, d) ==
  /\ cs \in [Calls -> {Free} \cup Call]
  /\ \A c \in Calls : cs[c] # Free => GoodCall(cs[c], d) /\ OnScreen(cs[c], screen)

PhoneInv ==
  /\ ServerGood
  /\ CamOK(cam)
  /\ tab \in {"visible", "hidden"}
  /\ GoodPage(page, desk)
  /\ CallsGood(calls, page.screen, desk)
  /\ shots \in 0 .. MaxPhotos
  /\ left \in Bound
  /\ shots + left.photos <= MaxPhotos

LEMMA PageKinds ==
  ASSUME NEW d, NEW p
  PROVE  /\ GoodCheckIn(p, d.records) => GoodPage(p, d) /\ p.screen = "checkin"
         /\ GoodEnroll(p, d.filed) => GoodPage(p, d) /\ p.screen = "enroll"
         /\ Away.screen = "away"
  BY DEF GoodPage, GoodCheckIn, GoodEnroll, CheckInPages, EnrollPages, Away

LEMMA PageOf ==
  ASSUME PhoneInv
  PROVE  /\ OnCheckIn => GoodCheckIn(page, desk.records)
         /\ OnEnroll => GoodEnroll(page, desk.filed)
         /\ page # Away => OnCheckIn \/ OnEnroll
         /\ ~(OnCheckIn /\ OnEnroll)
  BY PageKinds DEF PhoneInv, GoodPage, OnCheckIn, OnEnroll

\* What is true of a page or a handler stays true as the rows grow.
LEMMA StillTrue ==
  ASSUME Grows
  PROVE  /\ \A p : GoodPage(p, desk) => GoodPage(p, desk')
         /\ \A k : GoodCall(k, desk) => GoodCall(k, desk')
<1>1. \A kind, photo : RecordedIn(kind, photo, desk.records) => RecordedIn(kind, photo, desk'.records)
  BY DEF Grows, RecordedIn
<1>2. \A verdict, photo : FiledAs(verdict, photo, desk.filed) => FiledAs(verdict, photo, desk'.filed)
  BY DEF Grows, FiledAs
<1>3. ASSUME NEW p, GoodPage(p, desk) PROVE GoodPage(p, desk')
  BY <1>1, <1>2, <1>3 DEF GoodPage, GoodCheckIn, GoodEnroll
<1>4. ASSUME NEW k, GoodCall(k, desk) PROVE GoodCall(k, desk')
  BY <1>1, <1>2, <1>4 DEF GoodCall
<1> QED BY <1>3, <1>4

LEMMA TurnGood ==
  ASSUME NEW p, NEW c, CamOK(c), Turn(p, c)
  PROVE  page' = p /\ CamOK(cam')
  BY MountedCam DEF Turn, CamOK

\* One handler moves on; the page on screen stays of its kind.
LEMMA Step ==
  ASSUME PhoneInv, ServerGood', Grows, CamOK(cam'), tab' \in {"visible", "hidden"},
         GoodPage(page', desk'), page'.screen = page.screen,
         NEW c \in Calls, NEW k, k # Free => GoodCall(k, desk') /\ OnScreen(k, page.screen),
         Became(c, k), shots' = shots, left' = left
  PROVE  PhoneInv'
<1>1. calls \in [Calls -> {Free} \cup Call] /\ calls' = [calls EXCEPT ![c] = k]
  BY DEF PhoneInv, CallsGood, Became
<1>2. k \in {Free} \cup Call
  BY DEF GoodCall
<1>3. calls' \in [Calls -> {Free} \cup Call]
  BY <1>1, <1>2
<1>4. ASSUME NEW d \in Calls, calls'[d] # Free
      PROVE  GoodCall(calls'[d], desk') /\ OnScreen(calls'[d], page'.screen)
  <2>1. CASE d = c
    BY <1>1, <1>4, <2>1
  <2>2. CASE d # c
    <3>1. calls'[d] = calls[d]
      BY <1>1, <2>2
    <3> QED BY <1>4, <3>1, StillTrue DEF PhoneInv, CallsGood
  <2> QED BY <2>1, <2>2
<1>5. CallsGood(calls', page'.screen, desk')
  BY <1>3, <1>4 DEF CallsGood
<1> QED BY <1>5 DEF PhoneInv

\* No handler moves.
LEMMA Still ==
  ASSUME PhoneInv, ServerGood', Grows, CamOK(cam'), tab' \in {"visible", "hidden"},
         GoodPage(page', desk'), page'.screen = page.screen, calls' = calls, shots' = shots,
         left' \in Bound, left'.photos = left.photos
  PROVE  PhoneInv'
<1>1. CallsGood(calls', page'.screen, desk')
  BY StillTrue DEF PhoneInv, CallsGood
<1> QED BY <1>1 DEF PhoneInv

LEMMA Untouched ==
  ASSUME PhoneInv, desk' = desk
  PROVE  /\ ServerGood' /\ Grows
         /\ \A p : GoodPage(p, desk) => GoodPage(p, desk')
         /\ \A k : GoodCall(k, desk) => GoodCall(k, desk')
<1>1. ServerGood'
  BY DEF PhoneInv, ServerGood, DeskTypeOK, OneSessionOfManySends
<1>2. Grows
  BY DEF Grows
<1> QED BY <1>1, <1>2, StillTrue

LEMMA Spent ==
  ASSUME PhoneInv, NEW what \in {"opens", "hides", "offs", "days"}, Spend(what)
  PROVE  left' \in Bound /\ left'.photos = left.photos
<1>1. left \in Bound /\ left[what] > 0 /\ left' = [left EXCEPT ![what] = @ - 1]
  BY DEF PhoneInv, Spend
<1>2. left[what] \in Nat
  BY <1>1 DEF Bound
<1>3. left[what] - 1 \in Nat
  BY <1>1, <1>2
<1> QED BY <1>1, <1>3 DEF Bound

LEMMA AtWork ==
  ASSUME PhoneInv, NEW c \in Calls, calls[c] # Free
  PROVE  /\ GoodCall(calls[c], desk) /\ OnScreen(calls[c], page.screen)
         /\ calls[c] \in Call /\ calls[c].ask \in Request
  BY DEF PhoneInv, CallsGood, GoodCall, Call

LEMMA AtStage ==
  ASSUME NEW c \in Calls, NEW stage, At(c, stage), stage # "free"
  PROVE  calls[c] # Free
  BY DEF At, Free

\* The page that a handler works for is of its kind.
LEMMA Mine ==
  ASSUME PhoneInv, NEW c \in Calls, calls[c] # Free, calls[c].by = "page"
  PROVE  /\ calls[c].ask.kind = "ENROLL" => OnEnroll /\ GoodEnroll(page, desk.filed)
         /\ calls[c].ask.kind \in Kinds => OnCheckIn /\ GoodCheckIn(page, desk.records)
         /\ calls[c].ask.kind = "ENROLL" \/ calls[c].ask.kind \in Kinds
  BY AtWork, PageOf DEF OnScreen, Request, OnCheckIn, OnEnroll

LEMMA TellsGood ==
  ASSUME PhoneInv, NEW c \in Calls, NEW p, Tells(c, p),
         calls[c].by = "page" => GoodPage(p, desk) /\ p.screen = page.screen
  PROVE  CamOK(cam') /\ GoodPage(page', desk) /\ page'.screen = page.screen
<1>1. CamOK(cam) /\ GoodPage(page, desk)
  BY DEF PhoneInv
<1>2. CASE calls[c].by = "page"
  BY <1>1, <1>2, TurnGood DEF Tells
<1>3. CASE calls[c].by # "page"
  BY <1>1, <1>3 DEF Tells
<1> QED BY <1>2, <1>3

\* A handler goes on to another stage.
LEMMA Onward ==
  ASSUME NEW k \in Call, NEW stage \in {"locating", "sent", "start", "verify", "checked", "refresh"},
         stage \in {"locating", "sent"} => k.ask.kind \in Kinds,
         stage \in {"start", "verify", "checked"} => k.ask.kind = "ENROLL", NEW d
  PROVE  LET l == [k EXCEPT !.stage = stage]
         IN  GoodCall(l, d) /\ l.by = k.by /\ l.ask = k.ask
<1> DEFINE l == [k EXCEPT !.stage = stage]
<1>1. l \in Call
  BY DEF Call
<1>2. l.by = k.by /\ l.ask = k.ask /\ l.stage = stage
  BY DEF Call
<1> QED BY <1>1, <1>2 DEF GoodCall

LEMMA GivenUp ==
  ASSUME NEW d, NEW k, GoodCall(k, d), NEW by \in {"past", "lost"}
  PROVE  GoodCall([k EXCEPT !.by = by], d) /\ [k EXCEPT !.by = by].by = by
<1> DEFINE l == [k EXCEPT !.by = by]
<1>1. k \in Call
  BY DEF GoodCall
<1>2. l \in Call
  BY <1>1 DEF Call
<1>3. l.by = by /\ l.ask = k.ask /\ l.stage = k.stage /\ l.answer = k.answer
  BY <1>1 DEF Call
<1> QED BY <1>2, <1>3 DEF GoodCall

-----------------------------------------------------------------------------
(***************************************************************************)
(* Every action keeps the invariant.                                       *)
(***************************************************************************)

\* Only the page on screen changes, to one of its kind.
LEMMA Turned ==
  ASSUME PhoneInv, NEW p, GoodPage(p, desk), p.screen = page.screen,
         NEW c, CamOK(c), Turn(p, c), UNCHANGED <<tab, desk, calls, shots, left>>
  PROVE  PhoneInv'
<1>1. page' = p /\ CamOK(cam')
  BY TurnGood
<1>2. ServerGood' /\ Grows /\ GoodPage(page', desk')
  BY <1>1, Untouched
<1>3. left' \in Bound /\ left'.photos = left.photos /\ tab' \in {"visible", "hidden"}
  BY DEF PhoneInv
<1> QED BY <1>1, <1>2, <1>3, Still

\* What a handler does to its page as it moves on.
LEMMA Told ==
  ASSUME PhoneInv, NEW c \in Calls, NEW k,
         k # Free => GoodCall(k, desk) /\ OnScreen(k, page.screen), Became(c, k),
         NEW p, Tells(c, p), calls[c].by = "page" => GoodPage(p, desk) /\ p.screen = page.screen,
         UNCHANGED <<tab, desk, shots, left>>
  PROVE  PhoneInv'
<1>1. CamOK(cam') /\ GoodPage(page', desk) /\ page'.screen = page.screen
  BY TellsGood
<1>2. ServerGood' /\ Grows /\ GoodPage(page', desk') /\ (k # Free => GoodCall(k, desk'))
  BY <1>1, Untouched
<1>3. tab' \in {"visible", "hidden"}
  BY DEF PhoneInv
<1> QED BY <1>1, <1>2, <1>3, Step

LEMMA OpenGood ==
  ASSUME PhoneInv, Open(OpenedCheckIn) \/ Open(OpenedEnroll)
  PROVE  PhoneInv'
<1>1. PICK p \in {OpenedCheckIn, OpenedEnroll} : Open(p)
  OBVIOUS
<1>2. page' = p /\ CamOK(cam')
  BY <1>1, TurnGood DEF Open, CamOK
<1>3. ServerGood' /\ Grows /\ GoodPage(page', desk')
  BY <1>1, <1>2, OpenedGood, Untouched DEF Open
<1>4. left' \in Bound /\ left'.photos = left.photos
  BY <1>1, Spent DEF Open
<1>5. \A c \in Calls : calls[c] # Free => calls[c].by \in {"past", "lost"}
  <2> SUFFICES ASSUME NEW c \in Calls, calls[c] # Free PROVE calls[c].by # "page"
    BY AtWork DEF Call
  <2> QED BY <1>1, Mine, PageKinds DEF Open, OnCheckIn, OnEnroll
<1>6. CallsGood(calls', page'.screen, desk')
  BY <1>1, <1>3, <1>5, StillTrue DEF Open, PhoneInv, CallsGood, OnScreen
<1> QED BY <1>1, <1>2, <1>3, <1>4, <1>6 DEF Open, PhoneInv

LEMMA LeaveGood ==
  ASSUME PhoneInv, Leave PROVE PhoneInv'
<1>1. /\ page' = Away /\ CamOK(cam') /\ calls' = LeftBehind
      /\ UNCHANGED <<tab, desk, shots, left>>
  BY TurnGood DEF Leave, PhoneInv
<1>2. ASSUME NEW c \in Calls, calls'[c] # Free
      PROVE  GoodCall(calls'[c], desk) /\ calls'[c].by # "page"
  <2>0. calls[c] # Free
    BY <1>1, <1>2 DEF LeftBehind
  <2>1. CASE calls[c].by = "lost"
    BY <1>1, <2>0, <2>1, AtWork DEF LeftBehind
  <2>2. CASE calls[c].by # "lost"
    <3>1. calls'[c] = [calls[c] EXCEPT !.by = "past"]
      BY <1>1, <2>0, <2>2 DEF LeftBehind
    <3>2. GoodCall(calls[c], desk)
      BY <2>0, AtWork
    <3>3. /\ GoodCall([calls[c] EXCEPT !.by = "past"], desk)
          /\ [calls[c] EXCEPT !.by = "past"].by = "past"
      BY <3>2, GivenUp
    <3> QED BY <3>1, <3>3
  <2> QED BY <2>1, <2>2
<1>3. calls' \in [Calls -> {Free} \cup Call]
  BY <1>1, <1>2 DEF LeftBehind, GoodCall
<1>4. CallsGood(calls', page'.screen, desk')
  BY <1>1, <1>2, <1>3, Untouched DEF CallsGood, OnScreen
<1>5. ServerGood' /\ GoodPage(page', desk')
  BY <1>1, Untouched DEF GoodPage
<1> QED BY <1>1, <1>4, <1>5 DEF PhoneInv

LEMMA LoadGood ==
  ASSUME PhoneInv, Load \/ LoadFace PROVE PhoneInv'
<1>1. CASE Load
  <2>1. OnCheckIn /\ UNCHANGED <<tab, desk, calls, shots, left>>
    BY <1>1 DEF Load
  <2>2. PICK default \in MyPlaces \cup {NoPlace} :
           Turn(AfterLoad(page, MyState, MyPlaces, default), cam)
    BY <1>1 DEF Load
  <2>3. GoodCheckIn(AfterLoad(page, MyState, MyPlaces, default), desk.records)
    BY <2>1, PageOf, MyStateTyped, CheckInHandled DEF PhoneInv, ServerGood
  <2> QED BY <2>1, <2>2, <2>3, PageKinds, Turned DEF PhoneInv, OnCheckIn
<1>2. CASE LoadFace
  <2>1. /\ OnEnroll /\ UNCHANGED <<tab, desk, calls, shots, left>>
        /\ Turn(AfterFaceStatus(page, TRUE), cam)
    BY <1>2 DEF LoadFace
  <2>2. GoodEnroll(AfterFaceStatus(page, TRUE), desk.filed)
    BY <2>1, PageOf, EnrollHandled
  <2> QED BY <2>1, <2>2, PageKinds, Turned DEF PhoneInv, OnEnroll
<1> QED BY <1>1, <1>2

LEMMA TypesGood ==
  ASSUME PhoneInv, Types PROVE PhoneInv'
<1>0. UNCHANGED <<tab, desk, calls, shots, left>>
  BY DEF Types
<1>1. ASSUME OnCheckIn, NEW p, GoodCheckIn(p, desk.records), Turn(p, cam) PROVE PhoneInv'
  BY <1>0, <1>1, PageKinds, Turned DEF PhoneInv, OnCheckIn
<1>2. CASE OnCheckIn /\ Turn([page EXCEPT !.reason = ~@], cam)
  <2> DEFINE v == ~page.reason
             p == [page EXCEPT !.reason = v]
  <2>1. GoodCheckIn(page, desk.records) /\ v \in BOOLEAN /\ Turn(p, cam)
    BY <1>2, PageOf
  <2> HIDE DEF v
  <2>2. GoodCheckIn(p, desk.records)
    BY <2>1, CheckInTyped
  <2> HIDE DEF p
  <2> QED BY <1>1, <1>2, <2>1, <2>2
<1>4. CASE OnCheckIn /\ Turn([page EXCEPT !.placeReason = ~@], cam)
  <2> DEFINE v == ~page.placeReason
             p == [page EXCEPT !.placeReason = v]
  <2>1. GoodCheckIn(page, desk.records) /\ v \in BOOLEAN /\ Turn(p, cam)
    BY <1>4, PageOf
  <2> HIDE DEF v
  <2>2. GoodCheckIn(p, desk.records)
    BY <2>1, CheckInTyped
  <2> HIDE DEF p
  <2> QED BY <1>1, <1>4, <2>1, <2>2
<1>5. ASSUME NEW place \in Places, OnCheckIn, Turn([page EXCEPT !.place = place], cam)
      PROVE  PhoneInv'
  <2>1. GoodCheckIn(page, desk.records)
    BY <1>5, PageOf
  <2> DEFINE p == [page EXCEPT !.place = place]
  <2>2. GoodCheckIn(p, desk.records) /\ Turn(p, cam)
    BY <1>5, <2>1, CheckInTyped
  <2> HIDE DEF p
  <2> QED BY <1>1, <1>5, <2>2
<1>3. CASE OnEnroll /\ Turn([page EXCEPT !.reason = ~@], cam)
  <2>1. GoodEnroll([page EXCEPT !.reason = ~@], desk.filed)
    BY <1>3, PageOf, EnrollHandled
  <2> QED BY <1>0, <1>3, <2>1, PageKinds, Turned DEF PhoneInv, OnEnroll
<1> QED BY <1>2, <1>3, <1>4, <1>5 DEF Types

\* The camera alone, and the tab.
LEMMA CameraGood ==
  ASSUME PhoneInv, OpensCamera \/ Guides \/ Opens \/ Hides PROVE PhoneInv'
<1>1. CamOK(cam') /\ tab' \in {"visible", "hidden"}
  BY CamSteps DEF OpensCamera, Guides, Opens, Hides, PhoneInv
<1>2. page' = page /\ calls' = calls /\ shots' = shots /\ desk' = desk
  BY DEF OpensCamera, Guides, Opens, Hides
<1>3. left' \in Bound /\ left'.photos = left.photos
  BY Spent DEF OpensCamera, Guides, Opens, Hides, PhoneInv
<1>4. ServerGood' /\ Grows /\ GoodPage(page', desk')
  BY <1>2, Untouched DEF PhoneInv
<1> QED BY <1>1, <1>2, <1>3, <1>4, Still

\* A new handler.
LEMMA Begun ==
  ASSUME NEW stage \in {"encoding", "sent", "start"}, NEW ask \in Request,
         stage = "sent" => ask.kind \in Kinds, stage = "start" => ask.kind = "ENROLL", NEW d
  PROVE  GoodCall([stage |-> stage, ask |-> ask, by |-> "page", answer |-> "none"], d)
  BY DEF GoodCall, Call, Answers

LEMMA Asked ==
  ASSUME NEW p \in CheckInPages, NEW photo \in Photos
  PROVE  /\ Asks(p, photo) \in Request /\ Asks(p, photo).kind \in Kinds
         /\ AsksWithReason(p, photo) \in Request /\ AsksWithReason(p, photo).kind \in Kinds
<1>1. /\ Asks(p, photo) \in Request /\ Asks(p, photo).kind \in Kinds
  BY DEF Asks, Request, CheckInPages, Kinds, CheckedIn, MovedPlace
<1>2. p.reason \in BOOLEAN
  BY DEF CheckInPages
<1> QED BY <1>1, <1>2 DEF AsksWithReason, Request

LEMMA KindsApart == "ENROLL" \notin Kinds
  BY DEF Kinds

LEMMA PressGood ==
  ASSUME PhoneInv, NEW c \in Calls, PressShutter(c) PROVE PhoneInv'
<1> DEFINE ask == IF OnCheckIn THEN Asks(page, shots + 1)
                  ELSE [photo |-> shots + 1, kind |-> "ENROLL", place |-> NoPlace,
                        reasoned |-> FALSE]
           k == [stage |-> "encoding", ask |-> ask, by |-> "page", answer |-> "none"]
<1>1. /\ page # Away /\ Spend("photos") /\ shots' = shots + 1 /\ Became(c, k)
      /\ UNCHANGED <<cam, tab, desk, page>>
  BY DEF PressShutter, Begin
<1>2. /\ left \in Bound /\ left.photos > 0 /\ left' = [left EXCEPT !.photos = @ - 1]
      /\ left.photos \in 0 .. MaxPhotos /\ shots \in 0 .. MaxPhotos
      /\ shots + left.photos <= MaxPhotos /\ MaxPhotos \in Nat
  BY <1>1, DeskAssumption DEF PhoneInv, Spend, Bound
<1>3. left.photos - 1 \in 0 .. MaxPhotos /\ shots + 1 \in Photos
  BY <1>2 DEF Photos
<1>4. left' \in Bound /\ left'.photos = left.photos - 1
  BY <1>2, <1>3 DEF Bound
<1>5. ask \in Request /\ (ask.kind = "ENROLL" => OnEnroll) /\ (ask.kind \in Kinds => OnCheckIn)
  <2>1. CASE OnCheckIn
    BY <1>3, <2>1, PageOf, Asked, KindsApart DEF GoodCheckIn
  <2>2. CASE ~OnCheckIn
    BY <1>1, <1>3, <2>2, PageOf, KindsApart DEF Request
  <2> QED BY <2>1, <2>2
<1> HIDE DEF ask
<1>6. GoodCall(k, desk) /\ OnScreen(k, page.screen)
  BY <1>5, Begun DEF OnScreen, OnCheckIn, OnEnroll
<1> HIDE DEF k
<1>7. CallsGood(calls', page.screen, desk)
  <2>1. calls \in [Calls -> {Free} \cup Call] /\ calls' = [calls EXCEPT ![c] = k]
    BY <1>1 DEF PhoneInv, CallsGood, Became
  <2>2. k \in Call
    BY <1>6 DEF GoodCall
  <2> QED BY <1>6, <2>1, <2>2 DEF PhoneInv, CallsGood
<1>8. ServerGood' /\ GoodPage(page', desk') /\ CallsGood(calls', page'.screen, desk')
  BY <1>1, <1>7, Untouched DEF PhoneInv
<1>9. shots' \in 0 .. MaxPhotos /\ shots' + left'.photos <= MaxPhotos
  BY <1>1, <1>2, <1>4
<1> QED BY <1>1, <1>4, <1>8, <1>9 DEF PhoneInv

LEMMA RetakeGood ==
  ASSUME PhoneInv, Retake PROVE PhoneInv'
<1>1. /\ page # Away /\ IsMounted /\ UNCHANGED <<tab, desk, calls, shots, left>>
      /\ Turn(IF OnCheckIn THEN AfterRetake(page) ELSE AfterEnrollCapture(page, 0), Retaken(cam))
  BY DEF Retake, RetakeOffered
<1>2. CamOK(Retaken(cam))
  BY <1>1, StreamsGood DEF PhoneInv, CamOK, IsMounted
<1>3. CASE OnCheckIn
  <2>1. GoodCheckIn(AfterRetake(page), desk.records)
    BY <1>3, PageOf, CheckInHandled
  <2> QED BY <1>1, <1>2, <1>3, <2>1, PageKinds, Turned DEF OnCheckIn
<1>4. CASE ~OnCheckIn
  <2>1. OnEnroll
    BY <1>1, <1>4, PageOf
  <2>2. GoodEnroll(AfterEnrollCapture(page, 0), desk.filed)
    BY <2>1, PageOf, EnrollHandled
  <2> QED BY <1>1, <1>2, <1>4, <2>1, <2>2, PageKinds, Turned DEF OnEnroll
<1> QED BY <1>3, <1>4

\* A button sends a request, and the page works.
LEMMA SentGood ==
  ASSUME PhoneInv, NEW c \in Calls, NEW k, GoodCall(k, desk), OnScreen(k, page.screen),
         Became(c, k), NEW p, GoodPage(p, desk), p.screen = page.screen, Turn(p, cam),
         UNCHANGED <<tab, desk, shots, left>>
  PROVE  PhoneInv'
<1>1. page' = p /\ CamOK(cam')
  BY TurnGood DEF PhoneInv
<1>2. ServerGood' /\ Grows /\ GoodPage(page', desk') /\ GoodCall(k, desk')
  BY <1>1, Untouched
<1>3. tab' \in {"visible", "hidden"}
  BY DEF PhoneInv
<1> QED BY <1>1, <1>2, <1>3, Step

LEMMA SendsGood ==
  ASSUME PhoneInv, NEW c \in Calls, Confirm(c) \/ Resend(c) \/ Submit(c) PROVE PhoneInv'
<1>1. CASE Confirm(c) \/ Resend(c)
  <2> DEFINE ask == AsksWithReason(page, page.held)
             k == [stage |-> "sent", ask |-> ask, by |-> "page", answer |-> "none"]
  <2>1. /\ OnCheckIn /\ page.held # NoPhoto /\ Became(c, k)
        /\ UNCHANGED <<tab, desk, shots, left>>
        /\ Turn(AfterSend(page), cam) \/ Turn(AfterResend(page), cam)
    BY <1>1 DEF Confirm, Resend, Begin, ConfirmOffered, ResendOffered
  <2>2. GoodCheckIn(page, desk.records) /\ page \in CheckInPages
    BY <2>1, PageOf DEF GoodCheckIn
  <2>3. page.held \in Photos
    BY <2>1, <2>2 DEF CheckInPages
  <2>4. ask \in Request /\ ask.kind \in Kinds
    BY <2>2, <2>3, Asked
  <2> HIDE DEF ask
  <2>5. GoodCall(k, desk) /\ OnScreen(k, page.screen)
    BY <2>1, <2>4, Begun, KindsApart DEF OnScreen, OnCheckIn
  <2> HIDE DEF k
  <2>6. GoodCheckIn(AfterSend(page), desk.records) /\ GoodCheckIn(AfterResend(page), desk.records)
    BY <2>2, CheckInHandled
  <2> QED BY <2>1, <2>5, <2>6, PageKinds, SentGood DEF OnCheckIn
<1>2. CASE Submit(c)
  <2> DEFINE ask == [photo |-> page.captured, kind |-> "ENROLL", place |-> NoPlace,
                     reasoned |-> page.reason]
             k == [stage |-> "start", ask |-> ask, by |-> "page", answer |-> "none"]
  <2>1. /\ OnEnroll /\ page.captured # 0 /\ Became(c, k) /\ Turn(AfterSubmit(page), cam)
        /\ UNCHANGED <<tab, desk, shots, left>>
    BY <1>2 DEF Submit, Begin, SubmitOffered
  <2>2. GoodEnroll(page, desk.filed) /\ page \in EnrollPages
    BY <2>1, PageOf DEF GoodEnroll
  <2>3. page.captured \in Photos /\ page.reason \in BOOLEAN
    BY <2>1, <2>2 DEF EnrollPages
  <2>4. ask \in Request /\ ask.kind = "ENROLL"
    BY <2>3 DEF Request
  <2> HIDE DEF ask
  <2>5. GoodCall(k, desk) /\ OnScreen(k, page.screen)
    BY <2>1, <2>4, Begun, KindsApart DEF OnScreen, OnEnroll
  <2> HIDE DEF k
  <2>6. GoodEnroll(AfterSubmit(page), desk.filed)
    BY <2>2, EnrollHandled
  <2> QED BY <2>1, <2>5, <2>6, PageKinds, SentGood DEF OnEnroll
<1> QED BY <1>1, <1>2

LEMMA EncodedGood ==
  ASSUME PhoneInv, NEW c \in Calls, Encoded(c) PROVE PhoneInv'
<1> DEFINE k == calls[c]
           shown == IF IsMounted THEN FrameEncoded(cam) ELSE cam
<1>1. /\ k # Free /\ UNCHANGED <<tab, desk, shots, left>>
  BY AtStage DEF Encoded
<1>2. k \in Call /\ GoodCall(k, desk) /\ OnScreen(k, page.screen) /\ k.ask \in Request
  BY <1>1, AtWork
<1>3. CamOK(shown)
  BY StreamsGood DEF PhoneInv, CamOK, IsMounted
<1>4. ServerGood' /\ Grows /\ tab' \in {"visible", "hidden"}
  BY <1>1, Untouched DEF PhoneInv
<1>5. ASSUME NEW p, GoodPage(p, desk), p.screen = page.screen,
             Turn(p, shown) \/ UNCHANGED <<page, cam>>
      PROVE  CamOK(cam') /\ GoodPage(page', desk') /\ page'.screen = page.screen
  BY <1>1, <1>3, <1>5, TurnGood, Untouched DEF PhoneInv
<1>6. CASE k.ask.kind = "ENROLL"
  <2>1. /\ Became(c, Free)
        /\ \/ k.by = "page" /\ Turn(AfterEnrollCapture(page, k.ask.photo), shown)
           \/ UNCHANGED <<page, cam>>
    BY <1>6 DEF Encoded
  <2>2. CASE k.by = "page" /\ Turn(AfterEnrollCapture(page, k.ask.photo), shown)
    <3>1. OnEnroll /\ GoodEnroll(page, desk.filed) /\ k.ask.photo \in Photos
      BY <1>1, <1>2, <1>6, <2>2, Mine DEF Request
    <3>2. GoodEnroll(AfterEnrollCapture(page, k.ask.photo), desk.filed)
      BY <3>1, EnrollHandled
    <3> QED BY <1>1, <1>4, <1>5, <2>1, <2>2, <3>1, <3>2, PageKinds, Step DEF OnEnroll
  <2>3. CASE UNCHANGED <<page, cam>>
    BY <1>1, <1>4, <1>5, <2>1, <2>3, Step DEF PhoneInv
  <2> QED BY <2>1, <2>2, <2>3
<1>7. CASE k.ask.kind # "ENROLL"
  <2> DEFINE l == [k EXCEPT !.stage = "locating"]
  <2>1. /\ Became(c, l)
        /\ \/ k.by = "page" /\ Turn(AfterCapture(page), shown)
           \/ UNCHANGED <<page, cam>>
    BY <1>7 DEF Encoded, Moved
  <2>2. k.ask.kind \in Kinds
    BY <1>2, <1>7 DEF Request
  <2>3. GoodCall(l, desk') /\ OnScreen(l, page.screen)
    BY <1>2, <2>2, Onward DEF OnScreen
  <2> HIDE DEF l
  <2>4. CASE k.by = "page" /\ Turn(AfterCapture(page), shown)
    <3>1. OnCheckIn /\ GoodCheckIn(page, desk.records)
      BY <1>1, <2>2, <2>4, Mine
    <3>2. GoodCheckIn(AfterCapture(page), desk.records)
      BY <3>1, CheckInHandled
    <3> QED BY <1>1, <1>4, <1>5, <2>1, <2>3, <2>4, <3>1, <3>2, PageKinds, Step DEF OnCheckIn
  <2>5. CASE UNCHANGED <<page, cam>>
    BY <1>1, <1>4, <1>5, <2>1, <2>3, <2>5, Step DEF PhoneInv
  <2> QED BY <2>1, <2>4, <2>5
<1> QED BY <1>6, <1>7

LEMMA DroppedGood ==
  ASSUME PhoneInv, NEW c \in Calls, NotEncoded(c) \/ Vanishes(c) PROVE PhoneInv'
<1>1. Became(c, Free) /\ UNCHANGED <<cam, tab, desk, page, shots, left>>
  BY DEF NotEncoded, Vanishes
<1>2. ServerGood' /\ Grows /\ GoodPage(page', desk') /\ CamOK(cam') /\ tab' \in {"visible", "hidden"}
  BY <1>1, Untouched DEF PhoneInv
<1> QED BY <1>1, <1>2, Step

LEMMA LocatedGood ==
  ASSUME PhoneInv, NEW c \in Calls, Located(c) \/ NotLocated(c) PROVE PhoneInv'
<1> DEFINE k == calls[c]
<1>1. /\ k # Free /\ k.stage = "locating" /\ UNCHANGED <<tab, desk, shots, left>>
  BY AtStage DEF Located, NotLocated, At
<1>2. /\ k \in Call /\ GoodCall(k, desk) /\ OnScreen(k, page.screen) /\ k.ask.photo \in Photos
      /\ k.ask.kind \in Kinds
  BY <1>1, AtWork DEF GoodCall, Request
<1>3. ASSUME NEW p, GoodCheckIn(p, desk.records), k.by = "page"
      PROVE  GoodPage(p, desk) /\ p.screen = page.screen
  BY <1>1, <1>2, <1>3, Mine, PageKinds DEF OnCheckIn
<1>4. CASE Located(c)
  <2> DEFINE p == AfterSend(AfterPosition(page, k.ask.photo))
             l == [k EXCEPT !.stage = "sent"]
  <2>1. k.by = "page" => GoodCheckIn(p, desk.records)
    <3> SUFFICES ASSUME k.by = "page" PROVE GoodCheckIn(p, desk.records)
      OBVIOUS
    <3>1. GoodCheckIn(page, desk.records)
      BY <1>1, <1>2, Mine
    <3>2. GoodCheckIn(AfterPosition(page, k.ask.photo), desk.records)
      BY <1>2, <3>1, CheckInHandled
    <3> QED BY <3>2, CheckInHandled
  <2>2. GoodCall(l, desk) /\ OnScreen(l, page.screen)
    BY <1>2, Onward DEF OnScreen
  <2>3. Became(c, l) /\ Tells(c, p)
    BY <1>4 DEF Located, Moved
  <2> HIDE DEF l, p
  <2> QED BY <1>1, <1>3, <2>1, <2>2, <2>3, Told
<1>5. CASE NotLocated(c)
  <2>1. k.by = "page" => GoodCheckIn(AfterNoPosition(page), desk.records)
    BY <1>1, <1>2, Mine, CheckInHandled
  <2>2. Became(c, Free) /\ Tells(c, AfterNoPosition(page))
    BY <1>5 DEF NotLocated
  <2> QED BY <1>1, <1>3, <2>1, <2>2, Told
<1> QED BY <1>4, <1>5

\* The server answers: the page learns nothing yet.
LEMMA Replied ==
  ASSUME PhoneInv, ServerGood', Grows, NEW c \in Calls, calls[c] # Free, NEW answer,
         answer \in IF calls[c].ask.kind = "ENROLL" THEN {"refused", "enrolled", "pending"}
                    ELSE {"ok", "reason", "again", "refused"},
         answer = "ok" => RecordedIn(calls[c].ask.kind, calls[c].ask.photo, desk'.records),
         answer \in {"enrolled", "pending"} => FiledAs(answer, calls[c].ask.photo, desk'.filed),
         Answered(c, answer), UNCHANGED <<cam, tab, page, shots, left>>
  PROVE  PhoneInv'
<1> DEFINE l == [calls[c] EXCEPT !.stage = "answered", !.answer = answer]
<1>1. calls[c] \in Call /\ OnScreen(calls[c], page.screen)
  BY AtWork
<1>2. answer \in Answers
  BY DEF Answers
<1>3. l \in Call
  BY <1>1, <1>2 DEF Call
<1>4. l.stage = "answered" /\ l.answer = answer /\ l.ask = calls[c].ask /\ l.by = calls[c].by
  BY <1>1 DEF Call
<1>5. Became(c, Free) \/ Became(c, l)
  BY DEF Answered
<1> HIDE DEF l
<1>6. GoodCall(l, desk') /\ OnScreen(l, page.screen)
  BY <1>1, <1>3, <1>4 DEF GoodCall, OnScreen
<1>7. GoodPage(page', desk') /\ CamOK(cam') /\ tab' \in {"visible", "hidden"}
  BY StillTrue DEF PhoneInv
<1> QED BY <1>5, <1>6, <1>7, Step

LEMMA ServedGood ==
  ASSUME PhoneInv, NEW c \in Calls, Served(c) PROVE PhoneInv'
<1> DEFINE ask == calls[c].ask
<1>1. calls[c] # Free /\ UNCHANGED <<cam, tab, page, shots, left>>
  BY AtStage DEF Served
<1>2. ask.kind \in Kinds /\ ask.photo \in Photos
  BY <1>1, AtWork DEF Served, At, GoodCall, Request
<1>3. PICK verdict \in Verdicts(ask.kind, ask.place, ask.reasoned) :
        Serve(ask.photo, ask.kind, ask.place, verdict) /\ Answered(c, verdict)
  BY DEF Served
<1>4. /\ ServerGood' /\ Grows /\ verdict \in {"ok", "reason", "again", "refused"}
      /\ verdict = "ok" => RecordedIn(ask.kind, ask.photo, desk'.records)
  BY <1>2, <1>3, ServeGood DEF PhoneInv, RecordedIn
<1> QED BY <1>1, <1>2, <1>3, <1>4, KindsApart, Replied

LEMMA EnrolsGood ==
  ASSUME PhoneInv, NEW c \in Calls,
         ChallengeIssued(c) \/ ChallengeChecked(c) \/ FaceEncoded(c)
  PROVE  PhoneInv'
<1> DEFINE k == calls[c]
<1>1. /\ k # Free /\ k.stage \in {"start", "verify", "checked"}
      /\ UNCHANGED <<cam, tab, page, shots, left>>
  BY AtStage DEF ChallengeIssued, ChallengeChecked, FaceEncoded, At
<1>2. /\ k \in Call /\ OnScreen(k, page.screen) /\ k.ask.kind = "ENROLL" /\ k.ask.photo \in Photos
      /\ k.ask.reasoned \in BOOLEAN /\ c \in Nat
  <2>1. k \in Call /\ GoodCall(k, desk) /\ OnScreen(k, page.screen)
    BY <1>1, AtWork
  <2>2. k.ask \in Request
    BY <2>1 DEF Call
  <2> QED BY <1>1, <2>1, <2>2, CallsAssumption DEF GoodCall, Request
<1>3. ASSUME NEW stage \in {"verify", "checked"}, Moved(c, stage), ServerGood', Grows
      PROVE  PhoneInv'
  <2> DEFINE l == [k EXCEPT !.stage = stage]
  <2>1. GoodCall(l, desk') /\ OnScreen(l, page.screen)
    BY <1>2, <1>3, Onward DEF OnScreen
  <2>2. Became(c, l)
    BY <1>3 DEF Moved
  <2> HIDE DEF l
  <2>3. GoodPage(page', desk') /\ CamOK(cam') /\ tab' \in {"visible", "hidden"}
    BY <1>1, <1>3, StillTrue DEF PhoneInv
  <2> QED BY <1>1, <1>3, <2>1, <2>2, <2>3, Step
<1>4. CASE ChallengeIssued(c)
  <2>1. ServerGood' /\ Grows
    BY <1>2, <1>4, EnrolGood DEF ChallengeIssued, PhoneInv
  <2>2. GoodPage(page', desk') /\ CamOK(cam') /\ tab' \in {"visible", "hidden"}
    BY <1>1, <2>1, StillTrue DEF PhoneInv
  <2>3. Became(c, Free) \/ Moved(c, "verify")
    BY <1>4 DEF ChallengeIssued
  <2> QED BY <1>1, <1>3, <2>1, <2>2, <2>3, Step
<1>5. CASE ChallengeChecked(c)
  <2>1. ServerGood' /\ Grows
    BY <1>5, Untouched DEF ChallengeChecked
  <2>2. Moved(c, "checked") \/ Answered(c, "refused")
    BY <1>5 DEF ChallengeChecked
  <2> QED BY <1>1, <1>2, <1>3, <2>1, <2>2, Replied
<1>6. CASE FaceEncoded(c)
  <2>1. PICK answer \in {"refused", EnrolOutcome(k.ask.reasoned)} :
          KeepFace(k.ask.photo, answer, c) /\ Answered(c, answer)
    BY <1>6 DEF FaceEncoded
  <2>2. /\ ServerGood' /\ Grows /\ answer \in {"refused", "enrolled", "pending"}
        /\ answer \in {"enrolled", "pending"} => FiledAs(answer, k.ask.photo, desk'.filed)
    BY <1>2, <2>1, EnrolGood DEF PhoneInv
  <2> QED BY <1>1, <1>2, <2>1, <2>2, Replied
<1> QED BY <1>4, <1>5, <1>6

LEMMA HeardGood ==
  ASSUME PhoneInv, NEW c \in Calls, Heard(c) PROVE PhoneInv'
<1> DEFINE k == calls[c]
           ask == calls[c].ask
           answer == calls[c].answer
           p == CASE answer = "ok"     -> AfterSuccess(page, ask.photo, ask.kind)
                  [] answer = "reason" -> AfterNeedsReason(page)
                  [] answer \in {"again", "refused"} /\ ask.kind # "ENROLL"
                                       -> AfterFailure(page, answer)
                  [] OTHER             -> AfterVerdict(page, ask.photo, answer)
<1>1. k # Free /\ k.stage = "answered" /\ UNCHANGED <<tab, desk, shots, left>> /\ Tells(c, p)
  BY AtStage DEF Heard, At
<1>2. /\ k \in Call /\ GoodCall(k, desk) /\ OnScreen(k, page.screen) /\ ask.photo \in Photos
      /\ ask.kind \in Kinds \cup {"ENROLL"}
  BY <1>1, AtWork DEF Request
<1>3. k.by = "page" => GoodPage(p, desk) /\ p.screen = page.screen
  <2> SUFFICES ASSUME k.by = "page" PROVE GoodPage(p, desk) /\ p.screen = page.screen
    OBVIOUS
  <2>1. CASE ask.kind = "ENROLL"
    <3>1. OnEnroll /\ GoodEnroll(page, desk.filed)
      BY <1>1, <2>1, Mine
    <3>2. /\ answer \in {"refused", "enrolled", "pending"}
          /\ answer \in {"enrolled", "pending"} => FiledAs(answer, ask.photo, desk.filed)
      BY <1>1, <1>2, <2>1 DEF GoodCall
    <3>3. p = AfterVerdict(page, ask.photo, answer)
      BY <2>1, <3>2
    <3>4. GoodEnroll(AfterVerdict(page, ask.photo, answer), desk.filed)
      BY <1>2, <3>1, <3>2, EnrollHandled
    <3> QED BY <3>1, <3>3, <3>4, PageKinds DEF OnEnroll
  <2>2. CASE ask.kind \in Kinds
    <3>1. OnCheckIn /\ GoodCheckIn(page, desk.records)
      BY <1>1, <2>2, Mine
    <3>2. /\ answer \in {"ok", "reason", "again", "refused"}
          /\ answer = "ok" => RecordedIn(ask.kind, ask.photo, desk.records)
      BY <1>1, <1>2, <2>2, KindsApart DEF GoodCall
    <3>3. \/ answer = "ok" /\ p = AfterSuccess(page, ask.photo, ask.kind)
          \/ p = AfterNeedsReason(page)
          \/ p = AfterFailure(page, answer)
      BY <2>2, <3>2, KindsApart
    <3> HIDE DEF p
    <3>4. GoodCheckIn(p, desk.records)
      <4>1. CASE answer = "ok" /\ p = AfterSuccess(page, ask.photo, ask.kind)
        BY <1>2, <2>2, <3>1, <3>2, <4>1, CheckInHandled
      <4>2. CASE p = AfterNeedsReason(page)
        BY <3>1, <4>2, CheckInHandled
      <4>3. CASE p = AfterFailure(page, answer)
        BY <3>1, <4>3, CheckInHandled
      <4> QED BY <3>3, <4>1, <4>2, <4>3
    <3> QED BY <3>1, <3>4, PageKinds DEF OnCheckIn
  <2> QED BY <1>2, <2>1, <2>2
<1> HIDE DEF p
<1>4. CASE Became(c, Free)
  BY <1>1, <1>3, <1>4, Told
<1>5. CASE Moved(c, "refresh")
  <2> DEFINE l == [k EXCEPT !.stage = "refresh"]
  <2>1. GoodCall(l, desk) /\ OnScreen(l, page.screen)
    BY <1>2, Onward DEF OnScreen
  <2>2. Became(c, l)
    BY <1>5 DEF Moved
  <2> HIDE DEF l
  <2> QED BY <1>1, <1>3, <2>1, <2>2, Told
<1> QED BY <1>4, <1>5 DEF Heard

LEMMA UnheardGood ==
  ASSUME PhoneInv, NEW c \in Calls, Unheard(c) PROVE PhoneInv'
<1> DEFINE k == calls[c]
           p == IF k.ask.kind = "ENROLL" THEN AfterVerdict(page, k.ask.photo, "refused")
                ELSE AfterFailure(page, "transport")
           l == [k EXCEPT !.by = "lost"]
<1>1. k # Free /\ UNCHANGED <<tab, desk, shots, left>> /\ Tells(c, p)
  BY DEF Unheard, Free
<1>2. GoodCall(k, desk) /\ k.ask.kind \in Kinds \cup {"ENROLL"} /\ k.ask.photo \in Photos
  BY <1>1, AtWork DEF Request
<1>3. k.by = "page" => GoodPage(p, desk) /\ p.screen = page.screen
  <2>1. CASE k.ask.kind = "ENROLL" /\ k.by = "page"
    <3>1. OnEnroll /\ GoodEnroll(page, desk.filed)
      BY <1>1, <2>1, Mine
    <3>2. GoodEnroll(AfterVerdict(page, k.ask.photo, "refused"), desk.filed)
      BY <1>2, <3>1, EnrollHandled
    <3> QED BY <2>1, <3>1, <3>2, PageKinds DEF OnEnroll
  <2>2. CASE k.ask.kind \in Kinds /\ k.by = "page"
    <3>1. OnCheckIn /\ GoodCheckIn(page, desk.records)
      BY <1>1, <2>2, Mine
    <3>2. GoodCheckIn(AfterFailure(page, "transport"), desk.records)
      BY <3>1, CheckInHandled
    <3> QED BY <2>2, <3>1, <3>2, KindsApart, PageKinds DEF OnCheckIn
  <2> QED BY <1>2, <2>1, <2>2
<1>4. GoodCall(l, desk) /\ OnScreen(l, page.screen)
  BY <1>2, GivenUp DEF OnScreen
<1>5. Became(c, Free) \/ Became(c, l)
  BY DEF Unheard
<1> HIDE DEF p, l
<1> QED BY <1>1, <1>3, <1>4, <1>5, Told

LEMMA RefreshedGood ==
  ASSUME PhoneInv, NEW c \in Calls, Refreshed(c) \/ NotRefreshed(c) PROVE PhoneInv'
<1> DEFINE k == calls[c]
<1>1. k # Free /\ UNCHANGED <<tab, desk, shots, left>> /\ Became(c, Free)
  BY AtStage DEF Refreshed, NotRefreshed
<1>2. k.ask.kind \in Kinds \cup {"ENROLL"}
  BY <1>1, AtWork DEF Request
<1>3. CASE k.ask.kind = "ENROLL"
  <2>1. PICK p \in {AfterFaceStatus(page, desk.faces # {}), AfterStatusLost(page)} : Tells(c, p)
    BY <1>3 DEF Refreshed, NotRefreshed
  <2>2. k.by = "page" => GoodPage(p, desk) /\ p.screen = page.screen
    <3> SUFFICES ASSUME k.by = "page" PROVE GoodPage(p, desk) /\ p.screen = page.screen
      OBVIOUS
    <3>1. OnEnroll /\ GoodEnroll(page, desk.filed)
      BY <1>1, <1>3, Mine
    <3>2. GoodEnroll(p, desk.filed)
      BY <2>1, <3>1, EnrollHandled
    <3> QED BY <3>1, <3>2, PageKinds DEF OnEnroll
  <2> QED BY <1>1, <2>1, <2>2, Told
<1>4. CASE k.ask.kind \in Kinds
  <2>1. PICK p : /\ Tells(c, p)
                 /\ \/ p = AfterRefresh(page, MyState)
                    \/ \E class \in {"transport", "refused"} : p = AfterFailure(page, class)
    BY <1>4, KindsApart DEF Refreshed, NotRefreshed
  <2>2. k.by = "page" => GoodPage(p, desk) /\ p.screen = page.screen
    <3> SUFFICES ASSUME k.by = "page" PROVE GoodPage(p, desk) /\ p.screen = page.screen
      OBVIOUS
    <3>1. OnCheckIn /\ GoodCheckIn(page, desk.records)
      BY <1>1, <1>4, Mine
    <3>2. GoodCheckIn(AfterRefresh(page, MyState), desk.records)
      BY <3>1, CheckInHandled, MyStateTyped DEF PhoneInv, ServerGood
    <3>3. \A class : GoodCheckIn(AfterFailure(page, class), desk.records)
      BY <3>1, CheckInHandled
    <3>4. GoodCheckIn(p, desk.records)
      BY <2>1, <3>2, <3>3
    <3> QED BY <3>1, <3>4, PageKinds DEF OnCheckIn
  <2> QED BY <1>1, <2>1, <2>2, Told
<1> QED BY <1>2, <1>3, <1>4

LEMMA OthersGood ==
  ASSUME PhoneInv, Others PROVE PhoneInv'
<1>1. UNCHANGED <<cam, tab, page, calls, shots>>
  BY DEF Others
<1>2. ServerGood' /\ Grows
  BY OthersKeep DEF Others, PhoneInv
<1>3. left' \in Bound /\ left'.photos = left.photos
  BY Spent DEF Others, PhoneInv
<1>4. GoodPage(page', desk') /\ CamOK(cam') /\ tab' \in {"visible", "hidden"}
  BY <1>1, <1>2, StillTrue DEF PhoneInv
<1> QED BY <1>1, <1>2, <1>3, <1>4, Still

-----------------------------------------------------------------------------
(***************************************************************************)
(* The invariant, and what it gives.                                       *)
(***************************************************************************)

LEMMA PhoneInvInit ==
  ASSUME Init PROVE PhoneInv
<1>1. left \in Bound /\ left.photos \in 0 .. MaxPhotos /\ MaxPhotos \in Nat
  BY CallsAssumption, DeskAssumption DEF Init, Bound
<1>2. PICK faces \in left.faces : DeskInit(faces, left.places)
  BY DEF Init
<1>3. faces \in SUBSET {0} /\ left.places \in SUBSET Places
  BY <1>1, <1>2 DEF Bound
<1>4. DeskTypeOK /\ desk.records = {}
  BY <1>2, <1>3, DeskAssumption DEF DeskInit, DeskTypeOK
<1>5. ServerGood
  BY <1>4 DEF ServerGood, OneSessionOfManySends
<1>6. CallsGood(calls, page.screen, desk)
  BY DEF Init, CallsGood
<1>7. 0 \in 0 .. MaxPhotos /\ 0 + left.photos <= MaxPhotos
  BY <1>1
<1> QED BY <1>1, <1>5, <1>6, <1>7 DEF Init, PhoneInv, CamOK, GoodPage

LEMMA PhoneInvStep ==
  ASSUME PhoneInv, [Next]_vars PROVE PhoneInv'
<1>1. CASE Open(OpenedCheckIn) \/ Open(OpenedEnroll)
  BY <1>1, OpenGood
<1>2. CASE Leave
  BY <1>2, LeaveGood
<1>3. CASE Types
  BY <1>3, TypesGood
<1>4. CASE OpensCamera \/ Guides \/ Opens \/ Hides
  BY <1>4, CameraGood
<1>5. CASE Retake
  BY <1>5, RetakeGood
<1>6. ASSUME NEW c \in Calls, PressShutter(c) PROVE PhoneInv'
  BY <1>6, PressGood
<1>7. ASSUME NEW c \in Calls, Confirm(c) \/ Resend(c) \/ Submit(c) PROVE PhoneInv'
  BY <1>7, SendsGood
<1>8. CASE Load \/ LoadFace
  BY <1>8, LoadGood
<1>9. ASSUME NEW c \in Calls, Awaited(c) PROVE PhoneInv'
  BY <1>9, EncodedGood, DroppedGood, LocatedGood, ServedGood, EnrolsGood, HeardGood,
     UnheardGood, RefreshedGood DEF Awaited
<1>10. CASE Others
  BY <1>10, OthersGood
<1>11. CASE UNCHANGED vars
  <2>1. /\ left' \in Bound /\ left'.photos = left.photos /\ CamOK(cam')
        /\ tab' \in {"visible", "hidden"} /\ page' = page /\ GoodPage(page, desk)
        /\ UNCHANGED <<desk, calls, shots>>
    BY <1>11 DEF vars, PhoneInv
  <2> QED BY <2>1, Untouched, Still
<1> QED BY <1>1, <1>2, <1>3, <1>4, <1>5, <1>6, <1>7, <1>8, <1>9, <1>10, <1>11 DEF Next, Person

\* The phone keeps its invariant: what each page says and each answer stands for
\* is on record, and the guide's word is about a view that is live.
THEOREM PhoneInvariant == Spec => []PhoneInv
<1>1. Init => PhoneInv
  BY PhoneInvInit
<1>2. PhoneInv /\ [Next]_vars => PhoneInv'
  BY PhoneInvStep
<1> QED BY <1>1, <1>2, PTL DEF Spec

\* Every variable of the phone stays of its type.
THEOREM PhoneTyped == Spec => []TypeOK
<1>1. PhoneInv => TypeOK
  BY DEF PhoneInv, ServerGood, CamOK, GoodCam, GoodPage, GoodCheckIn, GoodEnroll, CallsGood, TypeOK
<1> QED BY <1>1, PhoneInvariant, PTL

\* A page never says that a photograph was recorded, kept or filed when the one
\* its answer was about was not (run and successInfo of app/attendance/page.tsx, submit of app/enroll/page.tsx).
THEOREM SaysRecorded == Spec => []SaysWhatWasRecorded
<1>1. PhoneInv => SaysWhatWasRecorded
  BY PageOf DEF SaysWhatWasRecorded, GoodCheckIn, GoodEnroll, RecordedIn, FiledAs
<1> QED BY <1>1, PhoneInvariant, PTL

\* A working date has one arrival and one departure of a member, however often
\* a phone sends them (resend of app/attendance/page.tsx).
THEOREM OneSession == Spec => []OneSessionOfManySends
<1>1. PhoneInv => OneSessionOfManySends
  BY DEF PhoneInv, ServerGood
<1> QED BY <1>1, PhoneInvariant, PTL

\* What the guide said never outlives the view it was about (the effect of
\* components/CameraCapture.tsx keyed on streaming and preview).
THEOREM GuideRight == Spec => []GuideIsOfThisView
<1>1. PhoneInv => GuideIsOfThisView
  BY DEF PhoneInv, CamOK, GoodCam, GuideIsOfThisView, IsMounted
<1> QED BY <1>1, PhoneInvariant, PTL
=============================================================================
