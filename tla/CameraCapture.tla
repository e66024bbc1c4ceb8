---------------------------- MODULE CameraCapture ----------------------------
(***************************************************************************)
(* The camera of the two pages that take a photograph                      *)
(* (components/CameraCapture.tsx).  Opening the camera, encoding a frame   *)
(* and asking the server what it sees of one are asynchronous, and the tab *)
(* may be hidden while any of them is under way.                           *)
(*                                                                         *)
(* The page owns the component: it mounts and unmounts it, disables it,    *)
(* and is told of each photograph.  The page's module therefore says when  *)
(* the actions below happen; they change cam and tab alone.                *)
(***************************************************************************)
EXTENDS Naturals

CONSTANTS
    GuideFailuresBeforeFallback,  \* failed guide calls that unlock the shutter
    MaxOpening                    \* bound: requests for the camera under way

ASSUME CameraAssumption ==
    /\ GuideFailuresBeforeFallback \in Nat \ {0}
    /\ MaxOpening \in Nat \ {0}

VARIABLES
    cam,            \* the component, or Unmounted
    tab             \* document.visibilityState

cameraVars == <<cam, tab>>

(***************************************************************************)
(*  asking    the permission query of the first effect is unanswered       *)
(*  opening   calls of getUserMedia under way                              *)
(*  held      streamRef has a stream: the camera's light is on             *)
(*  streaming, preview, guideDown, failures, hiddenWhileLive: as named     *)
(*  picture   the video element shows the stream (videoWidth is not 0)     *)
(*  guide     what the page was last told of a frame                       *)
(*  call      the guide call under way: of this view, or of one since      *)
(*            closed ("stale", its effect was cleaned up)                  *)
(***************************************************************************)
Camera ==
    [asking : BOOLEAN, opening : 0 .. MaxOpening, held : BOOLEAN,
     streaming : BOOLEAN, preview : BOOLEAN, picture : BOOLEAN,
     guide : {"none", "fail", "ok"}, guideDown : BOOLEAN,
     failures : 0 .. GuideFailuresBeforeFallback,
     call : {"none", "asked", "stale"}, hiddenWhileLive : BOOLEAN]

Unmounted == [mounted |-> FALSE]

Mounted ==
    [asking |-> TRUE, opening |-> 0, held |-> FALSE, streaming |-> FALSE,
     preview |-> FALSE, picture |-> FALSE, guide |-> "none", guideDown |-> FALSE,
     failures |-> 0, call |-> "none", hiddenWhileLive |-> FALSE]

IsMounted == cam # Unmounted

Live(c) == c.streaming /\ ~c.preview

\* Four ticks, or a guide that cannot be reached.
Ready(c) == Live(c) /\ (c.guideDown \/ c.guide = "ok")

-----------------------------------------------------------------------------
(* The effect keyed on [streaming, preview].                               *)

\* Mutated form: the clean-up does not cancel the call under way.
GuideLoopUncancelled(old, new) ==
    IF Live(new) = Live(old)
    THEN new
    ELSE [new EXCEPT !.guide = "none", !.guideDown = FALSE, !.failures = 0]

\* When the live view opens or closes, the loop of the last one is cancelled
\* and what it said is forgotten.
GuideLoop(old, new) ==
    IF Live(new) = Live(old)
    THEN new
    ELSE [new EXCEPT !.guide = "none", !.guideDown = FALSE, !.failures = 0,
                     !.call = IF old.call = "asked" THEN "stale" ELSE old.call]

NoStream(c) == [c EXCEPT !.held = FALSE, !.streaming = FALSE, !.picture = FALSE]

StopStream(c) == GuideLoop(c, NoStream(c))

Start(c) == IF c.opening < MaxOpening THEN [c EXCEPT !.opening = @ + 1] ELSE c

-----------------------------------------------------------------------------
(* Opening.                                                                *)

\* The browser answers whether the camera is allowed; if it is, it opens at
\* once.  Denied or not asked yet, the person has to press.
PermissionKnown ==
    /\ IsMounted /\ cam.asking
    /\ \E granted \in BOOLEAN :
         LET c == [cam EXCEPT !.asking = FALSE]
         IN  cam' = IF granted THEN Start(c) ELSE c
    /\ UNCHANGED tab

\* "Mo camera", there while no stream is on and no photograph is shown; it is
\* disabled while one is being opened.
PressOpen(disabled) ==
    /\ IsMounted /\ ~cam.streaming /\ ~cam.preview
    /\ cam.opening = 0 /\ ~disabled
    /\ cam' = Start(cam)
    /\ UNCHANGED tab

\* getUserMedia gives a stream, whatever has happened since it was asked: the
\* tab may be hidden by now, or a photograph shown instead of the video.  The
\* loop's first tick follows at once, and does not look whether the tab shows.
StreamOpens ==
    /\ IsMounted /\ cam.opening > 0
    /\ LET c == GuideLoop(cam, [cam EXCEPT !.opening = @ - 1, !.held = TRUE,
                                  !.streaming = TRUE, !.picture = ~cam.preview])
       IN  cam' = IF Live(c) /\ ~Live(cam) /\ c.call = "none"
                  THEN [c EXCEPT !.call = "asked"] ELSE c
    /\ UNCHANGED tab

StreamRefused ==
    /\ IsMounted /\ cam.opening > 0
    /\ cam' = [cam EXCEPT !.opening = @ - 1]
    /\ UNCHANGED tab

-----------------------------------------------------------------------------
(* The tab is hidden and shown again.                                      *)

Hide ==
    /\ tab = "visible" /\ tab' = "hidden"
    /\ cam' = IF IsMounted /\ cam.held /\ ~cam.preview
              THEN [StopStream(cam) EXCEPT !.hiddenWhileLive = TRUE] ELSE cam

Show ==
    /\ tab = "hidden" /\ tab' = "visible"
    /\ cam' = IF IsMounted /\ cam.hiddenWhileLive
              THEN Start([cam EXCEPT !.hiddenWhileLive = FALSE]) ELSE cam

-----------------------------------------------------------------------------
(* The guide: one frame at a time, as long as the view is live.            *)

\* Mutated form: every tick starts the count again.
GuideTickForgetful ==
    /\ IsMounted /\ tab = "visible"
    /\ Live(cam) /\ cam.picture /\ cam.call = "none"
    /\ cam' = [cam EXCEPT !.call = "asked", !.failures = 0]
    /\ UNCHANGED tab

GuideTick ==
    /\ IsMounted /\ tab = "visible"
    /\ Live(cam) /\ cam.picture /\ cam.call = "none"
    /\ cam' = [cam EXCEPT !.call = "asked"]
    /\ UNCHANGED tab

\* What the server measures of a frame, and the four rows made of it: a row
\* that waits for another is pending.
Checks == {"face", "framed", "single", "light", "sharp"}

Checklist(checks) ==
    [face   |-> IF {"face", "framed"} \subseteq checks THEN "ok" ELSE "fail",
     single |-> IF "face" \notin checks THEN "pending"
                ELSE IF "single" \in checks THEN "ok" ELSE "fail",
     light  |-> IF "light" \in checks THEN "ok" ELSE "fail",
     sharp  |-> IF "single" \notin checks THEN "pending"
                ELSE IF "sharp" \in checks THEN "ok" ELSE "fail"]

AllOk(rows) == \A key \in DOMAIN rows : rows[key] = "ok"

GuideSays ==
    {IF AllOk(Checklist(checks)) THEN "ok" ELSE "fail" : checks \in SUBSET Checks}

\* The answer to a loop that is gone only frees the next call.
GuideAnswers ==
    /\ IsMounted /\ cam.call # "none"
    /\ \E said \in GuideSays :
         cam' = IF cam.call = "stale"
                THEN [cam EXCEPT !.call = "none"]
                ELSE [cam EXCEPT !.call = "none", !.guide = said,
                                 !.guideDown = FALSE, !.failures = 0]
    /\ UNCHANGED tab

\* A failure counts even when its loop is gone; only one of this loop unlocks
\* the shutter.
GuideFails ==
    /\ IsMounted /\ cam.call # "none"
    /\ LET failures == IF cam.failures < GuideFailuresBeforeFallback
                       THEN cam.failures + 1 ELSE cam.failures
       IN  cam' = [cam EXCEPT !.call = "none", !.failures = failures,
                     !.guideDown = @ \/ (cam.call = "asked"
                                         /\ failures >= GuideFailuresBeforeFallback)]
    /\ UNCHANGED tab

-----------------------------------------------------------------------------
(* The photograph.                                                         *)

\* The shutter and, while the page is neither working nor done, "Chup lai".
ShutterOpen(disabled) == IsMounted /\ Ready(cam) /\ cam.picture /\ ~disabled

RetakeOffered(disabled, phase) ==
    IsMounted /\ cam.preview /\ phase \notin {"working", "done"} /\ ~disabled

\* The frame is encoded: it takes the place of the video.
FrameEncoded(c) == GuideLoop(c, [NoStream(c) EXCEPT !.preview = TRUE])

Retaken(c) ==
    Start(GuideLoop(c, [c EXCEPT !.preview = FALSE, !.picture = FALSE]))
=============================================================================
