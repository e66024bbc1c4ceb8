----------------------------- MODULE EnrollPage -----------------------------
(***************************************************************************)
(* The page that registers a face (app/enroll/page.tsx).  A first face is  *)
(* kept at once; another waits for a reviewer.                             *)
(***************************************************************************)
EXTENDS MemberDesk

EnrollPhases == {"idle", "working", "done", "failed"}

(***************************************************************************)
(*  enrolled  what the page knows of the face on file                      *)
(*  captured  the photograph in hand, 0 if none                            *)
(*  reason    whether five characters are typed                            *)
(*  done      a photograph was accepted: the page no longer calls it a     *)
(*            change                                                       *)
(*  said      what the card says ...                                       *)
(*  reading   ... and the photograph the answer behind it accepted, 0 if   *)
(*            none: not always the one in hand                             *)
(***************************************************************************)
EnrollPages ==
    [screen : {"enroll"}, enrolled : BOOLEAN, captured : Photos \cup {0},
     phase : EnrollPhases, reason : BOOLEAN, done : BOOLEAN,
     said : {"nothing", "enrolled", "pending", "refused"}, reading : Photos \cup {0}]

OpenedEnroll ==
    [screen |-> "enroll", enrolled |-> FALSE, captured |-> 0, phase |-> "idle",
     reason |-> FALSE, done |-> FALSE, said |-> "nothing",
     reading |-> 0]

Changing(p) == p.enrolled /\ ~p.done

EnrollDisabled(p) == p.phase = "working"

AfterFaceStatus(p, enrolled) == [p EXCEPT !.enrolled = enrolled]

\* onCaptured, with a photograph or none.
AfterEnrollCapture(p, photo) ==
    [p EXCEPT !.captured = photo, !.phase = "idle", !.said = "nothing",
       !.reading = 0]

SubmitOffered(p) == p.captured # 0 /\ p.phase = "idle"

TypesFaceReason(p) == Changing(p)

AfterSubmit(p) == [p EXCEPT !.phase = "working"]

\* The answer of verify, or the failure of either call: a refusal leaves the
\* photograph on screen, and only another one can be sent.
AfterVerdict(p, photo, outcome) ==
    IF outcome \in {"enrolled", "pending"}
    THEN [p EXCEPT !.phase = "done", !.done = TRUE, !.said = outcome,
            !.reading = photo]
    ELSE [p EXCEPT !.phase = "failed", !.said = "refused"]

\* faceStatus after a success fails: the card is replaced by the failure.
AfterStatusLost(p) == [p EXCEPT !.phase = "failed"]
=============================================================================
