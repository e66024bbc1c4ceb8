------------------------------ MODULE PersonPanel ------------------------------
(***************************************************************************)
(* The panel that shows one line of a day (components/records/             *)
(* PersonPanel.tsx), edits a record of it and deletes the day: functions   *)
(* of the panel.  A panel of a refused attempt (attemptId) is not          *)
(* modelled, nor is what is only shown: the map, the details.              *)
(***************************************************************************)
EXTENDS Office

(***************************************************************************)
(*  of        the line it shows (session)                                  *)
(*  fetching  what the effect has asked for: the photographs and the       *)
(*            record of some line, and whether that run of the effect is   *)
(*            the last (live)                                              *)
(*  photos    of which lines the photographs on screen are                 *)
(*  known     the records of it that were fetched (entryEvent, exitEvent)  *)
(*  half      the tab                                                      *)
(*  selected  the record on the form                                       *)
(*  words, why  what the reason to adjust, and the one to delete, was      *)
(*            typed about                                                  *)
(*  adjusting, deleting  a request is under way                            *)
(***************************************************************************)
Fetch == [of : Session, part : {"face", "first", "pictures"}, live : BOOLEAN]

Panel ==
    [of : Session, fetching : SUBSET Fetch, photos : SUBSET Session,
     known : SUBSET Punches, half : {"in", "out"}, selected : Punches \cup {None},
     words : Punches \cup {None}, why : (People \X Days) \cup {None},
     adjusting : BOOLEAN, deleting : BOOLEAN]

Line(s) == <<s.who, s.day>>

Asked(s) == {[of |-> s, part |-> part, live |-> TRUE] : part \in {"face", "first"}}

\* The panel as it is mounted.
Mounted(s) ==
    [of |-> s, fetching |-> Asked(s), photos |-> {}, known |-> {}, half |-> "in",
     selected |-> None, words |-> None, why |-> None, adjusting |-> FALSE,
     deleting |-> FALSE]

\* Mutated form: the cleanup forgets the flag.
CleanedUpNot(f) == f

\* The cleanup of the effect.
CleanedUp(f) == [f EXCEPT !.live = FALSE]

\* The line changes under the panel: the effect runs again.  The form of the
\* record goes with the record (selected), the reason to adjust until a record
\* is loaded; a request under way still is.
AfterLine(q, s) ==
    [q EXCEPT !.of = s,
       !.fetching = {CleanedUp(f) : f \in q.fetching} \cup Asked(s),
       !.photos = {}, !.known = {}, !.selected = None, !.why = None]

\* Mutated form: the form of another record keeps the reason.
LoadFormKept(q, e) == [q EXCEPT !.selected = e]

LoadForm(q, e) == [q EXCEPT !.selected = e, !.words = None]

\* A record that was fetched becomes that of its half, whoever asked for it.
Learnt(q, e) == [q EXCEPT !.known = {o \in @ : Kind[o] # Kind[e]} \cup {e}]

First(s) == IF s.in # None THEN s.in ELSE s.out

\* What the effect asked for failed: no picture, or no form.
AfterNoFetch(q, f) == [q EXCEPT !.fetching = @ \ {f}]

\* The first record has come: the photographs of both, and the other record,
\* are asked for.
AfterFirst(q, f) ==
    LET e == First(f.of)
    IN  [Learnt(LoadForm(q, e), e) EXCEPT
           !.half = Kind[e], !.fetching = @ \cup {[f EXCEPT !.part = "pictures"]}]

AfterPictures(q, f) ==
    [(IF f.of.out = None THEN q ELSE Learnt(q, f.of.out)) EXCEPT !.photos = @ \cup {f.of}]

\* The face on file has come.
AfterFace(q, f) == [q EXCEPT !.photos = @ \cup {f.of}]

\* What comes is taken if the run of the effect that asked is still the last.
AfterFetch(q, f) ==
    LET r == AfterNoFetch(q, f)
    IN  CASE ~f.live -> r
          [] f.live /\ f.part = "first" -> AfterFirst(r, f)
          [] f.live /\ f.part = "pictures" -> AfterPictures(r, f)
          [] f.live /\ f.part = "face" -> AfterFace(r, f)

-----------------------------------------------------------------------------
(* What the manager does.                                                  *)

HalfOf(s, half) == IF half = "in" THEN s.in ELSE s.out

SwitchOffered(q, half) ==
    q.selected # None /\ q.of.in # None /\ q.of.out # None /\ half # q.half

KnownAs(q, half) == {e \in q.known : Kind[e] = half}

\* switchHalf, to its first await: from what is known, or asking for the rest.
AfterSwitch(q, half) ==
    LET r == [q EXCEPT !.half = half]
        known == KnownAs(q, half)
    IN  IF known # {} THEN LoadForm(r, CHOOSE e \in known : TRUE) ELSE r

PanelTyping(q) ==
    (IF q.selected = None THEN {} ELSE {[q EXCEPT !.words = q.selected]})
      \cup {[q EXCEPT !.why = Line(q.of)]}

\* The button wants a reason.
AdjustOffered(q) == q.selected # None /\ q.words # None /\ ~q.adjusting

DeleteOffered(q) == q.why # None /\ ~q.deleting

AdjustAsk(q, day) == Wish("adjust", q.selected, day, TRUE, q.words)

DeleteAsk(q) == Wish("deleteDay", q.of.who, q.of.day, TRUE, q.why)

AfterPanelAsks(q, op) ==
    IF op = "adjust" THEN [q EXCEPT !.adjusting = TRUE] ELSE [q EXCEPT !.deleting = TRUE]

\* The answer, or none; the record that was adjusted is the one on the form,
\* whatever the panel shows by now.
AfterPanelAnswer(q, ask, well) ==
    IF ask.op = "deleteDay" THEN [q EXCEPT !.deleting = FALSE]
    ELSE [(IF well THEN Learnt(LoadForm(q, ask.on), ask.on) ELSE q) EXCEPT !.adjusting = FALSE]
=============================================================================
