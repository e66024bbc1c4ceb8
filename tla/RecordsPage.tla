------------------------------- MODULE RecordsPage -------------------------------
(***************************************************************************)
(* The page of the records (app/manager/attendance/page.tsx): a calendar   *)
(* of a month, the drawer of a day, and in it the panel of a person.       *)
(* Functions of the page.  The views, the search and the export show what  *)
(* is here in other ways.                                                  *)
(***************************************************************************)
EXTENDS PersonPanel

CONSTANT Months     \* the months one can turn to

(***************************************************************************)
(*  month    the month of the heading                                      *)
(*  asked    the calendars asked for, the last of them live                *)
(*  data     the month of the calendar on screen, None while it is loaded  *)
(*  day      the date of the drawer, None if it is closed                  *)
(*  loading  the dates whose lines were asked for, by whatever run of      *)
(*           loadDay; of one date they are one                             *)
(*  rows     the lines on screen                                           *)
(*  loaded   whether there are any (sessions is not null)                  *)
(*  person   whose panel it is                                             *)
(*  panel    the panel, None if it is not there                            *)
(***************************************************************************)
RecordsPages ==
    [screen : {"records"}, month : Months, asked : SUBSET [month : Months, live : BOOLEAN],
     data : Months \cup {None}, day : Days \cup {None}, loading : SUBSET Days,
     rows : SUBSET Session, loaded : BOOLEAN, person : People \cup {None},
     panel : Panel \cup {None}]

\* The effect of the month runs: its cleanup, and what it asks for.
Recalendar(p, month) ==
    [p EXCEPT !.month = month, !.data = None,
       !.asked = {[load EXCEPT !.live = FALSE] : load \in @} \cup {[month |-> month, live |-> TRUE]}]

OpenedRecords(month) ==
    [screen |-> "records", month |-> month, asked |-> {[month |-> month, live |-> TRUE]},
     data |-> None, day |-> None, loading |-> {}, rows |-> {}, loaded |-> FALSE,
     person |-> None, panel |-> None]

-----------------------------------------------------------------------------
(* The panel follows the page.                                             *)

\* The line the panel is to show (current), if there is one.
Current(p) ==
    IF p.day = None \/ p.person = None THEN {} ELSE {s \in p.rows : s.who = p.person}

Settled(p) ==
    IF Current(p) = {} THEN [p EXCEPT !.panel = None]
    ELSE LET s == CHOOSE s \in Current(p) : TRUE
         IN  IF p.panel = None THEN [p EXCEPT !.panel = Mounted(s)]
             ELSE IF p.panel.of = s THEN p
             ELSE [p EXCEPT !.panel = AfterLine(p.panel, s)]

-----------------------------------------------------------------------------
(* Handlers and effects.                                                   *)

\* Mutated form: the answer of any run is taken.
AfterCalendarAny(p, load) == [p EXCEPT !.asked = @ \ {load}, !.data = load.month]

AfterCalendar(p, load) ==
    [p EXCEPT !.asked = @ \ {load}, !.data = IF load.live THEN load.month ELSE @]

AfterNoCalendar(p, load) == [p EXCEPT !.asked = @ \ {load}]

\* The effect of the day runs: loadDay, to its await.  An answer that is
\* awaited already will be taken all the same.
Reload(p) ==
    IF p.day = None THEN p
    ELSE [p EXCEPT !.loading = @ \cup {p.day}, !.rows = {}, !.loaded = FALSE]

AfterDay(p, day) ==
    [p EXCEPT !.loading = @ \ {day}, !.rows = SessionsOn(day), !.loaded = TRUE]

AfterNoDay(p, day) == [p EXCEPT !.loading = @ \ {day}, !.rows = {}, !.loaded = TRUE]

\* refresh: the month and the day again.
AfterRefresh(p) == Reload(Recalendar(p, p.month))

\* setDay: the effect runs when the date is another one.
Turned(p, day) == IF p.day = day THEN p ELSE Reload([p EXCEPT !.day = day])

AfterOpenDay(p, day) == Turned([p EXCEPT !.person = None], day)

AfterOpenPerson(p, s) == Turned([p EXCEPT !.person = s.who], s.day)

AfterCloseDrawer(p) == [p EXCEPT !.person = None, !.day = None]

AfterBack(p) == [p EXCEPT !.person = None]

\* onChanged, and onDeleted.
AfterChange(p, op) == AfterRefresh(IF op = "deleteDay" THEN AfterBack(p) ELSE p)

-----------------------------------------------------------------------------
(* What the manager may do.  The drawer covers the page.                   *)

RecordsMoves(p) ==
    IF p.day = None
    THEN {Recalendar(p, month) : month \in Months \ {p.month}} \cup {AfterRefresh(p)}
           \cup (IF p.data = None THEN {} ELSE {AfterOpenDay(p, day) : day \in Days})
           \cup (IF p.data = None THEN {}
                 ELSE {AfterOpenPerson(p, s) : s \in UNION {SessionsOn(day) : day \in Days}})
    ELSE {AfterCloseDrawer(p)}
           \cup (IF p.person = None THEN {AfterOpenPerson(p, s) : s \in p.rows}
                 ELSE {AfterBack(p)})
           \cup (IF p.panel = None THEN {}
                 ELSE {[p EXCEPT !.panel = AfterSwitch(p.panel, half)] :
                         half \in {h \in {"in", "out"} : SwitchOffered(p.panel, h)
                                                          /\ KnownAs(p.panel, h) # {}}}
                        \cup {[p EXCEPT !.panel = q] : q \in PanelTyping(p.panel)})

RecordsAsks(p) ==
    IF p.panel = None THEN {}
    ELSE (IF AdjustOffered(p.panel) THEN {AdjustAsk(p.panel, day) : day \in Days} ELSE {})
           \cup (IF DeleteOffered(p.panel) THEN {DeleteAsk(p.panel)} ELSE {})
=============================================================================
