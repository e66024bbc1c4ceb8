---------------------------- MODULE MemberPages ----------------------------
(***************************************************************************)
(* A member's own pages: the requests for a correction                     *)
(* (app/corrections/page.tsx), the days (app/history/page.tsx,             *)
(* lib/member.ts), the profile (app/profile/page.tsx) and the              *)
(* notifications (app/notifications/page.tsx).  Functions of the page.     *)
(***************************************************************************)
EXTENDS Naturals, Sequences, FiniteSets, SequencesExt

CONSTANTS
    Dates,          \* the working dates that may be asked about, numbers
    Ranges,         \* the months, and ranges of dates, one can look at
    MaxSends        \* bound: requests sent that change something

Sends == 1 .. MaxSends

Nobody == 0

ASSUME DatesAssumption == Dates \subseteq Nat \ {Nobody} /\ Dates # {}
ASSUME RangesAssumption == Ranges \subseteq Nat \ {Nobody} /\ Ranges # {}
ASSUME MaxSendsAssumption == MaxSends \in Nat \ {0}

-----------------------------------------------------------------------------
(***************************************************************************)
(* Corrections.                                                            *)
(*  rows    the requests on screen with their status                       *)
(*  date    the one chosen                                                 *)
(*  times   whether the hours it should read are filled in                 *)
(*  reason  whether three characters of a reason are typed                 *)
(*  said    the request the notice is about                                *)
(***************************************************************************)
Statuses == {"PENDING", "APPROVED", "REJECTED"}

CorrectionsPages ==
    [screen : {"corrections"}, rows : SUBSET [id : Sends, status : Statuses],
     loaded : BOOLEAN, date : Dates, times : BOOLEAN, reason : BOOLEAN,
     error : BOOLEAN, said : Sends \cup {Nobody}, submitting : BOOLEAN]

OpenedCorrections(date) ==
    [screen |-> "corrections", rows |-> {}, loaded |-> FALSE, date |-> date,
     times |-> FALSE, reason |-> FALSE, error |-> FALSE, said |-> Nobody,
     submitting |-> FALSE]

AfterList(p, rows) == [p EXCEPT !.rows = rows, !.loaded = TRUE, !.error = FALSE]

AfterNoList(p) == [p EXCEPT !.error = TRUE]

SubmitOffered(p) == p.reason /\ ~p.submitting

\* Mutated form: the notice comes with the press.
AfterSubmitHopeful(p, id) ==
    [p EXCEPT !.submitting = TRUE, !.error = FALSE, !.said = id]

AfterSubmitRequest(p, id) ==
    [p EXCEPT !.submitting = TRUE, !.error = FALSE, !.said = Nobody]

\* ... taken; the list is asked for before the form is given back.
AfterTaken(p, id) == [p EXCEPT !.said = id, !.reason = FALSE, !.times = FALSE]

AfterNotTaken(p) == [p EXCEPT !.error = TRUE, !.submitting = FALSE]

\* Mutated form: a list that fails leaves the button turning.
ReleasedOnSuccess(p) == IF p.error THEN p ELSE [p EXCEPT !.submitting = FALSE]

Released(p) == [p EXCEPT !.submitting = FALSE]

AfterNotWithdrawn(p) == [p EXCEPT !.error = TRUE]

WithdrawOffered(p) == {r.id : r \in {s \in p.rows : s.status = "PENDING"}}

-----------------------------------------------------------------------------
(***************************************************************************)
(* The attempts of a day as sessions: pairSessions.  Attempts are numbered *)
(* in the order of time.  A pair has the number of its arrival and of its  *)
(* departure, or Nobody, and the attempts refused meanwhile; in is whether *)
(* the last one is open (current).                                         *)
(***************************************************************************)
Attempt == [type : {"CHECK_IN", "CHECK_OUT"}, counted : BOOLEAN]

Pair(in, out, rejected) == [in |-> in, out |-> out, rejected |-> rejected]

\* Mutated form: a departure leaves the session open to what comes after.
PairedOpen(read, i, e) ==
    LET n == Len(read.pairs)
    IN  IF ~e.counted /\ read.open
        THEN [read EXCEPT !.pairs[n].rejected = @ \cup {i}]
        ELSE IF ~e.counted
        THEN [read EXCEPT !.pairs = Append(@, Pair(Nobody, Nobody, {i}))]
        ELSE IF e.type = "CHECK_IN"
        THEN [pairs |-> Append(read.pairs, Pair(i, Nobody, {})), open |-> TRUE]
        ELSE IF read.open
        THEN [read EXCEPT !.pairs[n].out = i]
        ELSE [read EXCEPT !.pairs = Append(@, Pair(Nobody, i, {}))]

Paired(read, i, e) ==
    LET n == Len(read.pairs)
    IN  IF ~e.counted /\ read.open
        THEN [read EXCEPT !.pairs[n].rejected = @ \cup {i}]
        ELSE IF ~e.counted
        THEN [read EXCEPT !.pairs = Append(@, Pair(Nobody, Nobody, {i}))]
        ELSE IF e.type = "CHECK_IN"
        THEN [pairs |-> Append(read.pairs, Pair(i, Nobody, {})), open |-> TRUE]
        ELSE IF read.open
        THEN [pairs |-> [read.pairs EXCEPT ![n].out = i], open |-> FALSE]
        ELSE [read EXCEPT !.pairs = Append(@, Pair(Nobody, i, {}))]

PairSessions(events) ==
    LET read[n \in 0 .. Len(events)] ==
            IF n = 0 THEN [pairs |-> <<>>, open |-> FALSE]
            ELSE Paired(read[n - 1], n, events[n])
    IN  read[Len(events)].pairs

(***************************************************************************)
(* History.                                                                *)
(*  range   what is chosen; data, the range of the days on screen          *)
(*  day     the date of the dialog, Nobody if it is closed                 *)
(*  events  the attempts in it, shown once they have come                  *)
(***************************************************************************)
HistoryPages ==
    [screen : {"history"}, range : Ranges, data : Ranges \cup {Nobody},
     error : BOOLEAN, day : Dates \cup {Nobody}, events : Seq(Attempt),
     shown : BOOLEAN, dayError : BOOLEAN]

OpenedHistory(range) ==
    [screen |-> "history", range |-> range, data |-> Nobody, error |-> FALSE,
     day |-> Nobody, events |-> <<>>, shown |-> FALSE, dayError |-> FALSE]

\* load runs again whenever the choice changes; whatever answer comes is taken.
AfterRange(p, range) == [p EXCEPT !.range = range, !.data = Nobody, !.error = FALSE]
AfterDays(p, range) == [p EXCEPT !.data = range]
AfterNoDays(p) == [p EXCEPT !.error = TRUE]

AfterOpenDay(p, day) ==
    [p EXCEPT !.day = day, !.events = <<>>, !.shown = FALSE, !.dayError = FALSE]
AfterDay(p, events) == [p EXCEPT !.events = events, !.shown = TRUE]
AfterNoDay(p) == [p EXCEPT !.dayError = TRUE]
AfterCloseDay(p) == [p EXCEPT !.day = Nobody]

-----------------------------------------------------------------------------
(***************************************************************************)
(* Profile.  A name stands for all that a member may edit.                 *)
(*  profile   what was read: the name, and the unit the manager gave       *)
(*  form      the name in the form                                         *)
(*  managed, asked  whether there is a manager, or a request for one       *)
(*  said      the save or the request the notice is about                  *)
(***************************************************************************)
Profile == [name : Sends \cup {Nobody}, department : {"none", "given"}]

ProfilePages ==
    [screen : {"profile"}, loaded : BOOLEAN, profile : Profile,
     form : Sends \cup {Nobody}, editing : BOOLEAN, saving : BOOLEAN,
     managed : BOOLEAN, asked : BOOLEAN, code : BOOLEAN, joining : BOOLEAN,
     error : BOOLEAN, said : Sends \cup {Nobody}]

OpenedProfile ==
    [screen |-> "profile", loaded |-> FALSE,
     profile |-> [name |-> Nobody, department |-> "none"], form |-> Nobody,
     editing |-> FALSE, saving |-> FALSE, managed |-> FALSE, asked |-> FALSE,
     code |-> FALSE, joining |-> FALSE, error |-> FALSE, said |-> Nobody]

\* load, which also puts into the form what it has read.
AfterProfile(p, profile) ==
    [p EXCEPT !.loaded = TRUE, !.profile = profile, !.form = profile.name, !.error = FALSE]
AfterNoProfile(p) == [p EXCEPT !.error = TRUE]

AfterManagers(p, managed, asked) == [p EXCEPT !.managed = managed, !.asked = asked]

AfterEdit(p, name) == [p EXCEPT !.editing = TRUE, !.form = name]
CancelOffered(p) == p.editing /\ ~p.saving
JoinOffered(p) == ~p.managed /\ p.code /\ ~p.joining

AfterSaveSent(p) == [p EXCEPT !.saving = TRUE]
AfterSaved(p, id) == [p EXCEPT !.said = id, !.editing = FALSE]
AfterNotSaved(p) == [p EXCEPT !.error = TRUE, !.saving = FALSE]
SaveReleased(p) == [p EXCEPT !.saving = FALSE]

AfterJoinSent(p) == [p EXCEPT !.joining = TRUE]
AfterJoined(p, id) == [p EXCEPT !.said = id, !.code = FALSE]
AfterJoinsRead(p, asked) ==
    [p EXCEPT !.asked = asked, !.error = FALSE, !.joining = FALSE]
AfterNotJoined(p) == [p EXCEPT !.error = TRUE, !.joining = FALSE]

-----------------------------------------------------------------------------
(***************************************************************************)
(* Notifications.                                                          *)
(*  rows    those on screen; unread how many there are that are not read   *)
(***************************************************************************)
NotificationsPages ==
    [screen : {"notifications"}, rows : SUBSET [id : Sends, read : BOOLEAN],
     unread : 0 .. MaxSends, loaded : BOOLEAN, unreadOnly : BOOLEAN,
     error : BOOLEAN, busy : BOOLEAN]

OpenedNotifications ==
    [screen |-> "notifications", rows |-> {}, unread |-> 0, loaded |-> FALSE,
     unreadOnly |-> FALSE, error |-> FALSE, busy |-> FALSE]

\* What a load may find: all there is, or what is not read.
Found(unreadOnly, notes) ==
    IF unreadOnly THEN {n \in notes : ~n.read} ELSE notes

AfterFilter(p) == [p EXCEPT !.unreadOnly = ~@, !.error = FALSE]
AfterNotes(p, unreadOnly, notes) ==
    [p EXCEPT !.rows = Found(unreadOnly, notes), !.loaded = TRUE,
       !.unread = Cardinality({n \in notes : ~n.read})]
AfterNoNotes(p) == [p EXCEPT !.error = TRUE]

\* Mutated form: the count is taken down before the list says so.
AskingNotesCounted(p) == [p EXCEPT !.error = FALSE, !.unread = @ - 1]

AskingNotes(p) == [p EXCEPT !.error = FALSE]

MarkOffered(p) == {n.id : n \in {m \in p.rows : ~m.read}}
MarkAllOffered(p) == p.loaded /\ p.unread > 0 /\ ~p.busy
AfterMarkAllSent(p) == [p EXCEPT !.busy = TRUE]
MarkReleased(p) == [p EXCEPT !.busy = FALSE]
=============================================================================
