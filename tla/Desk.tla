---------------------------------- MODULE Desk ----------------------------------
(***************************************************************************)
(* A manager's desk: the pages of the units, of the records and of the     *)
(* places, the requests they have under way, and the server.               *)
(*                                                                         *)
(* A handler runs to its next await at once, and works on with what its    *)
(* closure saw.  A write is served at any moment, before or after the page *)
(* gave up on it (REQUEST_TIMEOUT_MS, or the network); what is read is the *)
(* server's at the moment it arrives, and a read may fail.  Leaving a page *)
(* does not stop its handlers.                                             *)
(***************************************************************************)
EXTENDS TeamsPage, RecordsPage, PlacesPage, Naturals

CONSTANTS
    Calls,          \* bound: handlers at work at one time, numbered
    Bounds          \* bounds of the model, alternatives of which a behaviour
                    \* takes one: the pages visited, what the manager is up to
                    \* there, the months and days turned to, how often a page
                    \* is opened, how many requests that write are sent, how
                    \* much the others do, the handlers at work; and what is
                    \* on record at first

Bound ==
    [screens : SUBSET {"teams", "records", "places"}, ops : SUBSET Ops,
     months : SUBSET Months, days : SUBSET Days, opens : Nat, acts : Nat,
     others : Nat, calls : SUBSET Calls, units : SUBSET Units,
     standing : [People -> Standings], assigned : SUBSET (People \X Places),
     when : [Punches -> Days \cup {None}]]

ASSUME DeskAssumption == Calls \subseteq Nat /\ Bounds \subseteq Bound

VARIABLES
    page,           \* the page on screen
    calls,          \* the handlers at work
    left            \* what is left of the bounds

vars == <<office, page, calls, left>>

Away == [screen |-> "away"]
Free == [stage |-> "free"]

(***************************************************************************)
(* A handler is at one of the stages                                       *)
(*   "sent"      what it asks for is on its way                            *)
(*   "found"     the server looked up whom to add, and is about to write   *)
(*   "answered"  an answer is on its way back                              *)
(*   "unit"      it reads the places and the people of a unit              *)
(*   "load"      it reads what the page shows                              *)
(*   "members", "pairs"  it reads the people, then who is assigned         *)
(*   "detail"    it reads a record                                         *)
(* and works for the panel, for the page (a panel that is gone), for a     *)
(* page that was left (past), or for nobody, the page having given up.     *)
(* It asks to do op to on, at a unit, a place or a date, one way or the    *)
(* other (yes); words is what the reason that goes with it, or the choice, *)
(* was given about.                                                        *)
(***************************************************************************)
Reads == {"open", "unfold", "openAssign", "detail"}

Errand == [op : Ops \cup Reads, on : Things \cup {None},
           at : Units \cup Places \cup Days \cup {None}, yes : BOOLEAN,
           words : Subjects]

Call ==
    [stage : {"sent", "found", "answered", "unit", "load", "members", "pairs", "detail"},
     ask : Errand, by : {"panel", "page", "past", "lost"}, well : BOOLEAN,
     found : SUBSET (People \X Standings),
     todo : SUBSET (People \X {"assign", "unassign"}), draft : SUBSET People]

TypeOK ==
    /\ OfficeTypeOK
    /\ page \in {Away} \cup TeamsPages \cup RecordsPages \cup PlacesPages
    /\ calls \in [Calls -> {Free} \cup Call]
    /\ left \in Bound

Init ==
    /\ left \in Bounds
    /\ OfficeInit(left.units, left.standing, left.assigned, left.when)
    /\ page = Away
    /\ calls = [c \in Calls |-> Free]

OnTeams   == page.screen = "teams"
OnRecords == page.screen = "records"
OnPlaces  == page.screen = "places"

-----------------------------------------------------------------------------
(* The parts of an action.                                                 *)

Spend(what) == left[what] > 0 /\ left' = [left EXCEPT ![what] = @ - 1]

HasPanel(p) == p.screen = "records" /\ p.panel # None

\* The page becomes p, and the handlers cs; a panel follows its page, and its
\* handlers outlive it.
Turn(p, cs) ==
    LET q == IF p.screen = "records" THEN Settled(p) ELSE p
    IN  /\ page' = q
        /\ calls' = [c \in Calls |->
             IF cs[c] # Free /\ cs[c].by = "panel" /\ ~HasPanel(q)
             THEN [cs[c] EXCEPT !.by = "page"] ELSE cs[c]]

With(c, call) == [calls EXCEPT ![c] = call]

At(c, stage)  == calls[c].stage = stage
Moved(c, stage) == With(c, [calls[c] EXCEPT !.stage = stage])

Unused(c) ==
    /\ c \in left.calls /\ calls[c] = Free
    /\ \A d \in left.calls : calls[d] = Free => c <= d

Handler(stage, ask, by) ==
    [stage |-> stage, ask |-> ask, by |-> by, well |-> FALSE, found |-> {},
     todo |-> {}, draft |-> {}]

Read(op, on) == Wish(op, on, None, TRUE, None)

\* Whether the page of the handler is still the one on screen.
Here(c) == calls[c].by \in {"page", "panel"}

-----------------------------------------------------------------------------
(* Moving about.                                                           *)

\* What the manager is up to: forms of other things stay empty.
Wanted(p) ==
    /\ p.screen = "teams" =>
         /\ p.adding # None => "attach" \in left.ops
         /\ p.inviting # None => "addMembers" \in left.ops
         /\ p.naming => "createTeam" \in left.ops
         /\ p.rejecting # None => left.ops \cap {"join", "paper"} # {}
         /\ p.detail # None => left.ops \cap {"suspend", "remove"} # {}
    /\ p.screen = "records" =>
         /\ p.month \in left.months /\ p.day \in left.days \cup {None}
         /\ HasPanel(p) => (p.panel.words # None => "adjust" \in left.ops)
                             /\ (p.panel.why # None => "deleteDay" \in left.ops)

\* What a handler reads for a page that was left shows nowhere.
LeftBehind ==
    [c \in Calls |-> IF calls[c].stage \notin {"sent", "found", "answered"} THEN Free
                     ELSE IF calls[c].by = "lost" THEN calls[c]
                     ELSE [calls[c] EXCEPT !.by = "past"]]

Open(c, p) ==
    /\ page = Away /\ p.screen \in left.screens /\ Wanted(p)
    /\ Spend("opens")
    /\ IF p.screen = "records" THEN Turn(p, calls)
       ELSE Unused(c) /\ Turn(p, With(c, Handler("load", Read("open", None), "page")))
    /\ UNCHANGED office

Leave ==
    /\ page # Away /\ left.opens > 0
    /\ page' = Away /\ calls' = LeftBehind
    /\ UNCHANGED <<office, left>>

Moves == IF OnTeams THEN TeamsTyping(page)
         ELSE IF OnRecords THEN RecordsMoves(page)
         ELSE IF OnPlaces THEN PlacesMoves(page) ELSE {}

Move ==
    /\ \E p \in Moves : Wanted(p) /\ Turn(p, calls)
    /\ UNCHANGED <<office, left>>

-----------------------------------------------------------------------------
(* What the manager asks for.                                              *)

\* toggleTeam.
Toggle(c) ==
    /\ OnTeams /\ page.detail = None
    /\ \E u \in page.teams :
         IF page.unit = u THEN Turn(AfterFold(page), calls)
         ELSE Unused(c) /\ Turn(AfterUnfold(page, u),
                                With(c, Handler("unit", Read("unfold", u), "page")))
    /\ UNCHANGED <<office, left>>

\* switchHalf, to a record that is not known yet.
Switch(c) ==
    /\ OnRecords /\ page.panel # None
    /\ \E half \in {"in", "out"} :
         /\ SwitchOffered(page.panel, half) /\ KnownAs(page.panel, half) = {}
         /\ Unused(c)
         /\ Turn([page EXCEPT !.panel = AfterSwitch(@, half)],
                 With(c, Handler("detail", Read("detail", HalfOf(page.panel.of, half)),
                                 "panel")))
    /\ UNCHANGED <<office, left>>

OpenAssign(c) ==
    /\ OnPlaces /\ AssignOffered(page) /\ "assign" \in left.ops
    /\ Unused(c)
    /\ Turn(AfterOpenAssign(page, page.picked),
            With(c, Handler("members", Read("openAssign", page.picked), "page")))
    /\ UNCHANGED <<office, left>>

\* The next call of saveAssignments: first those that assign.
NextOf(todo) ==
    LET first == {job \in todo : job[2] = "assign"} IN IF first = {} THEN todo ELSE first

Job(job, l) == Wish(job[2], job[1], l, TRUE, None)

SaveTicks(c) ==
    /\ OnPlaces /\ SaveTicksOffered(page)
    /\ LET todo == (ToAssign(page) \X {"assign"}) \cup (ToUnassign(page) \X {"unassign"})
       IN  IF todo = {} THEN Turn(AfterSaveTicks(page), calls) /\ UNCHANGED left
           ELSE /\ Spend("acts") /\ Unused(c)
                /\ \E job \in NextOf(todo) :
                     Turn(AfterSaveTicks(page),
                          With(c, [Handler("sent", Job(job, page.assigning), "page") EXCEPT
                                     !.todo = todo, !.draft = page.draft]))
    /\ UNCHANGED office

\* The server gives what is created an identity of its own.
Fresh(ask) ==
    ask.op \in {"createTeam", "createLocation"} =>
      \A d \in Calls : calls[d] # Free => calls[d].ask.on # ask.on

\* Every other request that writes.
Send(c) ==
    /\ Spend("acts") /\ Unused(c)
    /\ \/ /\ OnTeams
          /\ \E ask \in TeamsAsks(page) :
               /\ ask.op \in left.ops /\ Fresh(ask)
               /\ Turn(AfterRun(page, ask), With(c, Handler("sent", ask, "page")))
       \/ /\ OnRecords
          /\ \E ask \in RecordsAsks(page) :
               /\ ask.op \in left.ops
               /\ Turn([page EXCEPT !.panel = AfterPanelAsks(@, ask.op)],
                       With(c, Handler("sent", ask, "panel")))
       \/ /\ OnPlaces
          /\ \E ask \in PlacesAsks(page) :
               /\ ask.op \in left.ops /\ Fresh(ask)
               /\ Turn(AfterPlaceAsks(page, ask), With(c, Handler("sent", ask, "page")))
    /\ UNCHANGED office

-----------------------------------------------------------------------------
(* The server.                                                             *)

\* The answer goes back, if the page still waits for it.
Reply(c, call) ==
    /\ calls' = With(c, IF call.by = "lost" THEN Free ELSE [call EXCEPT !.stage = "answered"])
    /\ UNCHANGED <<page, left>>

\* A record may be adjusted, or not, by the rules of its times.
Served(c) ==
    /\ At(c, "sent") /\ calls[c].ask.op # "addMembers"
    /\ LET ask == calls[c].ask
       IN  \/ /\ Takes(ask)
              /\ office' = Log(Changed(ask), Told(ask, ask.on))
              /\ Reply(c, [calls[c] EXCEPT !.well = TRUE])
           \/ /\ Takes(ask) => ask.op = "adjust"
              /\ Reply(c, calls[c])
              /\ UNCHANGED office

\* bulk_add_members, in two steps, to a unit of the manager: none is deleted here.
LookedUp(c) ==
    /\ At(c, "sent") /\ calls[c].ask.op = "addMembers"
    /\ calls' = With(c, [calls[c] EXCEPT !.stage = "found",
                                         !.found = ToAdd(calls[c].ask.on)])
    /\ UNCHANGED <<office, page, left>>

Those(found) == {pair[1] : pair \in found}

Added(c) ==
    /\ At(c, "found")
    /\ IF MayAdd(calls[c].found)
       THEN /\ office' = Log(Add(calls[c].found, calls[c].ask.at),
                             Told(calls[c].ask, Those(calls[c].found)))
            /\ Reply(c, [calls[c] EXCEPT !.well = TRUE])
       ELSE Reply(c, calls[c]) /\ UNCHANGED office

\* A request nobody waits for any more never gets there.
Vanishes(c) ==
    /\ At(c, "sent") /\ calls[c].by = "lost"
    /\ calls' = With(c, Free)
    /\ UNCHANGED <<office, page, left>>

-----------------------------------------------------------------------------
(* The answers.                                                            *)

\* What the page says of the act.
Tale(c) ==
    Told(calls[c].ask, IF calls[c].ask.op = "addMembers" THEN Those(calls[c].found)
                       ELSE calls[c].ask.on)

\* The handler gets on, with what it asked for done.
WellInTeams(c) ==
    LET ask == calls[c].ask p == AfterWrite(page, ask)
    IN  IF Refetches(ask) THEN Turn(p, Moved(c, "unit"))
        ELSE Turn(AfterWork(p, Tale(c)), Moved(c, "load"))

WellInRecords(c) ==
    LET ask == calls[c].ask
        p == IF calls[c].by = "panel"
             THEN [page EXCEPT !.panel = AfterPanelAnswer(@, ask, TRUE)] ELSE page
    IN  Turn(AfterChange(p, ask.op), With(c, Free))

\* saveAssignments: the next call, or the end.
WellOfTicks(c) ==
    LET call == calls[c]
        rest == call.todo \ {<<call.ask.on, call.ask.op>>}
    IN  IF rest = {}
        THEN Turn(IF Here(c) THEN AfterTicksSaved(page, call.draft) ELSE page, With(c, Free))
        ELSE \E job \in NextOf(rest) :
               Turn(page, With(c, [call EXCEPT !.stage = "sent", !.well = FALSE, !.todo = rest,
                                               !.ask = Job(job, call.ask.at)]))

OfTicks(c) == calls[c].ask.op \in {"assign", "unassign"}

Heard(c) ==
    /\ At(c, "answered") /\ calls[c].well
    /\ IF OfTicks(c) THEN WellOfTicks(c)
       ELSE IF ~Here(c) THEN Turn(page, With(c, Free))
       ELSE IF OnTeams THEN WellInTeams(c)
       ELSE IF OnRecords THEN WellInRecords(c)
       ELSE Turn(AfterPlaceDone(page, calls[c].ask), Moved(c, "load"))
    /\ UNCHANGED <<office, left>>

\* What a handler leaves of its page when what it asked for failed.
Failed(c) ==
    LET ask == calls[c].ask
    IN  IF ~Here(c) THEN page
        ELSE IF OnTeams THEN AfterRunEnds(page, ask, FALSE)
        ELSE IF OnPlaces
        THEN IF OfTicks(c) THEN AfterTicksFailed(page) ELSE AfterPlaceEnds(page, ask)
        ELSE IF calls[c].by = "panel"
        THEN [page EXCEPT !.panel = AfterPanelAnswer(@, ask, FALSE)] ELSE page

Refused(c) ==
    /\ At(c, "answered") /\ ~calls[c].well
    /\ Turn(Failed(c), With(c, Free))
    /\ UNCHANGED <<office, left>>

\* The page gives up on the answer, which is lost, or on the request, which
\* the server may still be about to serve.
Unheard(c) ==
    /\ calls[c].stage \in {"sent", "found", "answered"} /\ calls[c].by # "lost"
    /\ Turn(Failed(c), With(c, IF At(c, "answered") THEN Free ELSE [calls[c] EXCEPT !.by = "lost"]))
    /\ UNCHANGED <<office, left>>

-----------------------------------------------------------------------------
(* What is read arrives, or does not.                                      *)

\* The lists of a unit, for toggleTeam or within an act.
UnitCame(c) ==
    /\ At(c, "unit")
    /\ LET ask == calls[c].ask
       IN  IF ask.op = "unfold" THEN Turn(AfterUnit(page, ask.on), With(c, Free))
           ELSE Turn(AfterWork(AfterUnit(page, ask.at), Tale(c)), Moved(c, "load"))
    /\ UNCHANGED <<office, left>>

NoUnit(c) ==
    /\ At(c, "unit")
    /\ Turn(IF calls[c].ask.op = "unfold" THEN page ELSE AfterRunEnds(page, calls[c].ask, FALSE),
            With(c, Free))
    /\ UNCHANGED <<office, left>>

\* load, which catches what fails; then the end of the handler.
Ended(p, ask) ==
    IF ask.op = "open" THEN p
    ELSE IF OnTeams THEN AfterRunEnds(p, ask, TRUE) ELSE AfterPlaceEnds(p, ask)

LoadCame(c) ==
    /\ At(c, "load")
    /\ IF OnTeams
       THEN \E queues \in SUBSET {"joins", "papers"} :
              Turn(Ended(AfterTeams(page, queues), calls[c].ask), With(c, Free))
       ELSE Turn(Ended(AfterPlaces(page), calls[c].ask), With(c, Free))
    /\ UNCHANGED <<office, left>>

NoLoad(c) ==
    /\ At(c, "load")
    /\ IF OnTeams
       THEN \E queues \in SUBSET {"joins", "papers"} :
              Turn(Ended(AfterNoTeams(page, queues), calls[c].ask), With(c, Free))
       ELSE Turn(Ended(page, calls[c].ask), With(c, Free))
    /\ UNCHANGED <<office, left>>

\* openAssign, of its two awaits.
MembersCame(c) ==
    /\ At(c, "members")
    /\ Turn(AfterMembers(page), Moved(c, "pairs"))
    /\ UNCHANGED <<office, left>>

PairsCame(c) ==
    /\ At(c, "pairs")
    /\ Turn(AfterPairs(page, calls[c].ask.on), With(c, Free))
    /\ UNCHANGED <<office, left>>

\* switchHalf: the record goes on the form of the panel, of whatever line the
\* panel is by now.
DetailCame(c) ==
    /\ At(c, "detail")
    /\ Turn(IF calls[c].by = "panel" THEN [page EXCEPT !.panel = LoadForm(@, calls[c].ask.on)]
            ELSE page, With(c, Free))
    /\ UNCHANGED <<office, left>>

NotRead(c) ==
    /\ calls[c].stage \in {"members", "pairs", "detail"}
    /\ Turn(page, With(c, Free))
    /\ UNCHANGED <<office, left>>

\* The runs of the effects of the page of records.
CalendarCame ==
    /\ OnRecords
    /\ \E load \in page.asked :
         Turn(AfterCalendar(page, load), calls) \/ Turn(AfterNoCalendar(page, load), calls)
    /\ UNCHANGED <<office, left>>

DayCame ==
    /\ OnRecords
    /\ \E day \in page.loading : Turn(AfterDay(page, day), calls) \/ Turn(AfterNoDay(page, day), calls)
    /\ UNCHANGED <<office, left>>

FetchCame ==
    /\ HasPanel(page)
    /\ \E f \in page.panel.fetching :
         \/ Turn([page EXCEPT !.panel = AfterFetch(@, f)], calls)
         \/ Turn([page EXCEPT !.panel = AfterNoFetch(@, f)], calls)
    /\ UNCHANGED <<office, left>>

-----------------------------------------------------------------------------
(* The specification.                                                      *)

\* People who join, and another manager.
Others ==
    /\ \E x \in People :
         \/ Spend("others") /\ \E u \in Units : RequestJoin(x, u)
         \/ Spend("others") /\ TheyLookUp(x)
         \/ Spend("others") /\ TheyRelease(x)
         \/ TheyAdd(x) /\ UNCHANGED left
    /\ UNCHANGED <<page, calls>>

\* A handler that awaits something gets on: by the answer, or for want of one.
Awaited(c) ==
    Heard(c) \/ Refused(c) \/ Unheard(c) \/ UnitCame(c) \/ NoUnit(c) \/ LoadCame(c)
      \/ NoLoad(c) \/ MembersCame(c) \/ PairsCame(c) \/ DetailCame(c) \/ NotRead(c)

Next ==
    \/ \E c \in Calls :
         \/ Open(c, OpenedTeams) \/ Open(c, OpenedPlaces)
         \/ \E month \in Months : Open(c, OpenedRecords(month))
         \/ Toggle(c) \/ Switch(c) \/ OpenAssign(c) \/ SaveTicks(c) \/ Send(c)
         \/ Served(c) \/ LookedUp(c) \/ Added(c) \/ Vanishes(c) \/ Awaited(c)
    \/ Leave \/ Move \/ CalendarCame \/ DayCame \/ FetchCame \/ Others

Spec == Init /\ [][Next]_vars

\* Every request ends by its answer or by its timeout (REQUEST_TIMEOUT_MS):
\* no more is assumed, nothing of the server nor of the manager.
FairSpec == Spec /\ \A c \in Calls : WF_vars(Awaited(c))

-----------------------------------------------------------------------------
(* Properties.                                                             *)

(***************************************************************************)
(* A person is ACTIVE with one manager at a time, although every way in    *)
(* (request_join, decide_join_request, bulk_add_members, update_membership *)
(* of a row closed long ago) looks first and writes later: what holds is   *)
(* the index of migration 019.                                             *)
(***************************************************************************)
OneManagerEach == \A x \in People : Cardinality(ActiveRows(x)) <= 1

(***************************************************************************)
(* What the page of the units says was done, was done, and to whom it      *)
(* says: an answer that is lost, a batch another manager got ahead of, a   *)
(* list that cannot be read again announce nothing that is not on record   *)
(* (run, invite and decide).                                               *)
(***************************************************************************)
SaysWhatWasDone == OnTeams /\ page.notice # None => page.notice \in office.done

(***************************************************************************)
(* The calendar under the heading of a month is the calendar of that       *)
(* month, in whatever order the months that were turned to and the         *)
(* refreshes after a change are answered.                                  *)
(***************************************************************************)
CalendarIsOfMonth == OnRecords /\ page.data # None => page.data = page.month

(***************************************************************************)
(* The photographs of the panel are of the line it shows: those of the     *)
(* line before, late, are never put beside another person's record.        *)
(***************************************************************************)
PhotosAreOfPanel == HasPanel(page) => page.panel.photos \subseteq {page.panel.of}

(***************************************************************************)
(* No request carries a reason, a choice or an address that was given      *)
(* about something else: not a refusal the reason of another, nor an       *)
(* adjustment that of the record shown before, nor a deletion that of      *)
(* another day, nor an invitation the addresses typed under another unit.  *)
(***************************************************************************)
About(ask) ==
    CASE ask.op \in {"join", "paper", "adjust"} -> ask.on
      [] ask.op = "deleteDay" -> <<ask.on, ask.at>>
      [] OTHER -> ask.at

NeverMisattributed ==
    \A c \in Calls : calls[c] # Free => calls[c].ask.words \in {None, About(calls[c].ask)}

(***************************************************************************)
(* Saving the ticks of a place changes nobody the manager did not tick or  *)
(* untick since the people were last listed, however late the lists of     *)
(* that place, or of the one before, arrive.                               *)
(***************************************************************************)
OnlyWhatWasTicked ==
    OnPlaces /\ page.assigning # None => ToAssign(page) \cup ToUnassign(page) \subseteq page.touched

(***************************************************************************)
(* Whatever was pressed becomes pressable again: no sequence of answers    *)
(* lost, refused or late leaves the buttons of a page disabled for good    *)
(* (the finally of run, submitAdjust, removeDay, save, saveAssignments).   *)
(***************************************************************************)
Busy ==
    \/ OnTeams /\ page.busy
    \/ HasPanel(page) /\ (page.panel.adjusting \/ page.panel.deleting)
    \/ OnPlaces /\ (page.saving \/ page.assignBusy)

EveryActionEnds == Busy ~> ~Busy
=============================================================================
