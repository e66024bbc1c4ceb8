------------------------------- MODULE TeamsPage -------------------------------
(***************************************************************************)
(* The page a manager runs the units on (app/manager/teams/page.tsx):      *)
(* functions of the page.  The manager has every permission.  A queue tile *)
(* and a disclosure are one click away whatever the page does, and are not *)
(* part of it.                                                             *)
(***************************************************************************)
EXTENDS Office

(***************************************************************************)
(*  teams, open    the units as loaded, those shown to take people in      *)
(*  locations      the places that may be attached                         *)
(*  joins, papers  the queues                                              *)
(*  unit           the one that is unfolded (openTeam)                     *)
(*  places, roster what is listed under it; nothing until it is loaded     *)
(*  adding         the place chosen to attach (placeToAdd), and under      *)
(*                 which unit it was chosen                                *)
(*  inviting       the people whose addresses are typed (inviteEmail), and *)
(*                 under which unit                                        *)
(*  naming         whether a name for a new unit is typed                  *)
(*  rejecting      the request the form of the refusal is about            *)
(*  words          what the reason in it was typed about (note)            *)
(*  detail         the person of the dialog (detailFor)                    *)
(*  busy, notice   a request is under way; what the page says was done     *)
(***************************************************************************)
Chosen    == (Places \X Units) \cup {None}
Addressed == ((SUBSET People) \X Units) \cup {None}

TeamsPages ==
    [screen : {"teams"}, teams : SUBSET Units, open : SUBSET Units,
     locations : SUBSET Places, joins : SUBSET People, papers : SUBSET Papers,
     unit : Units \cup {None}, places : SUBSET Places, roster : SUBSET People,
     adding : Chosen, inviting : Addressed, naming : BOOLEAN,
     rejecting : People \cup Papers \cup {None},
     words : People \cup Papers \cup {None}, detail : People \cup {None},
     busy : BOOLEAN, notice : Tales \cup {None}]

OpenedTeams ==
    [screen |-> "teams", teams |-> {}, open |-> {}, locations |-> {}, joins |-> {},
     papers |-> {}, unit |-> None, places |-> {}, roster |-> {}, adding |-> None,
     inviting |-> None, naming |-> FALSE, rejecting |-> None, words |-> None, detail |-> None,
     busy |-> FALSE, notice |-> None]

-----------------------------------------------------------------------------
(* What the handlers leave of the page.                                    *)

\* load.  What cannot be read is shown empty.
AfterTeams(p, queues) ==
    [p EXCEPT !.teams = office.units, !.open = office.open, !.locations = office.lit,
       !.joins = IF "joins" \in queues THEN Joins ELSE {},
       !.papers = IF "papers" \in queues THEN office.waiting ELSE {}]

AfterNoTeams(p, queues) ==
    [AfterTeams(p, queues) EXCEPT !.teams = {}, !.open = p.open,
                                 !.locations = p.locations]

\* toggleTeam, to its first await.
AfterFold(p) == [p EXCEPT !.unit = None]

AfterUnfold(p, u) ==
    [p EXCEPT !.unit = u, !.places = {}, !.roster = {}, !.adding = None, !.inviting = None]

\* Both lists of unit u have come, to toggleTeam or to refreshTeam.  Neither
\* looks whether u is still the one unfolded.
AfterUnit(p, u) == [p EXCEPT !.places = PlacesOf(u), !.roster = Roster(u)]

\* Mutated form: the success is announced with the request.
AfterRunHopeful(p, ask) == [p EXCEPT !.busy = TRUE, !.notice = Told(ask, ask.on)]

\* run, to the await of the work.
AfterRun(p, ask) == [p EXCEPT !.busy = TRUE]

\* The work succeeded so far: what it clears.
AfterWrite(p, ask) ==
    CASE ask.op = "createTeam" -> [p EXCEPT !.naming = FALSE]
      [] ask.op = "attach"     -> [p EXCEPT !.adding = None]
      [] ask.op = "addMembers" -> [p EXCEPT !.inviting = None]
      [] ask.op \in {"join", "paper"} -> [p EXCEPT !.rejecting = None, !.words = None]
      [] OTHER -> p

\* Whose lists the work reads before it ends.
Refetches(ask) ==
    ask.op \in {"attach", "detach", "addMembers", "suspend", "remove"}
      \/ (ask.op \in {"join", "paper"} /\ ask.at # None)

\* The work is done: its message, if it has one.
AfterWork(p, tale) ==
    IF tale.op \in Announced THEN [p EXCEPT !.notice = tale] ELSE p

\* Mutated form: a failure leaves the buttons as they are.
AfterRunEndsWhenWell(p, ask, well) == [p EXCEPT !.busy = ~well]

\* finally; what was asked from the dialog closes it.
AfterRunEnds(p, ask, well) ==
    [p EXCEPT !.busy = FALSE,
       !.detail = IF ask.op \in {"suspend", "remove"} THEN None ELSE @]

-----------------------------------------------------------------------------
(* What the manager may do.                                                *)

AfterRejecting(p, what) == [p EXCEPT !.rejecting = what, !.words = None]

RejectOffered(p, what) == ~p.busy /\ what \in p.joins \cup p.papers

DecideOp(what) == IF what \in People THEN "join" ELSE "paper"

Decision(p, what, yes) ==
    Wish(DecideOp(what), what, p.unit, yes, IF yes THEN None ELSE p.words)

\* What the body of the unit that is unfolded offers.
UnitAsks(p) ==
    {Wish("updateTeam", p.unit, None, p.unit \notin p.open, None)}
      \cup {Wish("detach", l, p.unit, TRUE, None) : l \in p.places}
      \cup (IF p.adding = None THEN {}
            ELSE {Wish("attach", p.adding[1], p.unit, TRUE, p.adding[2])})
      \cup (IF p.inviting = None THEN {}
            ELSE {Wish("addMembers", p.inviting[1], p.unit, TRUE, p.inviting[2])})

\* The dialog of a person covers the page.
DetailAsks(p) ==
    IF p.unit = None THEN {}
    ELSE {Wish(op, p.detail, p.unit, TRUE, None) : op \in {"suspend", "remove"}}

\* The requests the page lets the manager send.
TeamsAsks(p) ==
    IF p.busy THEN {} ELSE IF p.detail # None THEN DetailAsks(p)
    ELSE {Decision(p, what, TRUE) : what \in p.joins \cup p.papers}
           \cup (IF p.rejecting = None THEN {} ELSE {Decision(p, p.rejecting, FALSE)})
           \cup (IF ~p.naming THEN {}
                 ELSE {Wish("createTeam", u, None, TRUE, None) : u \in Units \ office.units})
           \cup (IF p.unit \in p.teams THEN UnitAsks(p) ELSE {})

\* What is typed, chosen or opened on the page, and sends nothing.
TeamsTyping(p) ==
    IF p.detail # None THEN {[p EXCEPT !.detail = None]}
    ELSE {AfterRejecting(p, what) : what \in {w \in p.joins \cup p.papers : RejectOffered(p, w)}}
           \cup (IF p.rejecting = None THEN {}
                 ELSE {[p EXCEPT !.words = p.rejecting], [p EXCEPT !.rejecting = None]})
           \cup {[p EXCEPT !.naming = TRUE]}
           \cup (IF p.unit \notin p.teams THEN {} ELSE
                   {[p EXCEPT !.detail = x] : x \in p.roster}
                     \cup {[p EXCEPT !.adding = <<l, p.unit>>] : l \in p.locations \ p.places}
                     \cup {[p EXCEPT !.inviting = <<who, p.unit>>] :
                             who \in SUBSET People \ {{}}})
=============================================================================
