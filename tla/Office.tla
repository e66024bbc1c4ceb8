-------------------------------- MODULE Office --------------------------------
(***************************************************************************)
(* The server as one manager's desk meets it: the units and who is in      *)
(* them, the places and who may use them, the requests that wait and the   *)
(* records of attendance.                                                  *)
(*                                                                         *)
(* A write is one transaction, and one step here, except the batch that    *)
(* adds members: it looks every person up before it writes, and another    *)
(* manager may take one of them on in between.                             *)
(***************************************************************************)
EXTENDS FiniteSets

CONSTANTS
    People,         \* the accounts the manager deals with
    Units,          \* the units there may be (teams)
    Places,         \* the places there may be (locations)
    Worked,         \* the places that have attendance on record
    Papers,         \* requests for another face or for a corrected day
    Punches,        \* records of attendance
    Who,            \* whose record it is ...
    Kind,           \* ... and which half of a day: "in" or "out"
    Days,           \* calendar dates
    None            \* nobody, no place, no date ...

ASSUME OfficeAssumption ==
    /\ Worked \subseteq Places
    /\ Who \in [Punches -> People] /\ Kind \in [Punches -> {"in", "out"}]
    /\ None \notin People \cup Units \cup Places \cup Papers \cup Punches \cup Days

VARIABLE
    office          \* the rows of the database

Standings == {"none", "PENDING", "ACTIVE", "SUSPENDED", "REMOVED", "REJECTED"}

\* What the desk asks for.
Ops == {"createTeam", "updateTeam", "attach", "detach", "addMembers", "suspend",
        "remove", "join", "paper", "adjust", "deleteDay", "saveLocation",
        "createLocation", "switchOff", "switchOn", "destroy", "assign", "unassign"}

Things == People \cup Units \cup Places \cup Papers \cup Punches \cup SUBSET People

\* What words may have been typed about: the day of a person, too.
Subjects == People \cup Units \cup Papers \cup Punches \cup {None} \cup (People \X Days)

\* What is asked: to do op to on, at a unit, a place or a date, one way or the
\* other (yes); words is what the reason that goes with it was given about.
Wish(op, on, at, yes, words) ==
    [op |-> op, on |-> on, at |-> at, yes |-> yes, words |-> words]

\* What is told of an act once it is done, and what the audit log keeps.
Told(ask, on) == [op |-> ask.op, on |-> on, yes |-> ask.yes]
Tales == [op : Ops, on : Things, yes : BOOLEAN]

(***************************************************************************)
(*  units, open  the units there are, those that take people in            *)
(*  standing, unit  the membership of each person with this manager        *)
(*  elsewhere    who is ACTIVE with another manager                        *)
(*  wooed        whom the other manager found free, and is about to add    *)
(*  attached     team_locations                                            *)
(*  kept, lit    the places there are, those that are on                   *)
(*  assigned     member_locations                                          *)
(*  waiting      the papers nobody decided                                 *)
(*  when         the date of each record, None once it is deleted          *)
(*  done         the acts on record, those a page speaks of                *)
(***************************************************************************)
Rows ==
    [units : SUBSET Units, open : SUBSET Units,
     standing : [People -> Standings], unit : [People -> Units \cup {None}],
     elsewhere : SUBSET People, wooed : SUBSET People,
     attached : SUBSET (Units \X Places), kept : SUBSET Places,
     lit : SUBSET Places, assigned : SUBSET (People \X Places),
     waiting : SUBSET Papers, when : [Punches -> Days \cup {None}],
     done : SUBSET Tales]

OfficeTypeOK == office \in Rows

OfficeInit(units, standing, assigned, when) ==
    office = [units |-> units, open |-> units, standing |-> standing,
              unit |-> [x \in People |-> IF standing[x] = "none" \/ units = {} THEN None
                                         ELSE CHOOSE u \in units : TRUE],
              elsewhere |-> {}, wooed |-> {}, attached |-> {}, kept |-> Places,
              lit |-> Places, assigned |-> assigned, waiting |-> Papers, when |-> when,
              done |-> {}]

-----------------------------------------------------------------------------
(* Reads.                                                                  *)

Joins     == {x \in People : office.standing[x] = "PENDING"}
Roster(u) == {x \in People : office.standing[x] = "ACTIVE" /\ office.unit[x] = u}
Managed   == {x \in People : office.standing[x] = "ACTIVE"}
PlacesOf(u)    == {l \in Places : <<u, l>> \in office.attached}

\* Mutated form: those who are not assigned stay in the list, as null.
AssignedToOrNot(l) == {IF <<x, l>> \in office.assigned THEN x ELSE None : x \in Managed}

AssignedTo(l)  == {x \in Managed : <<x, l>> \in office.assigned}

\* The line of one person and date: the arrival and the departure.
Half(x, day, kind) ==
    LET halves == {e \in Punches : Who[e] = x /\ Kind[e] = kind /\ office.when[e] = day}
    IN  IF halves = {} THEN None ELSE CHOOSE e \in halves : TRUE

Session == [who : People, day : Days, in : Punches \cup {None}, out : Punches \cup {None}]

SessionsOn(day) ==
    {[who |-> x, day |-> day, in |-> Half(x, day, "in"), out |-> Half(x, day, "out")] :
        x \in {Who[e] : e \in {e \in Punches : office.when[e] = day}}}

-----------------------------------------------------------------------------
(* Membership.                                                             *)

\* The partial unique index on ACTIVE rows, of whom the row is.
ActiveRows(x) ==
    (IF office.standing[x] = "ACTIVE" THEN {"ours"} ELSE {})
      \cup (IF x \in office.elsewhere THEN {"theirs"} ELSE {})

\* Mutated form: without the index of migration 019.
IndexAllowsAny(x, whose) == TRUE

IndexAllows(x, whose) == ActiveRows(x) \subseteq {whose}

MayDecideJoin(x, yes) ==
    /\ office.standing[x] = "PENDING"
    /\ yes => IndexAllows(x, "ours") /\ x \notin office.elsewhere

DecideJoin(x, yes) ==
    [office EXCEPT !.standing[x] = IF yes THEN "ACTIVE" ELSE "REJECTED"]

\* update_membership takes any status of any row.
MayUpdate(x) == office.standing[x] # "none"
Update(x, standing) == [office EXCEPT !.standing[x] = standing]

\* bulk_add_members, the lookups: whom to write, and what was found of them.
ToAdd(emails) ==
    {<<x, office.standing[x]>> :
        x \in {y \in emails : office.standing[y] # "ACTIVE" /\ y \notin office.elsewhere}}

\* ... and the writes: one that an index refuses rolls every other one back.
MayAdd(found) ==
    \A pair \in found :
        /\ IndexAllows(pair[1], "ours")
        /\ pair[2] = "none" => office.standing[pair[1]] = "none"

Add(found, u) ==
    LET added == {pair[1] : pair \in found}
    IN  [office EXCEPT !.standing = [x \in People |-> IF x \in added THEN "ACTIVE" ELSE @[x]],
                       !.unit = [x \in People |-> IF x \in added THEN u ELSE @[x]]]

-----------------------------------------------------------------------------
(* Every other request: whether the server takes it, and what it does.     *)

Owns(u)  == u \in office.units
Keeps(l) == l \in office.kept

\* A place that is on goes to a unit, or to an active member.
MayAttach(l, u) == Owns(u) /\ l \in office.lit
InScope(x) == office.standing[x] = "ACTIVE"
MayAssign(x, l) == InScope(x) /\ l \in office.lit

\* One that was used stays; one that is deleted takes its units and people along.
MayDestroy(l) == Keeps(l) /\ l \notin Worked
Destroyed(l) ==
    [office EXCEPT !.kept = @ \ {l}, !.lit = @ \ {l},
       !.attached = {pair \in @ : pair[2] # l},
       !.assigned = {pair \in @ : pair[2] # l}]

DayRecords(x, day) == {e \in Punches : Who[e] = x /\ office.when[e] = day}
DayDeleted(x, day) ==
    [office EXCEPT !.when = [e \in Punches |-> IF e \in DayRecords(x, day) THEN None ELSE @[e]]]

Takes(ask) ==
    LET on == ask.on at == ask.at
    IN  CASE ask.op \in {"createTeam", "createLocation"} -> TRUE
          [] ask.op = "updateTeam"     -> Owns(on)
          [] ask.op = "attach"         -> MayAttach(on, at)
          [] ask.op = "detach"         -> <<at, on>> \in office.attached
          [] ask.op \in {"suspend", "remove"} -> MayUpdate(on)
          [] ask.op = "join"           -> MayDecideJoin(on, ask.yes)
          [] ask.op = "paper"          -> on \in office.waiting
          [] ask.op = "adjust"         -> office.when[on] # None
          [] ask.op = "deleteDay"      -> DayRecords(on, at) # {}
          [] ask.op \in {"saveLocation", "switchOff", "switchOn"} -> Keeps(on)
          [] ask.op = "destroy"        -> MayDestroy(on)
          [] ask.op = "assign"         -> MayAssign(on, at)
          [] ask.op = "unassign"       -> InScope(on) /\ <<on, at>> \in office.assigned

\* update_location writes is_active as the form has it, yes here.
Changed(ask) ==
    LET on == ask.on at == ask.at
    IN  CASE ask.op = "createTeam" -> [office EXCEPT !.units = @ \cup {on}, !.open = @ \cup {on}]
          [] ask.op = "updateTeam" ->
               [office EXCEPT !.open = IF ask.yes THEN @ \cup {on} ELSE @ \ {on}]
          [] ask.op = "attach"     -> [office EXCEPT !.attached = @ \cup {<<at, on>>}]
          [] ask.op = "detach"     -> [office EXCEPT !.attached = @ \ {<<at, on>>}]
          [] ask.op = "suspend"    -> Update(on, "SUSPENDED")
          [] ask.op = "remove"     -> Update(on, "REMOVED")
          [] ask.op = "join"       -> DecideJoin(on, ask.yes)
          [] ask.op = "paper"      -> [office EXCEPT !.waiting = @ \ {on}]
          [] ask.op = "adjust"     -> [office EXCEPT !.when[on] = at]
          [] ask.op = "deleteDay"  -> DayDeleted(on, at)
          [] ask.op = "createLocation" ->
               [office EXCEPT !.kept = @ \cup {on}, !.lit = @ \cup {on}]
          [] ask.op \in {"saveLocation", "switchOff", "switchOn"} ->
               [office EXCEPT !.lit = IF ask.yes THEN @ \cup {on} ELSE @ \ {on}]
          [] ask.op = "destroy"    -> Destroyed(on)
          [] ask.op = "assign"     -> [office EXCEPT !.assigned = @ \cup {<<on, at>>}]
          [] ask.op = "unassign"   -> [office EXCEPT !.assigned = @ \ {<<on, at>>}]

\* The acts a page speaks of once they are done.
Announced == {"createTeam", "updateTeam", "attach", "addMembers", "join", "paper"}

Log(rows, tale) ==
    IF tale.op \in Announced THEN [rows EXCEPT !.done = @ \cup {tale}] ELSE rows

-----------------------------------------------------------------------------
(* The others.                                                             *)

\* request_join: of a unit that takes people in.
RequestJoin(x, u) ==
    /\ u \in office.open /\ x \notin office.elsewhere
    /\ office.standing[x] \notin {"ACTIVE", "PENDING"}
    /\ office' = [office EXCEPT !.standing[x] = "PENDING", !.unit[x] = u]

\* Another manager looks somebody up, and adds them.
TheyLookUp(x) ==
    /\ ActiveRows(x) = {} /\ x \notin office.wooed
    /\ office' = [office EXCEPT !.wooed = @ \cup {x}]

TheyAdd(x) ==
    /\ x \in office.wooed
    /\ office' = [office EXCEPT !.wooed = @ \ {x},
                    !.elsewhere = IF IndexAllows(x, "theirs") THEN @ \cup {x} ELSE @]

TheyRelease(x) ==
    /\ x \in office.elsewhere
    /\ office' = [office EXCEPT !.elsewhere = @ \ {x}]
=============================================================================
