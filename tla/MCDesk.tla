------------------------------- MODULE MCDesk -------------------------------
EXTENDS Desk, TLC

CONSTANTS ann, bob, north, south, site, yard, face, june, july, d1, d2, in1, out1, in2

\* Ann came and left on the first day, and came on the second.
DeskWho  == [e \in Punches |-> ann]
DeskKind == (in1 :> "in") @@ (out1 :> "out") @@ (in2 :> "in")

All(standing) == [x \in People |-> standing]

Small ==
    [screens |-> {"teams"}, ops |-> {}, months |-> {june}, days |-> {d1}, opens |-> 1,
     acts |-> 1, others |-> 0, calls |-> {1, 2}, units |-> {north},
     standing |-> All("none"), assigned |-> {}, when |-> [e \in Punches |-> None]]

Queued  == [Small EXCEPT !.standing = [All("ACTIVE") EXCEPT ![ann] = "PENDING"]]
Records == [Small EXCEPT !.screens = {"records"},
             !.when = (in1 :> d1) @@ (out1 :> d1) @@ (in2 :> d2)]
Spots   == [Small EXCEPT !.screens = {"places"}, !.standing = All("ACTIVE"),
             !.assigned = {<<ann, site>>}]

\* In this order: a batch that another manager gets ahead of; two units, one
\* unfolded while the other is answered; the first unit; two requests decided
\* at once, or one twice; a person suspended whom another manager takes on;
\* two days looked at; an edit and a deletion at once; an edit as the month is
\* turned; the ticks of two people, and those of one as the place is changed;
\* the forms of two places, over two visits.
SmallBounds ==
    {[Small EXCEPT !.ops = {"addMembers"}, !.others = 3, !.calls = {1}],
     [Small EXCEPT !.ops = {"attach", "detach", "addMembers", "updateTeam"},
       !.units = {north, south}],
     [Small EXCEPT !.ops = {"createTeam"}, !.units = {}, !.acts = 2],
     [Queued EXCEPT !.ops = {"join", "paper"}, !.acts = 2],
     [Queued EXCEPT !.ops = {"join", "suspend", "remove"}, !.others = 2, !.calls = {1}],
     [Records EXCEPT !.days = {d1, d2}],
     [Records EXCEPT !.ops = {"adjust", "deleteDay"}],
     [Records EXCEPT !.ops = {"adjust"}, !.months = {june, july}, !.calls = {1}],
     [Spots EXCEPT !.ops = {"assign", "unassign"}, !.calls = {1}],
     [Spots EXCEPT !.ops = {"assign", "unassign"}, !.standing[bob] = "none"],
     [Spots EXCEPT !.acts = 2, !.opens = 2,
       !.ops = {"saveLocation", "createLocation", "switchOff", "switchOn", "destroy"}]}
=============================================================================
