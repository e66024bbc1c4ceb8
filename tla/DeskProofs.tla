------------------------------ MODULE DeskProofs ------------------------------
(***************************************************************************)
(* What a manager's desk guarantees for any people, units, places, records *)
(* and months, any number of handlers at work, and any other manager.      *)
(***************************************************************************)
EXTENDS PagesProofs, FiniteSetTheorems

-----------------------------------------------------------------------------
(***************************************************************************)
(* The office.                                                             *)
(***************************************************************************)

\* Nobody is active here and with another manager.
NeverBoth(rows) == \A x \in People : ~(rows.standing[x] = "ACTIVE" /\ x \in rows.elsewhere)

OfficeGood(rows) == rows \in Rows /\ NeverBoth(rows)

\* What touches neither a standing nor the other manager's people.
LEMMA StandingKept ==
  ASSUME NEW rows, OfficeGood(rows), NEW r \in Rows, r.standing = rows.standing,
         r.elsewhere = rows.elsewhere
  PROVE  OfficeGood(r)
  BY DEF OfficeGood, NeverBoth

LEMMA RowsTyped ==
  ASSUME NEW rows, OfficeGood(rows)
  PROVE  /\ \A us \in SUBSET Units : OfficeGood([rows EXCEPT !.open = us])
         /\ \A us \in SUBSET Units : OfficeGood([rows EXCEPT !.units = us])
         /\ \A ps \in SUBSET (Units \X Places) : OfficeGood([rows EXCEPT !.attached = ps])
         /\ \A ls \in SUBSET Places : OfficeGood([rows EXCEPT !.kept = ls])
         /\ \A ls \in SUBSET Places : OfficeGood([rows EXCEPT !.lit = ls])
         /\ \A ps \in SUBSET (People \X Places) : OfficeGood([rows EXCEPT !.assigned = ps])
         /\ \A ps \in SUBSET Papers : OfficeGood([rows EXCEPT !.waiting = ps])
         /\ \A w \in [Punches -> Days \cup {None}] : OfficeGood([rows EXCEPT !.when = w])
         /\ \A ts \in SUBSET Tales : OfficeGood([rows EXCEPT !.done = ts])
         /\ \A xs \in SUBSET People : OfficeGood([rows EXCEPT !.wooed = xs])
         /\ \A u \in [People -> Units \cup {None}] : OfficeGood([rows EXCEPT !.unit = u])
<1> rows \in Rows
  BY DEF OfficeGood
<1>1. ASSUME NEW us \in SUBSET Units
      PROVE  OfficeGood([rows EXCEPT !.open = us]) /\ OfficeGood([rows EXCEPT !.units = us])
  <2>1. [rows EXCEPT !.open = us] \in Rows /\ [rows EXCEPT !.units = us] \in Rows
    BY DEF Rows
  <2> QED BY <2>1, StandingKept DEF Rows
<1>2. ASSUME NEW ps \in SUBSET (Units \X Places) PROVE OfficeGood([rows EXCEPT !.attached = ps])
  <2>1. [rows EXCEPT !.attached = ps] \in Rows
    BY DEF Rows
  <2> QED BY <2>1, StandingKept DEF Rows
<1>3. ASSUME NEW ls \in SUBSET Places
      PROVE  OfficeGood([rows EXCEPT !.kept = ls]) /\ OfficeGood([rows EXCEPT !.lit = ls])
  <2>1. [rows EXCEPT !.kept = ls] \in Rows /\ [rows EXCEPT !.lit = ls] \in Rows
    BY DEF Rows
  <2> QED BY <2>1, StandingKept DEF Rows
<1>4. ASSUME NEW ps \in SUBSET (People \X Places) PROVE OfficeGood([rows EXCEPT !.assigned = ps])
  <2>1. [rows EXCEPT !.assigned = ps] \in Rows
    BY DEF Rows
  <2> QED BY <2>1, StandingKept DEF Rows
<1>5. ASSUME NEW ps \in SUBSET Papers PROVE OfficeGood([rows EXCEPT !.waiting = ps])
  <2>1. [rows EXCEPT !.waiting = ps] \in Rows
    BY DEF Rows
  <2> QED BY <2>1, StandingKept DEF Rows
<1>6. ASSUME NEW w \in [Punches -> Days \cup {None}] PROVE OfficeGood([rows EXCEPT !.when = w])
  <2>1. [rows EXCEPT !.when = w] \in Rows
    BY DEF Rows
  <2> QED BY <2>1, StandingKept DEF Rows
<1>7. ASSUME NEW ts \in SUBSET Tales PROVE OfficeGood([rows EXCEPT !.done = ts])
  <2>1. [rows EXCEPT !.done = ts] \in Rows
    BY DEF Rows
  <2> QED BY <2>1, StandingKept DEF Rows
<1>8. ASSUME NEW xs \in SUBSET People PROVE OfficeGood([rows EXCEPT !.wooed = xs])
  <2>1. [rows EXCEPT !.wooed = xs] \in Rows
    BY DEF Rows
  <2> QED BY <2>1, StandingKept DEF Rows
<1>9. ASSUME NEW u \in [People -> Units \cup {None}] PROVE OfficeGood([rows EXCEPT !.unit = u])
  <2>1. [rows EXCEPT !.unit = u] \in Rows
    BY DEF Rows
  <2> QED BY <2>1, StandingKept DEF Rows
<1> QED BY <1>1, <1>2, <1>3, <1>4, <1>5, <1>6, <1>7, <1>8, <1>9

\* A standing changes: nobody becomes active here who is active elsewhere.
LEMMA StandingGood ==
  ASSUME NEW rows, OfficeGood(rows), NEW standing \in [People -> Standings],
         \A x \in People : standing[x] = "ACTIVE" =>
            rows.standing[x] = "ACTIVE" \/ x \notin rows.elsewhere
  PROVE  OfficeGood([rows EXCEPT !.standing = standing])
<1> DEFINE r == [rows EXCEPT !.standing = standing]
<1> rows \in Rows
  BY DEF OfficeGood
<1>1. r \in Rows
  BY DEF Rows
<1>2. r.standing = standing /\ r.elsewhere = rows.elsewhere
  BY DEF Rows
<1> QED BY <1>1, <1>2 DEF OfficeGood, NeverBoth

\* The other manager takes somebody on, or lets somebody go.
LEMMA ElsewhereGood ==
  ASSUME NEW rows, OfficeGood(rows), NEW xs \in SUBSET People,
         \A x \in xs : x \in rows.elsewhere \/ rows.standing[x] # "ACTIVE"
  PROVE  OfficeGood([rows EXCEPT !.elsewhere = xs])
<1> DEFINE r == [rows EXCEPT !.elsewhere = xs]
<1> rows \in Rows
  BY DEF OfficeGood
<1>1. r \in Rows
  BY DEF Rows
<1>2. r.standing = rows.standing /\ r.elsewhere = xs
  BY DEF Rows
<1> QED BY <1>1, <1>2 DEF OfficeGood, NeverBoth

LEMMA IndexKeeps ==
  ASSUME NEW x \in People
  PROVE  /\ IndexAllows(x, "ours") => x \notin office.elsewhere
         /\ IndexAllows(x, "theirs") => office.standing[x] # "ACTIVE"
  BY DEF IndexAllows, ActiveRows

\* What the server does of a request it takes.
LEMMA ChangedOffice ==
  ASSUME OfficeGood(office), NEW ask, GoodAsk(ask), Takes(ask), ask.op # "addMembers"
  PROVE  OfficeGood(Changed(ask)) /\ Changed(ask).done = office.done
<1> DEFINE on == ask.on
           at == ask.at
<1> office \in Rows
  BY DEF OfficeGood
<1>0. ASSUME NEW r, OfficeGood(r) PROVE r \in Rows
  BY <1>0 DEF OfficeGood
<1>1. CASE ask.op = "createTeam"
  <2>1. on \in Units
    BY <1>1 DEF GoodAsk
  <2>2. OfficeGood([office EXCEPT !.units = @ \cup {on}])
    BY <2>1, RowsTyped DEF Rows
  <2> DEFINE r == [office EXCEPT !.units = @ \cup {on}]
  <2>3. r.open = office.open /\ r.done = office.done /\ office.open \cup {on} \in SUBSET Units
    BY <2>1 DEF Rows
  <2>4. OfficeGood([r EXCEPT !.open = office.open \cup {on}])
    BY <2>2, <2>3, RowsTyped
  <2>5. Changed(ask) = [r EXCEPT !.open = office.open \cup {on}]
    BY <1>1 DEF Changed, Rows
  <2> QED BY <2>3, <2>4, <2>5, <1>0 DEF Rows
<1>2. CASE ask.op = "updateTeam"
  <2>1. on \in Units
    BY <1>2 DEF Takes, Owns, Rows
  <2> DEFINE us == IF ask.yes THEN office.open \cup {on} ELSE office.open \ {on}
  <2>2. us \in SUBSET Units
    BY <2>1 DEF Rows
  <2>3. Changed(ask) = [office EXCEPT !.open = us]
    BY <1>2 DEF Changed
  <2> HIDE DEF us
  <2> QED BY <2>2, <2>3, RowsTyped DEF Rows
<1>3. CASE ask.op \in {"attach", "detach"}
  <2> DEFINE ps == IF ask.op = "attach" THEN office.attached \cup {<<at, on>>}
                   ELSE office.attached \ {<<at, on>>}
  <2>0. ask.op = "attach" => at \in Units /\ on \in Places
    BY DEF Takes, MayAttach, Owns, Rows
  <2>1. ps \in SUBSET (Units \X Places)
    BY <1>3, <2>0 DEF Rows
  <2>2. Changed(ask) = [office EXCEPT !.attached = ps]
    BY <1>3 DEF Changed
  <2> HIDE DEF ps
  <2> QED BY <2>1, <2>2, RowsTyped DEF Rows
<1>4. CASE ask.op \in {"suspend", "remove", "join"}
  <2> DEFINE new == IF ask.op = "suspend" THEN "SUSPENDED" ELSE IF ask.op = "remove"
                    THEN "REMOVED" ELSE IF ask.yes THEN "ACTIVE" ELSE "REJECTED"
             standing == [office.standing EXCEPT ![on] = new]
  <2>1. standing \in [People -> Standings]
    BY DEF Rows, Standings
  <2>2. new = "ACTIVE" => on \notin office.elsewhere
    BY <1>4 DEF Takes, MayDecideJoin
  <2>3. \A x \in People : standing[x] = "ACTIVE" =>
           office.standing[x] = "ACTIVE" \/ x \notin office.elsewhere
    BY <2>2 DEF Rows
  <2>4. Changed(ask) = [office EXCEPT !.standing = standing]
    BY <1>4 DEF Changed, Update, DecideJoin
  <2> HIDE DEF standing
  <2>5. OfficeGood([office EXCEPT !.standing = standing])
    BY <2>1, <2>3, StandingGood
  <2> QED BY <2>4, <2>5 DEF Rows
<1>5. CASE ask.op = "paper"
  <2>1. office.waiting \ {on} \in SUBSET Papers
    BY DEF Rows
  <2>2. Changed(ask) = [office EXCEPT !.waiting = office.waiting \ {on}]
    BY <1>5 DEF Changed
  <2> QED BY <2>1, <2>2, RowsTyped DEF Rows
<1>6. CASE ask.op \in {"adjust", "deleteDay"}
  <2> DEFINE w == IF ask.op = "adjust" THEN [office.when EXCEPT ![on] = at]
                  ELSE [e \in Punches |-> IF e \in DayRecords(on, at) THEN None ELSE office.when[e]]
  <2>1. w \in [Punches -> Days \cup {None}]
    BY <1>6 DEF Rows, GoodAsk
  <2>2. Changed(ask) = [office EXCEPT !.when = w]
    BY <1>6 DEF Changed, DayDeleted
  <2> HIDE DEF w
  <2> QED BY <2>1, <2>2, RowsTyped DEF Rows
<1>7. CASE ask.op = "createLocation"
  <2>1. on \in Places
    BY <1>7 DEF GoodAsk
  <2>2. OfficeGood([office EXCEPT !.kept = @ \cup {on}])
    BY <2>1, RowsTyped DEF Rows
  <2> DEFINE r == [office EXCEPT !.kept = @ \cup {on}]
  <2>3. r.lit = office.lit /\ r.done = office.done /\ office.lit \cup {on} \in SUBSET Places
    BY <2>1 DEF Rows
  <2>4. OfficeGood([r EXCEPT !.lit = office.lit \cup {on}])
    BY <2>2, <2>3, RowsTyped
  <2>5. Changed(ask) = [r EXCEPT !.lit = office.lit \cup {on}]
    BY <1>7 DEF Changed, Rows
  <2> QED BY <2>3, <2>4, <2>5, <1>0 DEF Rows
<1>8. CASE ask.op \in {"saveLocation", "switchOff", "switchOn"}
  <2>1. on \in Places
    BY <1>8 DEF Takes, Keeps, Rows
  <2> DEFINE ls == IF ask.yes THEN office.lit \cup {on} ELSE office.lit \ {on}
  <2>2. ls \in SUBSET Places
    BY <2>1 DEF Rows
  <2>3. Changed(ask) = [office EXCEPT !.lit = ls]
    BY <1>8 DEF Changed
  <2> HIDE DEF ls
  <2> QED BY <2>2, <2>3, RowsTyped DEF Rows
<1>9. CASE ask.op = "destroy"
  <2> DEFINE k == office.kept \ {on}
             t == office.lit \ {on}
             a == {pair \in office.attached : pair[2] # on}
             g == {pair \in office.assigned : pair[2] # on}
             r1 == [office EXCEPT !.kept = k]
             r2 == [r1 EXCEPT !.lit = t]
             r3 == [r2 EXCEPT !.attached = a]
             r4 == [r3 EXCEPT !.assigned = g]
  <2>1. /\ k \in SUBSET Places /\ t \in SUBSET Places
        /\ a \in SUBSET (Units \X Places) /\ g \in SUBSET (People \X Places)
    BY DEF Rows
  <2> HIDE DEF k, t, a, g
  <2>2. OfficeGood(r1) /\ r1.done = office.done
    BY <2>1, RowsTyped DEF Rows
  <2>3. OfficeGood(r2) /\ r2.done = office.done
    BY <2>1, <2>2, <1>0, RowsTyped DEF Rows
  <2>4. OfficeGood(r3) /\ r3.done = office.done
    BY <2>1, <2>3, <1>0, RowsTyped DEF Rows
  <2>5. OfficeGood(r4) /\ r4.done = office.done
    BY <2>1, <2>4, <1>0, RowsTyped DEF Rows
  <2>6. Changed(ask) = r4
    BY <1>9 DEF Changed, Destroyed, Rows, k, t, a, g
  <2> QED BY <2>5, <2>6
<1>10. CASE ask.op \in {"assign", "unassign"}
  <2> DEFINE ps == IF ask.op = "assign" THEN office.assigned \cup {<<on, at>>}
                   ELSE office.assigned \ {<<on, at>>}
  <2>1. ps \in SUBSET (People \X Places)
    BY <1>10 DEF GoodAsk, Rows
  <2>2. Changed(ask) = [office EXCEPT !.assigned = ps]
    BY <1>10 DEF Changed
  <2> HIDE DEF ps
  <2> QED BY <2>1, <2>2, RowsTyped DEF Rows
<1> QED BY <1>1, <1>2, <1>3, <1>4, <1>5, <1>6, <1>7, <1>8, <1>9, <1>10 DEF GoodAsk, Ops
\* The batch: each person it makes active was free, or the whole is refused.
LEMMA AddedOffice ==
  ASSUME OfficeGood(office), NEW found \in SUBSET (People \X Standings), NEW u \in Units,
         MayAdd(found)
  PROVE  OfficeGood(Add(found, u)) /\ Add(found, u).done = office.done
<1> DEFINE added == {pair[1] : pair \in found}
           standing == [x \in People |-> IF x \in added THEN "ACTIVE" ELSE office.standing[x]]
           unit == [x \in People |-> IF x \in added THEN u ELSE office.unit[x]]
           r == [office EXCEPT !.standing = standing]
<1> office \in Rows
  BY DEF OfficeGood
<1>1. standing \in [People -> Standings] /\ unit \in [People -> Units \cup {None}]
  BY DEF Rows, Standings
<1>2. ASSUME NEW x \in People, x \in added PROVE x \notin office.elsewhere
  <2>1. PICK pair \in found : x = pair[1]
    BY <1>2
  <2> QED BY <2>1, IndexKeeps DEF MayAdd
<1>3. \A x \in People : standing[x] = "ACTIVE" =>
         office.standing[x] = "ACTIVE" \/ x \notin office.elsewhere
  BY <1>2
<1> HIDE DEF standing, unit
<1>4. OfficeGood(r) /\ r.done = office.done
  BY <1>1, <1>3, StandingGood DEF Rows
<1>5. Add(found, u) = [r EXCEPT !.unit = unit]
  BY DEF Add, Rows, standing, unit
<1> HIDE DEF r
<1>6. OfficeGood([r EXCEPT !.unit = unit])
  BY <1>1, <1>4, RowsTyped
<1>7. [r EXCEPT !.unit = unit].done = r.done
  BY <1>4 DEF OfficeGood, Rows
<1> QED BY <1>4, <1>5, <1>6, <1>7

\* An act on record: of a page's kind, and typed.
LEMMA LoggedOffice ==
  ASSUME NEW rows, OfficeGood(rows), NEW tale \in Tales
  PROVE  /\ OfficeGood(Log(rows, tale))
         /\ rows.done \subseteq Log(rows, tale).done
         /\ tale.op \in Announced => tale \in Log(rows, tale).done
<1>1. rows \in Rows /\ rows.done \cup {tale} \in SUBSET Tales
  BY DEF OfficeGood, Rows
<1>2. CASE tale.op \in Announced
  <2>1. Log(rows, tale) = [rows EXCEPT !.done = rows.done \cup {tale}]
    BY <1>2 DEF Log
  <2> QED BY <1>1, <2>1, RowsTyped DEF Rows
<1>3. CASE tale.op \notin Announced
  BY <1>3 DEF Log
<1> QED BY <1>2, <1>3

\* Those who join, and the other manager.
LEMMA OthersOffice ==
  ASSUME OfficeGood(office), Others
  PROVE  OfficeGood(office') /\ office'.done = office.done
<1> office \in Rows
  BY DEF OfficeGood
<1>1. PICK x \in People : (\E u \in Units : RequestJoin(x, u)) \/ TheyLookUp(x) \/ TheyRelease(x) \/ TheyAdd(x)
  BY DEF Others
<1>2. ASSUME NEW u \in Units, RequestJoin(x, u)
      PROVE  OfficeGood(office') /\ office'.done = office.done
  <2> DEFINE standing == [office.standing EXCEPT ![x] = "PENDING"]
             unit == [office.unit EXCEPT ![x] = u]
             r == [office EXCEPT !.standing = standing]
  <2>1. standing \in [People -> Standings] /\ unit \in [People -> Units \cup {None}]
    BY DEF Rows, Standings
  <2>2. \A y \in People : standing[y] = "ACTIVE" =>
           office.standing[y] = "ACTIVE" \/ y \notin office.elsewhere
    BY DEF Rows
  <2> HIDE DEF standing, unit
  <2>3. OfficeGood(r) /\ r.done = office.done
    BY <2>1, <2>2, StandingGood DEF Rows
  <2>4. office' = [r EXCEPT !.unit = unit]
    BY <1>2 DEF RequestJoin, Rows, standing, unit
  <2> HIDE DEF r
  <2>5. OfficeGood([r EXCEPT !.unit = unit])
    BY <2>1, <2>3, RowsTyped
  <2>6. [r EXCEPT !.unit = unit].done = r.done
    BY <2>3 DEF OfficeGood, Rows
  <2> QED BY <2>3, <2>4, <2>5, <2>6
<1>3. CASE TheyLookUp(x)
  <2>1. office.wooed \cup {x} \in SUBSET People
    BY DEF Rows
  <2>2. office' = [office EXCEPT !.wooed = office.wooed \cup {x}]
    BY <1>3 DEF TheyLookUp
  <2> QED BY <2>1, <2>2, RowsTyped DEF Rows
<1>4. CASE TheyAdd(x)
  <2> DEFINE r == [office EXCEPT !.wooed = @ \ {x}]
             xs == IF IndexAllows(x, "theirs") THEN office.elsewhere \cup {x} ELSE office.elsewhere
  <2>1. OfficeGood(r) /\ r.standing = office.standing /\ r.elsewhere = office.elsewhere
          /\ r.done = office.done /\ r \in Rows
    <3>1. office.wooed \ {x} \in SUBSET People
      BY DEF Rows
    <3>2. OfficeGood(r)
      BY <3>1, RowsTyped
    <3> QED BY <3>2 DEF Rows, OfficeGood
  <2>2. xs \in SUBSET People /\ \A y \in xs : y \in office.elsewhere \/ office.standing[y] # "ACTIVE"
    BY IndexKeeps DEF Rows
  <2>3. office' = [r EXCEPT !.elsewhere = xs]
    BY <1>4 DEF TheyAdd, Rows
  <2> HIDE DEF xs, r
  <2>4. OfficeGood([r EXCEPT !.elsewhere = xs])
    BY <2>1, <2>2, ElsewhereGood
  <2> QED BY <2>1, <2>3, <2>4 DEF Rows
<1>5. CASE TheyRelease(x)
  <2>1. office.elsewhere \ {x} \in SUBSET People
    BY DEF Rows
  <2>2. office' = [office EXCEPT !.elsewhere = office.elsewhere \ {x}]
    BY <1>5 DEF TheyRelease
  <2> QED BY <2>1, <2>2, ElsewhereGood DEF Rows
<1> QED BY <1>1, <1>2, <1>3, <1>4, <1>5

-----------------------------------------------------------------------------
(***************************************************************************)
(* The handlers.                                                           *)
(***************************************************************************)

\* What is told of the act of a handler.
TaleOf(k) ==
  Told(k.ask, IF k.ask.op = "addMembers" THEN Those(k.found) ELSE k.ask.on)

\* Its act was done, and is to be announced.
Owed(k) ==
  /\ k.ask.op \in Announced
  /\ (k.stage = "answered" /\ k.well) \/ (k.stage = "unit" /\ k.ask.op # "unfold")

\* A handler that writes carries a good ask; one whose write succeeded has its
\* act on record, until it has told of it.
GoodCall(k, done) ==
  /\ k \in Call
  /\ k.ask.op \in Ops => GoodAsk(k.ask)
  /\ k.ask.op \in Reads => k.ask.words = None
  /\ k.ask.op = "detail" => k.ask.on \in Punches
  /\ k.stage \in {"sent", "found", "answered"} => k.ask.op \in Ops
  /\ k.stage \in {"unit", "load", "members", "pairs", "detail"} => k.by \in {"page", "panel"}
  /\ k.stage = "found" => k.ask.op = "addMembers"
  /\ k.stage \in {"sent", "found"} => k.well = FALSE
  /\ k.stage = "unit" => k.ask.op \in TeamsOps \cup {"unfold"}
  /\ k.stage = "load" => k.ask.op \in TeamsOps \cup PlacesOps \cup {"open"}
  /\ k.stage \in {"members", "pairs"} => k.ask.op = "openAssign"
  /\ k.stage = "detail" => k.ask.op = "detail"
  /\ Owed(k) => TaleOf(k) \in done

\* One that still works for the page works for the page on screen.
OnScreen(k, screen) ==
  k.by \in {"page", "panel"} =>
    /\ k.ask.op \in TeamsOps \cup {"unfold"} => screen = "teams"
    /\ k.ask.op \in RecordsOps \cup {"detail"} => screen = "records"
    /\ k.ask.op \in PlacesOps \cup {"openAssign"} => screen = "places"
    /\ k.ask.op = "open" => screen \in {"teams", "places"}

CallsGood(cs, screen, done) ==
  /\ cs \in [Calls -> {Free} \cup Call]
  /\ \A c \in Calls : cs[c] # Free => GoodCall(cs[c], done) /\ OnScreen(cs[c], screen)

GoodPage(p, done) == p = Away \/ GoodTeams(p, done) \/ GoodRecords(p) \/ GoodPlaces(p)

\* A handler of the panel has one.
PanelsHeld == \A c \in Calls : calls[c] # Free /\ calls[c].by = "panel" => HasPanel(page)

DeskInv ==
  /\ OfficeGood(office)
  /\ GoodPage(page, office.done)
  /\ CallsGood(calls, page.screen, office.done)
  /\ PanelsHeld
  /\ left \in Bound

LEMMA ScreenOfPage ==
  ASSUME NEW done, NEW p, GoodPage(p, done)
  PROVE  /\ p.screen \in {"away", "teams", "records", "places"}
         /\ p = Away <=> p.screen = "away"
         /\ p.screen = "teams" <=> GoodTeams(p, done)
         /\ p.screen = "records" <=> GoodRecords(p)
         /\ p.screen = "places" <=> GoodPlaces(p)
<1>1. GoodTeams(p, done) => p.screen = "teams"
  BY DEF GoodTeams, TeamsPages
<1>2. GoodRecords(p) => p.screen = "records"
  BY DEF GoodRecords, RecordsPages
<1>3. GoodPlaces(p) => p.screen = "places"
  BY DEF GoodPlaces, PlacesPages
<1>4. p = Away => p.screen = "away"
  BY DEF Away
<1> QED BY <1>1, <1>2, <1>3, <1>4 DEF GoodPage

\* More is on record: nothing that was good is less so.
LEMMA MoreDone ==
  ASSUME NEW done, NEW more, done \subseteq more
  PROVE  /\ \A p : GoodPage(p, done) => GoodPage(p, more)
         /\ \A k : GoodCall(k, done) => GoodCall(k, more)
<1>1. ASSUME NEW p, GoodPage(p, done) PROVE GoodPage(p, more)
  BY <1>1 DEF GoodPage, GoodTeams
<1>2. ASSUME NEW k, GoodCall(k, done) PROVE GoodCall(k, more)
  BY <1>2 DEF GoodCall
<1> QED BY <1>1, <1>2

\* One handler gets on, or ends, or begins.
LEMMA WithGood ==
  ASSUME NEW screen, NEW done, CallsGood(calls, screen, done), NEW c \in Calls, NEW k,
         k # Free => GoodCall(k, done) /\ OnScreen(k, screen)
  PROVE  CallsGood(With(c, k), screen, done)
<1>1. k \in {Free} \cup Call
  BY DEF GoodCall
<1> QED BY <1>1 DEF CallsGood, With

\* A handler of a panel that is gone works for the page.
LEMMA ByPageGood ==
  ASSUME NEW screen, NEW done, NEW k, GoodCall(k, done), OnScreen(k, screen), k.by = "panel"
  PROVE  LET l == [k EXCEPT !.by = "page"]
         IN  GoodCall(l, done) /\ OnScreen(l, screen) /\ l.by = "page"
<1> DEFINE l == [k EXCEPT !.by = "page"]
<1>1. k \in Call
  BY DEF GoodCall
<1>2. /\ l \in Call /\ l.by = "page" /\ l.ask = k.ask /\ l.stage = k.stage /\ l.well = k.well
      /\ l.found = k.found
  BY <1>1 DEF Call
<1>3. TaleOf(l) = TaleOf(k)
  BY <1>2 DEF TaleOf
<1>4. Owed(l) = Owed(k)
  BY <1>2 DEF Owed
<1> QED BY <1>2, <1>3, <1>4 DEF GoodCall, OnScreen

\* Free is told from a handler by its stage.
LEMMA FreeStage ==
  /\ Free.stage = "free" /\ Free \notin Call
  /\ \A k \in Call : k.stage # "free" /\ k # Free
<1>1. Free.stage = "free"
  BY DEF Free
<1>2. \A k \in Call : k.stage # "free"
  BY DEF Call
<1> QED BY <1>1, <1>2

\* The page turns, the panel follows it, and so do its handlers.
LEMMA TurnGood ==
  ASSUME NEW done, NEW p, NEW cs, GoodPage(p, done),
         CallsGood(cs, p.screen, done), Turn(p, cs)
  PROVE  /\ GoodPage(page', done) /\ page'.screen = p.screen
         /\ CallsGood(calls', page'.screen, done)
         /\ PanelsHeld'
<1> DEFINE q == IF p.screen = "records" THEN Settled(p) ELSE p
<1>1. page' = q
  BY DEF Turn
<1>2. GoodPage(q, done) /\ q.screen = p.screen
  <2>1. CASE p.screen = "records"
    <3>1. GoodRecords(Settled(p))
      BY <2>1, ScreenOfPage, SettledGood
    <3> QED BY <2>1, <3>1, ScreenOfPage DEF GoodPage
  <2> QED BY <2>1
<1>3. calls' = [c \in Calls |->
        IF cs[c] # Free /\ cs[c].by = "panel" /\ ~HasPanel(q)
        THEN [cs[c] EXCEPT !.by = "page"] ELSE cs[c]]
  BY DEF Turn
<1> HIDE DEF q
<1>4. ASSUME NEW c \in Calls
      PROVE  /\ calls'[c] \in {Free} \cup Call
             /\ calls'[c] # Free => /\ GoodCall(calls'[c], done)
                                    /\ OnScreen(calls'[c], p.screen)
                                    /\ calls'[c].by = "panel" => HasPanel(q)
  <2>1. CASE cs[c] # Free /\ cs[c].by = "panel" /\ ~HasPanel(q)
    <3>1. calls'[c] = [cs[c] EXCEPT !.by = "page"]
      BY <1>3, <2>1
    <3>2. GoodCall(cs[c], done) /\ OnScreen(cs[c], p.screen)
      BY <2>1 DEF CallsGood
    <3>3. GoodCall(calls'[c], done) /\ OnScreen(calls'[c], p.screen) /\ calls'[c].by = "page"
      BY <2>1, <3>1, <3>2, ByPageGood
    <3> QED BY <3>3 DEF GoodCall
  <2>2. CASE ~(cs[c] # Free /\ cs[c].by = "panel" /\ ~HasPanel(q))
    <3>1. calls'[c] = cs[c]
      BY <1>3, <2>2
    <3> QED BY <2>2, <3>1 DEF CallsGood
  <2> QED BY <2>1, <2>2
<1>5. calls' \in [Calls -> {Free} \cup Call]
  BY <1>3, <1>4
<1> QED BY <1>1, <1>2, <1>4, <1>5 DEF CallsGood, PanelsHeld
\* An action that turns the page, and takes one handler with it.
LEMMA TurnWithGood ==
  ASSUME DeskInv, NEW c \in Calls, NEW k,
         k # Free => GoodCall(k, office.done) /\ OnScreen(k, page.screen),
         NEW p, GoodPage(p, office.done), p.screen = page.screen,
         Turn(p, With(c, k)), office' = office, left' \in Bound
  PROVE  DeskInv'
<1>1. CallsGood(With(c, k), p.screen, office.done)
  BY WithGood DEF DeskInv
<1>2. GoodPage(page', office.done) /\ CallsGood(calls', page'.screen, office.done) /\ PanelsHeld'
  BY <1>1, TurnGood
<1> QED BY <1>2 DEF DeskInv

LEMMA TurnAloneGood ==
  ASSUME DeskInv, NEW p, GoodPage(p, office.done), p.screen = page.screen,
         Turn(p, calls), office' = office, left' \in Bound
  PROVE  DeskInv'
<1>1. CallsGood(calls, p.screen, office.done)
  BY DEF DeskInv
<1>2. GoodPage(page', office.done) /\ CallsGood(calls', page'.screen, office.done) /\ PanelsHeld'
  BY <1>1, TurnGood
<1> QED BY <1>2 DEF DeskInv

\* The bounds are spent one by one.
LEMMA Spent ==
  ASSUME DeskInv, NEW what \in {"opens", "acts", "others"}, Spend(what)
  PROVE  left' \in Bound
<1>1. left \in Bound /\ left[what] > 0 /\ left' = [left EXCEPT ![what] = @ - 1]
  BY DEF DeskInv, Spend
<1>2. left[what] \in Nat
  BY <1>1 DEF Bound
<1>3. left[what] - 1 \in Nat
  BY <1>1, <1>2
<1> QED BY <1>1, <1>3 DEF Bound

\* The three kinds of page, by their screens.
LEMMA PageKinds ==
  ASSUME NEW done, NEW p
  PROVE  /\ GoodTeams(p, done) => GoodPage(p, done) /\ p.screen = "teams"
         /\ GoodRecords(p) => GoodPage(p, done) /\ p.screen = "records"
         /\ GoodPlaces(p) => GoodPage(p, done) /\ p.screen = "places"
  BY ScreenOfPage DEF GoodPage

LEMMA PageOf ==
  ASSUME DeskInv
  PROVE  /\ OnTeams => GoodTeams(page, office.done)
         /\ OnRecords => GoodRecords(page)
         /\ OnPlaces => GoodPlaces(page)
         /\ page = Away => page.screen = "away"
         /\ page # Away => OnTeams \/ OnRecords \/ OnPlaces
         /\ OfficeTypeOK
  BY ScreenOfPage DEF DeskInv, OfficeGood, OfficeTypeOK, OnTeams, OnRecords, OnPlaces

\* The page of the units, but for what it announces.
LEMMA TeamsKept ==
  ASSUME OfficeTypeOK, NEW done, NEW p, GoodTeams(p, done), NEW ask
  PROVE  /\ GoodTeams(AfterFold(p), done)
         /\ \A u \in Units : GoodTeams(AfterUnfold(p, u), done)
         /\ \A u : GoodTeams(AfterUnit(p, u), done)
         /\ GoodTeams(AfterRun(p, ask), done)
         /\ GoodTeams(AfterWrite(p, ask), done)
         /\ \A well : GoodTeams(AfterRunEnds(p, ask, well), done)
<1>1. [op |-> "join", on |-> {}, yes |-> TRUE] \in Tales
  BY DEF Tales, Ops, Things
<1> QED BY <1>1, TeamsHandled

\* What a handler that is at work is.
LEMMA AtWork ==
  ASSUME DeskInv, NEW c \in Calls, calls[c].stage # "free"
  PROVE  GoodCall(calls[c], office.done) /\ OnScreen(calls[c], page.screen) /\ calls[c] \in Call
<1>1. calls[c] # Free
  BY FreeStage
<1> QED BY <1>1 DEF DeskInv, CallsGood, GoodCall

\* A handler of the page on screen, by what it was asked.
LEMMA OfItsPage ==
  ASSUME DeskInv, NEW c \in Calls, calls[c].stage # "free", Here(c)
  PROVE  /\ page # Away
         /\ calls[c].ask.op \in TeamsOps \cup {"unfold"} => OnTeams
         /\ calls[c].ask.op \in RecordsOps \cup {"detail"} => OnRecords
         /\ calls[c].ask.op \in PlacesOps \cup {"openAssign"} => OnPlaces
         /\ calls[c].ask.op = "open" => OnTeams \/ OnPlaces
<1>1. OnScreen(calls[c], page.screen) /\ calls[c].ask.op \in Ops \cup Reads
  BY AtWork DEF GoodCall, Call, Errand
<1>2. calls[c].ask.op \in TeamsOps \cup RecordsOps \cup PlacesOps \cup Reads
  BY <1>1 DEF Ops, TeamsOps, RecordsOps, PlacesOps
<1>3. page.screen # "away"
  BY <1>1, <1>2 DEF OnScreen, Here, Reads
<1> QED BY <1>1, <1>3, PageOf DEF OnScreen, Here, OnTeams, OnRecords, OnPlaces

\* A handler begins.
LEMMA Begins ==
  ASSUME NEW done, NEW ask \in Errand, NEW by \in {"panel", "page"},
         NEW stage \in {"sent", "unit", "load", "members", "detail"},
         ask.op \in Ops => GoodAsk(ask) /\ stage = "sent",
         ask.op \in Reads => ask.words = None /\ stage # "sent",
         ask.op = "detail" => ask.on \in Punches,
         stage = "unit" => ask.op = "unfold",
         stage = "load" => ask.op = "open",
         stage = "members" => ask.op = "openAssign",
         stage = "detail" => ask.op = "detail"
  PROVE  GoodCall(Handler(stage, ask, by), done)
<1> DEFINE k == Handler(stage, ask, by)
<1>1. k \in Call
  BY DEF Handler, Call
<1>2. k.ask = ask /\ k.by = by /\ k.stage = stage /\ k.well = FALSE /\ k.found = {}
  BY DEF Handler
<1>3. ask.op \in Ops \cup Reads
  BY DEF Errand
<1> HIDE DEF k
<1>4. ~Owed(k)
  BY <1>2 DEF Owed
<1>5. GoodCall(k, done)
  BY <1>1, <1>2, <1>3, <1>4 DEF GoodCall, Ops, Reads
<1> QED BY <1>5 DEF k

\* One that writes, and one that reads.
LEMMA SentGood ==
  ASSUME NEW done, NEW ask, GoodAsk(ask), NEW by \in {"panel", "page"}
  PROVE  GoodCall(Handler("sent", ask, by), done)
<1>1. ask \in Errand /\ ask.op \in Ops
  BY DEF GoodAsk, Errand
<1>2. ask.op \notin Reads
  BY <1>1 DEF Ops, Reads
<1>3. ask.op # "detail"
  BY <1>2 DEF Reads
<1> QED BY <1>1, <1>2, <1>3, Begins

LEMMA ReadGood ==
  ASSUME NEW done, NEW by \in {"panel", "page"}, NEW op \in Reads, NEW on \in Things \cup {None},
         op = "detail" => on \in Punches, NEW stage,
         \/ op = "open" /\ stage = "load"
         \/ op = "unfold" /\ stage = "unit"
         \/ op = "openAssign" /\ stage = "members"
         \/ op = "detail" /\ stage = "detail"
  PROVE  /\ GoodCall(Handler(stage, Read(op, on), by), done)
         /\ Handler(stage, Read(op, on), by).ask.op = op
<1> DEFINE ask == Read(op, on)
<1>1. ask \in Errand /\ ask.op = op /\ ask.words = None /\ ask.on = on
  BY DEF Read, Wish, Errand, Subjects
<1>2. op \notin Ops
  BY DEF Ops, Reads
<1> HIDE DEF ask
<1>3. GoodCall(Handler(stage, ask, by), done)
  BY <1>1, <1>2, Begins
<1>4. Handler(stage, ask, by).ask = ask
  BY DEF Handler
<1> QED BY <1>1, <1>3, <1>4 DEF ask

\* A handler gets on, on its page.
LEMMA Onward ==
  ASSUME NEW done, NEW screen, NEW k, GoodCall(k, done), OnScreen(k, screen),
         NEW stage \in {"unit", "load", "pairs"}, k.by \in {"page", "panel"},
         stage = "unit" => k.stage = "answered" /\ k.well /\ k.ask.op \in TeamsOps,
         stage = "load" => k.ask.op \in TeamsOps \cup PlacesOps,
         stage = "pairs" => k.ask.op = "openAssign"
  PROVE  LET l == [k EXCEPT !.stage = stage] IN GoodCall(l, done) /\ OnScreen(l, screen)
<1> DEFINE l == [k EXCEPT !.stage = stage]
<1>1. k \in Call
  BY DEF GoodCall
<1>2. /\ l \in Call /\ l.by = k.by /\ l.ask = k.ask /\ l.stage = stage /\ l.well = k.well
      /\ l.found = k.found
  BY <1>1 DEF Call
<1> HIDE DEF l
<1>3. TaleOf(l) = TaleOf(k)
  BY <1>2 DEF TaleOf
<1>4. Owed(l) => Owed(k)
  BY <1>2 DEF Owed
<1>5. GoodCall(l, done)
  BY <1>2, <1>3, <1>4 DEF GoodCall
<1>6. OnScreen(l, screen)
  BY <1>2 DEF OnScreen
<1> QED BY <1>5, <1>6 DEF l

\* The page gives up on one.
LEMMA GivenUp ==
  ASSUME NEW done, NEW screen, NEW k, GoodCall(k, done), NEW by \in {"lost", "past"},
         k.stage \in {"sent", "found", "answered"}
  PROVE  LET l == [k EXCEPT !.by = by]
         IN  GoodCall(l, done) /\ OnScreen(l, screen) /\ l.by = by
<1> DEFINE l == [k EXCEPT !.by = by]
<1>1. k \in Call
  BY DEF GoodCall
<1>2. /\ l \in Call /\ l.by = by /\ l.ask = k.ask /\ l.stage = k.stage /\ l.well = k.well
      /\ l.found = k.found
  BY <1>1 DEF Call
<1> HIDE DEF l
<1>3. TaleOf(l) = TaleOf(k)
  BY <1>2 DEF TaleOf
<1>4. Owed(l) = Owed(k)
  BY <1>2 DEF Owed
<1>5. GoodCall(l, done)
  BY <1>2, <1>3, <1>4 DEF GoodCall
<1>6. OnScreen(l, screen)
  BY <1>2 DEF OnScreen
<1> QED BY <1>2, <1>5, <1>6 DEF l

\* The server answers: what it did is on record.
LEMMA ReplyGood ==
  ASSUME NEW done, NEW screen, NEW k, GoodCall(k, done), OnScreen(k, screen),
         k.stage \in {"sent", "found"}, NEW well \in BOOLEAN,
         well /\ k.ask.op \in Announced => TaleOf(k) \in done
  PROVE  LET l == [k EXCEPT !.well = well, !.stage = "answered"]
         IN  GoodCall(l, done) /\ OnScreen(l, screen) /\ l.by = k.by
<1> DEFINE l == [k EXCEPT !.well = well, !.stage = "answered"]
<1>1. k \in Call
  BY DEF GoodCall
<1>2. /\ l \in Call /\ l.by = k.by /\ l.ask = k.ask /\ l.stage = "answered" /\ l.well = well
      /\ l.found = k.found
  BY <1>1 DEF Call
<1> HIDE DEF l
<1>3. TaleOf(l) = TaleOf(k)
  BY <1>2 DEF TaleOf
<1>4. Owed(l) => well /\ k.ask.op \in Announced
  BY <1>2 DEF Owed
<1>5. k.ask.op \in Ops
  BY DEF GoodCall
<1>6. GoodCall(l, done)
  BY <1>2, <1>3, <1>4, <1>5 DEF GoodCall
<1>7. OnScreen(l, screen)
  BY <1>2 DEF OnScreen
<1> QED BY <1>2, <1>6, <1>7 DEF l

\* A step of the server, and of one handler.
LEMMA WithServerGood ==
  ASSUME DeskInv, NEW c \in Calls, NEW k, calls' = With(c, k), page' = page, left' = left,
         OfficeGood(office'), office.done \subseteq office'.done,
         k # Free => /\ GoodCall(k, office'.done) /\ OnScreen(k, page.screen)
                     /\ calls[c] # Free /\ k.by = calls[c].by
  PROVE  DeskInv'
<1>1. GoodPage(page, office'.done) /\ CallsGood(calls, page.screen, office'.done)
  BY MoreDone DEF DeskInv, CallsGood
<1>2. CallsGood(calls', page.screen, office'.done)
  BY <1>1, WithGood
<1>3. PanelsHeld'
  BY DEF DeskInv, PanelsHeld, With, CallsGood, HasPanel
<1> QED BY <1>1, <1>2, <1>3 DEF DeskInv

LEMMA Replied ==
  ASSUME DeskInv, NEW c \in Calls, calls[c].stage \in {"sent", "found"}, NEW well \in BOOLEAN,
         Reply(c, [calls[c] EXCEPT !.well = well]),
         OfficeGood(office'), office.done \subseteq office'.done,
         well /\ calls[c].ask.op \in Announced => TaleOf(calls[c]) \in office'.done
  PROVE  DeskInv'
<1> DEFINE k == calls[c]
           l == [k EXCEPT !.well = well, !.stage = "answered"]
<1>1. GoodCall(k, office'.done) /\ OnScreen(k, page.screen) /\ k \in Call /\ k # Free
  BY AtWork, MoreDone, FreeStage
<1>2. GoodCall(l, office'.done) /\ OnScreen(l, page.screen) /\ l.by = k.by
  BY <1>1, ReplyGood
<1>3. page' = page /\ left' = left /\ (calls' = With(c, Free) \/ calls' = With(c, l))
  BY <1>1 DEF Reply, Call
<1> HIDE DEF l, k
<1>4. calls[c] # Free
  BY <1>1 DEF k
<1> QED BY <1>2, <1>3, <1>4, WithServerGood DEF k

LEMMA ServedGood ==
  ASSUME DeskInv, NEW c \in Calls, Served(c) PROVE DeskInv'
<1> DEFINE k == calls[c]
           ask == calls[c].ask
<1>1. k.stage = "sent" /\ ask.op # "addMembers"
  BY DEF Served, At
<1>2. GoodCall(k, office.done) /\ k \in Call /\ GoodAsk(ask) /\ k.well = FALSE
  BY <1>1, AtWork DEF GoodCall
<1>3. CASE Takes(ask) /\ office' = Log(Changed(ask), Told(ask, ask.on)) /\ Reply(c, [k EXCEPT !.well = TRUE])
  <2>1. OfficeGood(Changed(ask)) /\ Changed(ask).done = office.done
    BY <1>1, <1>2, <1>3, ChangedOffice DEF DeskInv
  <2>2. Told(ask, ask.on) \in Tales /\ Told(ask, ask.on).op = ask.op
    BY <1>2 DEF GoodAsk, Told, Tales
  <2>3. /\ OfficeGood(office') /\ office.done \subseteq office'.done
        /\ ask.op \in Announced => Told(ask, ask.on) \in office'.done
    BY <1>3, <2>1, <2>2, LoggedOffice
  <2>4. TaleOf(k) = Told(ask, ask.on)
    BY <1>1 DEF TaleOf
  <2> QED BY <1>1, <1>3, <2>3, <2>4, Replied
<1>4. CASE Reply(c, k) /\ UNCHANGED office
  <2>1. k = [k EXCEPT !.well = FALSE]
    BY <1>2 DEF Call
  <2>2. OfficeGood(office') /\ office.done \subseteq office'.done
    BY <1>4 DEF DeskInv
  <2> QED BY <1>1, <1>4, <2>1, <2>2, Replied
<1> QED BY <1>3, <1>4 DEF Served

LEMMA AddedGood ==
  ASSUME DeskInv, NEW c \in Calls, Added(c) PROVE DeskInv'
<1> DEFINE k == calls[c]
           rows == Add(k.found, k.ask.at)
           tale == Told(k.ask, Those(k.found))
<1>1. k.stage = "found"
  BY DEF Added, At
<1>2. GoodCall(k, office.done) /\ k \in Call
  BY <1>1, AtWork
<1>3. GoodAsk(k.ask) /\ k.ask.op = "addMembers" /\ k.well = FALSE /\ k.ask.at \in Units
        /\ k.found \subseteq People \X Standings
  BY <1>1, <1>2 DEF GoodCall, Call, GoodAsk
<1>4. CASE MayAdd(k.found) /\ office' = Log(rows, tale) /\ Reply(c, [k EXCEPT !.well = TRUE])
  <2>1. OfficeGood(rows) /\ rows.done = office.done
    BY <1>3, <1>4, AddedOffice DEF DeskInv
  <2>2. Those(k.found) \in Things
    BY <1>3 DEF Those, Things
  <2>3. tale \in Tales /\ tale.op = "addMembers" /\ k.ask.op \in Announced
    BY <1>3, <2>2 DEF GoodAsk, Told, Tales, Announced
  <2>4. OfficeGood(office') /\ office.done \subseteq office'.done /\ tale \in office'.done
    BY <1>4, <2>1, <2>3, LoggedOffice DEF Announced
  <2>5. TaleOf(k) = tale
    BY <1>3 DEF TaleOf
  <2> QED BY <1>1, <1>4, <2>4, <2>5, Replied
<1>5. CASE Reply(c, k) /\ UNCHANGED office
  <2>1. k = [k EXCEPT !.well = FALSE]
    BY <1>2, <1>3 DEF Call
  <2>2. OfficeGood(office') /\ office.done \subseteq office'.done
    BY <1>5 DEF DeskInv
  <2> QED BY <1>1, <1>5, <2>1, <2>2, Replied
<1> QED BY <1>4, <1>5 DEF Added

LEMMA LookedUpGood ==
  ASSUME DeskInv, NEW c \in Calls, LookedUp(c) PROVE DeskInv'
<1> DEFINE k == calls[c]
           l == [k EXCEPT !.stage = "found", !.found = ToAdd(k.ask.on)]
<1>1. k.stage = "sent" /\ k.ask.op = "addMembers" /\ calls' = With(c, l)
        /\ office' = office /\ page' = page /\ left' = left
  BY DEF LookedUp, At
<1>2. GoodCall(k, office.done) /\ OnScreen(k, page.screen) /\ k \in Call /\ k # Free
  BY <1>1, AtWork, FreeStage
<1>3. k.ask.on \in SUBSET People
  BY <1>1, <1>2 DEF GoodCall, GoodAsk, Ops
<1>4. ToAdd(k.ask.on) \in SUBSET (People \X Standings)
  BY <1>3 DEF ToAdd, DeskInv, OfficeGood, Rows
<1>5. /\ l \in Call /\ l.by = k.by /\ l.ask = k.ask /\ l.stage = "found" /\ l.well = k.well
  BY <1>2, <1>4 DEF Call
<1> HIDE DEF l
<1>6. ~Owed(l)
  BY <1>5 DEF Owed
<1>7. GoodCall(l, office.done) /\ OnScreen(l, page.screen)
  BY <1>1, <1>2, <1>5, <1>6 DEF GoodCall, OnScreen
<1>8. OfficeGood(office') /\ office.done \subseteq office'.done /\ office'.done = office.done
  BY <1>1 DEF DeskInv
<1> QED BY <1>1, <1>2, <1>5, <1>7, <1>8, WithServerGood

LEMMA VanishesGood ==
  ASSUME DeskInv, NEW c \in Calls, Vanishes(c) PROVE DeskInv'
<1>1. calls' = With(c, Free) /\ office' = office /\ page' = page /\ left' = left
  BY DEF Vanishes
<1>2. OfficeGood(office') /\ office.done \subseteq office'.done
  BY <1>1 DEF DeskInv
<1> QED BY <1>1, <1>2, WithServerGood

-----------------------------------------------------------------------------
(***************************************************************************)
(* Moving about, and asking.                                               *)
(***************************************************************************)

LEMMA OpenGood ==
  ASSUME DeskInv, NEW c \in Calls, NEW p, p = OpenedTeams \/ p = OpenedPlaces, Open(c, p)
  PROVE  DeskInv'
<1> DEFINE k == Handler("load", Read("open", None), "page")
<1>1. /\ page.screen = "away" /\ office' = office /\ left' \in Bound
      /\ Turn(p, With(c, k))
  <2>1. p.screen # "records"
    BY DEF OpenedTeams, OpenedPlaces
  <2> QED BY <2>1, Spent DEF Open, Away
<1>2. GoodPage(p, office.done) /\ p.screen \in {"teams", "places"}
  BY OpenedTeamsGood, OpenedPlacesGood, PageKinds
<1>3. GoodCall(k, office.done) /\ k.ask.op = "open"
  <2>1. "open" \in Reads /\ "open" # "detail"
    BY DEF Reads
  <2> QED BY <2>1, ReadGood
<1>4. ASSUME NEW d \in Calls, calls[d] # Free
      PROVE  calls[d].by \notin {"page", "panel"}
  <2>1. calls[d].stage # "free"
    BY <1>4, FreeStage DEF DeskInv, CallsGood
  <2>2. page.screen # "teams" /\ page.screen # "records" /\ page.screen # "places"
    BY <1>1
  <2> QED BY <1>1, <2>1, <2>2, OfItsPage, PageOf DEF Here, OnTeams, OnRecords, OnPlaces, DeskInv
<1>5. CallsGood(calls, p.screen, office.done)
  BY <1>4 DEF DeskInv, CallsGood, OnScreen
<1>6. OnScreen(k, p.screen)
  BY <1>2, <1>3 DEF OnScreen, TeamsOps, RecordsOps, PlacesOps
<1> HIDE DEF k
<1>7. CallsGood(With(c, k), p.screen, office.done)
  BY <1>3, <1>5, <1>6, WithGood
<1>8. GoodPage(page', office.done) /\ CallsGood(calls', page'.screen, office.done) /\ PanelsHeld'
  BY <1>1, <1>2, <1>7, TurnGood DEF k
<1> QED BY <1>1, <1>8 DEF DeskInv

LEMMA OpenRecordsGood ==
  ASSUME DeskInv, NEW c \in Calls, NEW month \in Months, Open(c, OpenedRecords(month))
  PROVE  DeskInv'
<1> DEFINE p == OpenedRecords(month)
<1>1. page.screen = "away" /\ office' = office /\ left' \in Bound /\ Turn(p, calls)
  <2>1. p.screen = "records"
    BY DEF OpenedRecords
  <2> QED BY <2>1, Spent DEF Open, Away
<1>2. GoodPage(p, office.done)
  BY OpenedRecordsGood, PageKinds
<1>4. ASSUME NEW d \in Calls, calls[d] # Free
      PROVE  calls[d].by \notin {"page", "panel"}
  <2>1. calls[d].stage # "free"
    BY <1>4, FreeStage DEF DeskInv, CallsGood
  <2>2. page.screen # "teams" /\ page.screen # "records" /\ page.screen # "places"
    BY <1>1
  <2> QED BY <1>1, <2>1, <2>2, OfItsPage, PageOf DEF Here, OnTeams, OnRecords, OnPlaces, DeskInv
<1>5. CallsGood(calls, p.screen, office.done)
  BY <1>4 DEF DeskInv, CallsGood, OnScreen
<1> HIDE DEF p
<1>8. GoodPage(page', office.done) /\ CallsGood(calls', page'.screen, office.done) /\ PanelsHeld'
  BY <1>1, <1>2, <1>5, TurnGood
<1> QED BY <1>1, <1>8 DEF DeskInv

LEMMA LeaveGood ==
  ASSUME DeskInv, Leave PROVE DeskInv'
<1>1. page' = Away /\ calls' = LeftBehind /\ office' = office /\ left' = left
  BY DEF Leave
<1>2. ASSUME NEW c \in Calls
      PROVE  /\ calls'[c] \in {Free} \cup Call
             /\ calls'[c] # Free => /\ GoodCall(calls'[c], office.done)
                                    /\ calls'[c].by \in {"lost", "past"}
  <2>1. CASE calls[c].stage \notin {"sent", "found", "answered"}
    BY <1>1, <2>1 DEF LeftBehind
  <2>2. CASE calls[c].stage \in {"sent", "found", "answered"} /\ calls[c].by = "lost"
    BY <1>1, <2>2, AtWork DEF LeftBehind
  <2>3. CASE calls[c].stage \in {"sent", "found", "answered"} /\ calls[c].by # "lost"
    <3>1. GoodCall(calls[c], office.done)
      BY <2>3, AtWork
    <3>2. calls'[c] = [calls[c] EXCEPT !.by = "past"]
      BY <1>1, <2>3 DEF LeftBehind
    <3>3. GoodCall(calls'[c], office.done) /\ calls'[c].by = "past"
      BY <2>3, <3>1, <3>2, GivenUp
    <3> QED BY <3>3 DEF GoodCall
  <2> QED BY <2>1, <2>2, <2>3
<1>3. calls' \in [Calls -> {Free} \cup Call]
  BY <1>1, <1>2 DEF LeftBehind
<1>4. CallsGood(calls', page'.screen, office.done) /\ PanelsHeld'
  BY <1>2, <1>3 DEF CallsGood, OnScreen, PanelsHeld
<1> QED BY <1>1, <1>4 DEF DeskInv, GoodPage

LEMMA MoveGood ==
  ASSUME DeskInv, Move PROVE DeskInv'
<1>1. PICK p \in Moves : Turn(p, calls)
  BY DEF Move
<1>2. office' = office /\ left' \in Bound
  BY DEF Move, DeskInv
<1>3. GoodPage(p, office.done) /\ p.screen = page.screen
  <2>1. CASE OnTeams
    <3>1. GoodTeams(p, office.done)
      BY <1>1, <2>1, PageOf, TeamsTyped DEF Moves
    <3> QED BY <2>1, <3>1, PageKinds DEF OnTeams
  <2>2. CASE ~OnTeams /\ OnRecords
    <3>1. GoodRecords(p)
      BY <1>1, <2>2, PageOf, RecordsMovesGood, OfficeAssumption DEF Moves
    <3> QED BY <2>2, <3>1, PageKinds DEF OnRecords
  <2>3. CASE ~OnTeams /\ ~OnRecords /\ OnPlaces
    <3>1. GoodPlaces(p)
      BY <1>1, <2>3, PageOf, PlacesMovesGood DEF Moves
    <3> QED BY <2>3, <3>1, PageKinds DEF OnPlaces
  <2> QED BY <1>1, <2>1, <2>2, <2>3 DEF Moves
<1> QED BY <1>1, <1>2, <1>3, TurnAloneGood

LEMMA ToggleGood ==
  ASSUME DeskInv, NEW c \in Calls, Toggle(c) PROVE DeskInv'
<1>1. OnTeams /\ office' = office /\ left' \in Bound
  BY DEF Toggle, DeskInv
<1>2. GoodTeams(page, office.done) /\ OfficeTypeOK
  BY <1>1, PageOf
<1>3. PICK u \in page.teams :
        IF page.unit = u THEN Turn(AfterFold(page), calls)
        ELSE Turn(AfterUnfold(page, u), With(c, Handler("unit", Read("unfold", u), "page")))
  BY DEF Toggle
<1>4. u \in Units
  BY <1>2 DEF GoodTeams, TeamsPages
<1> DEFINE k == Handler("unit", Read("unfold", u), "page")
<1>5. GoodTeams(AfterFold(page), office.done)
  BY <1>2, TeamsKept
<1>6. GoodTeams(AfterUnfold(page, u), office.done)
  BY <1>2, <1>4, TeamsKept
<1>7. GoodCall(k, office.done) /\ k.ask.op = "unfold"
  BY <1>4, ReadGood DEF Reads, Things
<1>8. OnScreen(k, page.screen)
  BY <1>1, <1>7 DEF OnScreen, OnTeams, TeamsOps, RecordsOps, PlacesOps
<1> HIDE DEF k
<1>9. CASE Turn(AfterFold(page), calls)
  BY <1>1, <1>5, <1>9, PageKinds, TurnAloneGood DEF OnTeams
<1>10. CASE Turn(AfterUnfold(page, u), With(c, k))
  BY <1>1, <1>6, <1>7, <1>8, <1>10, PageKinds, TurnWithGood DEF OnTeams
<1> QED BY <1>3, <1>9, <1>10 DEF k

LEMMA SwitchGood ==
  ASSUME DeskInv, NEW c \in Calls, Switch(c) PROVE DeskInv'
<1>1. OnRecords /\ page.panel # None /\ office' = office /\ left' \in Bound
  BY DEF Switch, DeskInv
<1>2. GoodRecords(page) /\ GoodPanel(page.panel)
  BY <1>1, PageOf DEF GoodRecords
<1>3. PICK half \in {"in", "out"} :
        /\ SwitchOffered(page.panel, half)
        /\ Turn([page EXCEPT !.panel = AfterSwitch(@, half)],
                With(c, Handler("detail", Read("detail", HalfOf(page.panel.of, half)), "panel")))
  BY DEF Switch
<1> DEFINE e == HalfOf(page.panel.of, half)
           k == Handler("detail", Read("detail", e), "panel")
           q == AfterSwitch(page.panel, half)
<1>4. e \in Punches
  BY <1>2, <1>3 DEF SwitchOffered, HalfOf, GoodPanel, Panel, Session
<1>5. GoodCall(k, office.done) /\ k.ask.op = "detail"
  BY <1>4, ReadGood DEF Reads, Things
<1>6. OnScreen(k, page.screen)
  BY <1>1, <1>5 DEF OnScreen, OnRecords, TeamsOps, RecordsOps, PlacesOps
<1>7. GoodPanel(q)
  BY <1>2, AfterSwitchGood, OfficeAssumption
<1>8. GoodRecords([page EXCEPT !.panel = q])
  BY <1>2, <1>7, PanelInGood
<1>9. Turn([page EXCEPT !.panel = q], With(c, k))
  BY <1>3
<1> HIDE DEF k, q
<1> QED BY <1>1, <1>5, <1>6, <1>8, <1>9, PageKinds, TurnWithGood DEF OnRecords

LEMMA OpenAssignGood ==
  ASSUME DeskInv, NEW c \in Calls, OpenAssign(c) PROVE DeskInv'
<1> DEFINE l == page.picked
           k == Handler("members", Read("openAssign", l), "page")
<1>1. /\ OnPlaces /\ AssignOffered(page) /\ office' = office /\ left' \in Bound
      /\ Turn(AfterOpenAssign(page, l), With(c, k))
  BY DEF OpenAssign, DeskInv
<1>2. GoodPlaces(page)
  BY <1>1, PageOf
<1>3. l \in Places
  BY <1>1, <1>2 DEF AssignOffered, GoodPlaces, PlacesPages
<1>4. GoodPlaces(AfterOpenAssign(page, l))
  BY <1>1, <1>2, <1>3, PageOf, TicksHandled
<1>5. GoodCall(k, office.done) /\ k.ask.op = "openAssign"
  <2>1. "openAssign" \in Reads /\ "openAssign" # "detail" /\ l \in Things
    BY <1>3 DEF Reads, Things
  <2> QED BY <2>1, ReadGood
<1>6. OnScreen(k, page.screen)
  BY <1>1, <1>5 DEF OnScreen, OnPlaces, TeamsOps, RecordsOps, PlacesOps
<1> HIDE DEF k, l
<1> QED BY <1>1, <1>4, <1>5, <1>6, PageKinds, TurnWithGood DEF OnPlaces

\* The calls of saveAssignments.
LEMMA JobGood ==
  ASSUME NEW todo \in SUBSET (People \X {"assign", "unassign"}), NEW job \in NextOf(todo),
         NEW l \in Places
  PROVE  GoodAsk(Job(job, l)) /\ Job(job, l).op \in {"assign", "unassign"} /\ Job(job, l).at = l
<1>1. job \in People \X {"assign", "unassign"}
  BY DEF NextOf
<1>2. job[1] \in People /\ job[2] \in {"assign", "unassign"}
  BY <1>1
<1>3. Job(job, l) = [op |-> job[2], on |-> job[1], at |-> l, yes |-> TRUE, words |-> None]
  BY DEF Job, Wish
<1> QED BY <1>2, <1>3 DEF GoodAsk, Ops, Things, Subjects

LEMMA SaveTicksGood ==
  ASSUME DeskInv, NEW c \in Calls, SaveTicks(c) PROVE DeskInv'
<1> DEFINE todo == (ToAssign(page) \X {"assign"}) \cup (ToUnassign(page) \X {"unassign"})
           p == AfterSaveTicks(page)
<1>1. OnPlaces /\ page.assigning # None /\ office' = office
  BY DEF SaveTicks, SaveTicksOffered
<1>2. GoodPlaces(page) /\ page \in PlacesPages
  BY <1>1, PageOf DEF GoodPlaces
<1>3. GoodPage(p, office.done) /\ p.screen = page.screen
  <2>1. GoodPlaces(p)
    BY <1>2, PageOf, TicksHandled
  <2> QED BY <1>1, <2>1, PageKinds DEF OnPlaces
<1>4. /\ page.assigning \in Places /\ page.draft \in SUBSET People
      /\ todo \in SUBSET (People \X {"assign", "unassign"})
  BY <1>1, <1>2 DEF PlacesPages, ToAssign, ToUnassign
<1>5. CASE todo = {} /\ Turn(p, calls) /\ left' = left
  BY <1>1, <1>3, <1>5, TurnAloneGood DEF DeskInv
<1>6. ASSUME Spend("acts"), NEW job \in NextOf(todo),
             Turn(p, With(c, [Handler("sent", Job(job, page.assigning), "page") EXCEPT
                                !.todo = todo, !.draft = page.draft]))
      PROVE  DeskInv'
  <2> DEFINE ask == Job(job, page.assigning)
             h == Handler("sent", ask, "page")
             k == [h EXCEPT !.todo = todo, !.draft = page.draft]
  <2>1. GoodAsk(ask) /\ ask.op \in {"assign", "unassign"}
    BY <1>4, <1>6, JobGood
  <2>2. GoodCall(h, office.done) /\ h.ask = ask /\ h.by = "page" /\ h.stage = "sent"
    BY <2>1, SentGood DEF Handler
  <2> HIDE DEF todo, ask, h
  <2>3. h \in Call
    BY <2>2 DEF GoodCall
  <2>4. /\ k \in Call /\ k.ask = h.ask /\ k.by = h.by /\ k.stage = h.stage /\ k.well = h.well
        /\ k.found = h.found
    BY <1>4, <2>3 DEF Call
  <2> HIDE DEF k
  <2>5. ~Owed(k)
    BY <2>2, <2>4 DEF Owed
  <2>6. GoodCall(k, office.done)
    BY <2>2, <2>4, <2>5 DEF GoodCall
  <2>7. OnScreen(k, page.screen)
    BY <1>1, <2>1, <2>2, <2>4 DEF OnScreen, OnPlaces, TeamsOps, RecordsOps
  <2>8. left' \in Bound
    BY <1>6, Spent
  <2>9. Turn(p, With(c, k))
    BY <1>6 DEF k, h, ask
  <2> QED BY <1>1, <1>3, <2>6, <2>7, <2>8, <2>9, TurnWithGood
<1> HIDE DEF p
<1>7. \/ todo = {} /\ Turn(p, calls) /\ left' = left
      \/ /\ Spend("acts")
         /\ \E job \in NextOf(todo) :
              Turn(p, With(c, [Handler("sent", Job(job, page.assigning), "page") EXCEPT
                                !.todo = todo, !.draft = page.draft]))
  BY DEF SaveTicks, p
<1> QED BY <1>5, <1>6, <1>7

LEMMA SendGood ==
  ASSUME DeskInv, NEW c \in Calls, Send(c) PROVE DeskInv'
<1>1. office' = office /\ left' \in Bound
  BY Spent DEF Send
<1>2. ASSUME OnTeams, NEW ask \in TeamsAsks(page),
             Turn(AfterRun(page, ask), With(c, Handler("sent", ask, "page")))
      PROVE  DeskInv'
  <2> DEFINE k == Handler("sent", ask, "page")
  <2>1. GoodAsk(ask) /\ ask.op \in TeamsOps
    BY <1>2, PageOf, TeamsAsksGood, OfficeAssumption
  <2>2. GoodCall(k, office.done) /\ k.ask = ask
    BY <2>1, SentGood DEF Handler
  <2>3. OnScreen(k, page.screen)
    BY <1>2, <2>1, <2>2 DEF OnScreen, OnTeams, TeamsOps, RecordsOps, PlacesOps
  <2>5. GoodTeams(AfterRun(page, ask), office.done)
    BY <1>2, PageOf, TeamsKept
  <2> HIDE DEF k
  <2>6. Turn(AfterRun(page, ask), With(c, k))
    BY <1>2 DEF k
  <2> QED BY <1>1, <1>2, <2>2, <2>3, <2>5, <2>6, PageKinds, TurnWithGood DEF OnTeams
<1>3. ASSUME OnRecords, NEW ask \in RecordsAsks(page),
             Turn([page EXCEPT !.panel = AfterPanelAsks(@, ask.op)],
                  With(c, Handler("sent", ask, "panel")))
      PROVE  DeskInv'
  <2> DEFINE k == Handler("sent", ask, "panel")
             q == AfterPanelAsks(page.panel, ask.op)
  <2>1. GoodRecords(page)
    BY <1>3, PageOf
  <2>2. GoodAsk(ask) /\ ask.op \in RecordsOps /\ page.panel # None
    BY <2>1, RecordsAsksGood, OfficeAssumption
  <2>3. GoodPanel(page.panel) /\ (ask.op = "adjust" => ask.on \in Punches)
    BY <2>1, <2>2 DEF GoodRecords, GoodAsk
  <2>4. GoodPanel(q)
    BY <2>2, <2>3, AnswerGood, OfficeAssumption
  <2>5. GoodRecords([page EXCEPT !.panel = q])
    BY <2>1, <2>4, PanelInGood
  <2>6. GoodCall(k, office.done) /\ k.ask = ask
    BY <2>2, SentGood DEF Handler
  <2>7. OnScreen(k, page.screen)
    BY <1>3, <2>2, <2>6 DEF OnScreen, OnRecords, TeamsOps, RecordsOps, PlacesOps
  <2>8. Turn([page EXCEPT !.panel = q], With(c, k))
    BY <1>3
  <2> HIDE DEF k, q
  <2> QED BY <1>1, <1>3, <2>5, <2>6, <2>7, <2>8, PageKinds, TurnWithGood DEF OnRecords
<1>4. ASSUME OnPlaces, NEW ask \in PlacesAsks(page),
             Turn(AfterPlaceAsks(page, ask), With(c, Handler("sent", ask, "page")))
      PROVE  DeskInv'
  <2> DEFINE k == Handler("sent", ask, "page")
  <2>1. GoodPlaces(page)
    BY <1>4, PageOf
  <2>2. GoodAsk(ask) /\ ask.op \in PlacesOps
    BY <2>1, PlacesAsksGood, OfficeAssumption
  <2>3. GoodCall(k, office.done) /\ k.ask = ask
    BY <2>2, SentGood DEF Handler
  <2>4. OnScreen(k, page.screen)
    BY <1>4, <2>2, <2>3 DEF OnScreen, OnPlaces, TeamsOps, RecordsOps, PlacesOps
  <2>5. ask.op \in Ops
    BY <2>2 DEF GoodAsk
  <2>6. GoodPlaces(AfterPlaceAsks(page, ask))
    BY <2>1, <2>5, PageOf, PlacesHandled
  <2> HIDE DEF k
  <2>7. Turn(AfterPlaceAsks(page, ask), With(c, k))
    BY <1>4 DEF k
  <2> QED BY <1>1, <1>4, <2>3, <2>4, <2>6, <2>7, PageKinds, TurnWithGood DEF OnPlaces
<1> QED BY <1>2, <1>3, <1>4 DEF Send

-----------------------------------------------------------------------------
(***************************************************************************)
(* The answers, and what is read.                                          *)
(***************************************************************************)

\* A record of the page with another panel in it.
LEMMA PanelTurned ==
  ASSUME DeskInv, NEW c \in Calls, calls[c].stage # "free", calls[c].by = "panel", NEW q,
         GoodPanel(page.panel) => GoodPanel(q)
  PROVE  GoodRecords([page EXCEPT !.panel = q]) /\ OnRecords
<1>1. calls[c] # Free
  BY FreeStage
<1>2. OnRecords /\ page.panel # None
  BY <1>1 DEF DeskInv, PanelsHeld, HasPanel, OnRecords
<1>3. GoodRecords(page) /\ GoodPanel(page.panel)
  BY <1>2, PageOf DEF GoodRecords
<1> QED BY <1>2, <1>3, PanelInGood

\* The handler of a panel asks for what a panel asks for.
LEMMA OfPanel ==
  ASSUME DeskInv, NEW c \in Calls, calls[c].stage \in {"sent", "found", "answered"},
         Here(c), OnRecords
  PROVE  calls[c].ask.op \in RecordsOps /\ (calls[c].ask.op = "adjust" => calls[c].ask.on \in Punches)
<1>1. calls[c].ask.op \in Ops /\ GoodAsk(calls[c].ask)
  BY AtWork DEF GoodCall
<1>2. calls[c].ask.op \in TeamsOps \cup RecordsOps \cup PlacesOps
  BY <1>1 DEF Ops, TeamsOps, RecordsOps, PlacesOps
<1>3. ~OnTeams /\ ~OnPlaces
  BY DEF OnRecords, OnTeams, OnPlaces
<1> QED BY <1>1, <1>2, <1>3, OfItsPage DEF GoodAsk

LEMMA FailedGood ==
  ASSUME DeskInv, NEW c \in Calls, calls[c].stage \in {"sent", "found", "answered"}
  PROVE  GoodPage(Failed(c), office.done) /\ Failed(c).screen = page.screen
<1> DEFINE ask == calls[c].ask
<1>1. CASE Failed(c) = page
  BY <1>1 DEF DeskInv
<1>2. CASE Here(c) /\ OnTeams
  <2>1. Failed(c) = AfterRunEnds(page, ask, FALSE)
    BY <1>2 DEF Failed
  <2>2. GoodTeams(AfterRunEnds(page, ask, FALSE), office.done)
    BY <1>2, PageOf, TeamsKept
  <2> QED BY <1>2, <2>1, <2>2, PageKinds DEF OnTeams
<1>3. CASE Here(c) /\ ~OnTeams /\ OnPlaces
  <2>1. Failed(c) \in {AfterTicksFailed(page), AfterPlaceEnds(page, ask)}
    BY <1>3 DEF Failed
  <2>2. GoodPlaces(AfterTicksFailed(page)) /\ GoodPlaces(AfterPlaceEnds(page, ask))
    BY <1>3, PageOf, PlacesHandled
  <2>3. GoodPlaces(Failed(c))
    BY <2>1, <2>2
  <2> QED BY <1>3, <2>3, PageKinds DEF OnPlaces
<1>4. CASE Here(c) /\ ~OnTeams /\ ~OnPlaces /\ calls[c].by = "panel"
  <2> DEFINE q == AfterPanelAnswer(page.panel, ask, FALSE)
  <2>1. OnRecords
    BY <1>4, OfItsPage, PageOf
  <2>2. ask.op \in RecordsOps /\ (ask.op = "adjust" => ask.on \in Punches)
    BY <1>4, <2>1, OfPanel
  <2>3. GoodPanel(page.panel) => GoodPanel(q)
    BY <2>2, AnswerGood, OfficeAssumption
  <2>4. Failed(c) = [page EXCEPT !.panel = q]
    BY <1>4 DEF Failed
  <2> HIDE DEF q
  <2>5. GoodRecords([page EXCEPT !.panel = q])
    BY <1>4, <2>3, PanelTurned
  <2> QED BY <2>1, <2>4, <2>5, PageKinds DEF OnRecords
<1> QED BY <1>1, <1>2, <1>3, <1>4 DEF Failed

LEMMA RefusedGood ==
  ASSUME DeskInv, NEW c \in Calls, Refused(c) PROVE DeskInv'
<1>1. /\ calls[c].stage = "answered" /\ office' = office /\ left' = left
      /\ Turn(Failed(c), With(c, Free))
  BY DEF Refused, At
<1> QED BY <1>1, FailedGood, TurnWithGood DEF DeskInv

LEMMA UnheardGood ==
  ASSUME DeskInv, NEW c \in Calls, Unheard(c) PROVE DeskInv'
<1> DEFINE k == IF At(c, "answered") THEN Free ELSE [calls[c] EXCEPT !.by = "lost"]
<1>1. /\ calls[c].stage \in {"sent", "found", "answered"} /\ office' = office /\ left' = left
      /\ Turn(Failed(c), With(c, k))
  BY DEF Unheard
<1>2. GoodCall(calls[c], office.done)
  BY <1>1, AtWork
<1>3. k # Free => GoodCall(k, office.done) /\ OnScreen(k, page.screen)
  BY <1>1, <1>2, GivenUp
<1> HIDE DEF k
<1> QED BY <1>1, <1>3, FailedGood, TurnWithGood DEF DeskInv

LEMMA WellOfTicksGood ==
  ASSUME DeskInv, NEW c \in Calls, At(c, "answered"), OfTicks(c), WellOfTicks(c),
         office' = office, left' = left
  PROVE  DeskInv'
<1> DEFINE call == calls[c]
           rest == call.todo \ {<<call.ask.on, call.ask.op>>}
<1>1. /\ GoodCall(call, office.done) /\ OnScreen(call, page.screen) /\ call \in Call
      /\ call.stage = "answered" /\ call.ask.op \in {"assign", "unassign"}
  BY AtWork DEF At, OfTicks
<1>2. /\ rest \in SUBSET (People \X {"assign", "unassign"}) /\ call.draft \in SUBSET People
      /\ call.ask.at \in Places
  BY <1>1 DEF Call, GoodCall, GoodAsk, Ops
<1>3. CASE Turn(IF Here(c) THEN AfterTicksSaved(page, call.draft) ELSE page, With(c, Free))
  <2> DEFINE p == IF Here(c) THEN AfterTicksSaved(page, call.draft) ELSE page
  <2>1. CASE Here(c)
    <3>1. OnPlaces
      BY <1>1, <2>1, OfItsPage DEF PlacesOps
    <3>2. GoodPlaces(p)
      BY <1>2, <2>1, <3>1, PageOf, TicksHandled
    <3> QED BY <1>3, <3>1, <3>2, PageKinds, TurnWithGood DEF OnPlaces, DeskInv
  <2>2. CASE ~Here(c)
    BY <1>3, <2>2, TurnWithGood DEF DeskInv
  <2> QED BY <2>1, <2>2
<1>4. ASSUME NEW job \in NextOf(rest),
             Turn(page, With(c, [call EXCEPT !.stage = "sent", !.well = FALSE, !.todo = rest,
                                             !.ask = Job(job, call.ask.at)]))
      PROVE  DeskInv'
  <2> DEFINE ask == Job(job, call.ask.at)
             k == [call EXCEPT !.stage = "sent", !.well = FALSE, !.todo = rest, !.ask = ask]
  <2>1. GoodAsk(ask) /\ ask.op \in {"assign", "unassign"}
    BY <1>2, <1>4, JobGood
  <2>2. ask \in Errand
    BY <2>1 DEF GoodAsk, Errand
  <2> HIDE DEF ask, rest
  <2>3. k \in Call /\ k.stage = "sent" /\ k.well = FALSE /\ k.ask = ask /\ k.by = call.by
    BY <1>1, <1>2, <2>2 DEF Call
  <2>4. Turn(page, With(c, k))
    BY <1>4 DEF ask
  <2> HIDE DEF k
  <2>5. ~Owed(k)
    BY <2>3 DEF Owed
  <2>6. ask.op \in Ops /\ ask.op \notin Reads /\ ask.op # "detail"
    BY <2>1 DEF Ops, Reads
  <2>7. GoodCall(k, office.done)
    BY <2>1, <2>3, <2>5, <2>6 DEF GoodCall
  <2>8. OnScreen(k, page.screen)
    BY <1>1, <2>1, <2>3 DEF OnScreen, TeamsOps, RecordsOps, PlacesOps
  <2> QED BY <2>4, <2>7, <2>8, TurnWithGood DEF DeskInv
<1> QED BY <1>3, <1>4 DEF WellOfTicks

\* What a page tells of an act is of the type, and on record.
LEMMA TaleGood ==
  ASSUME DeskInv, NEW c \in Calls, calls[c].ask.op \in TeamsOps,
         \/ calls[c].stage = "answered" /\ calls[c].well
         \/ calls[c].stage = "unit"
  PROVE  /\ Tale(c) \in Tales /\ (Tale(c).op \in Announced => Tale(c) \in office.done)
<1> DEFINE k == calls[c]
<1>1. GoodCall(k, office.done) /\ k \in Call
  BY AtWork
<1>2. k.ask.op \in Ops /\ k.ask.op # "unfold" /\ GoodAsk(k.ask)
  BY <1>1 DEF GoodCall, TeamsOps, Ops
<1>3. Tale(c) = TaleOf(k)
  BY DEF Tale, TaleOf
<1>4. Those(k.found) \in Things
  BY <1>1 DEF Those, Things, Call
<1>5. TaleOf(k) \in Tales /\ TaleOf(k).op = k.ask.op
  BY <1>2, <1>4 DEF TaleOf, Told, Tales, GoodAsk
<1>6. k.ask.op \in Announced => Owed(k)
  BY <1>2 DEF Owed
<1> HIDE DEF k
<1> QED BY <1>1, <1>3, <1>5, <1>6 DEF GoodCall

LEMMA WellInTeamsGood ==
  ASSUME DeskInv, NEW c \in Calls, At(c, "answered"), calls[c].well, Here(c), OnTeams,
         WellInTeams(c), office' = office, left' = left
  PROVE  DeskInv'
<1> DEFINE k == calls[c]
           ask == calls[c].ask
           p == AfterWrite(page, ask)
<1>1. /\ k.stage = "answered" /\ GoodCall(k, office.done) /\ OnScreen(k, page.screen)
      /\ k.by \in {"page", "panel"}
  BY AtWork DEF At, Here
<1>2. ask.op \in TeamsOps
  <2>1. ask.op \in Ops
    BY <1>1 DEF GoodCall
  <2>2. ~OnRecords /\ ~OnPlaces
    BY DEF OnTeams, OnRecords, OnPlaces
  <2> QED BY <1>1, <2>1, <2>2, OfItsPage DEF Ops, TeamsOps, RecordsOps, PlacesOps
<1>3. GoodTeams(p, office.done)
  BY PageOf, TeamsKept
<1>4. CASE Turn(p, Moved(c, "unit"))
  <2>1. LET l == [k EXCEPT !.stage = "unit"] IN GoodCall(l, office.done) /\ OnScreen(l, page.screen)
    BY <1>1, <1>2, Onward
  <2> HIDE DEF p
  <2> QED BY <1>3, <1>4, <2>1, PageKinds, TurnWithGood DEF Moved, OnTeams, DeskInv
<1>5. CASE Turn(AfterWork(p, Tale(c)), Moved(c, "load"))
  <2>1. LET l == [k EXCEPT !.stage = "load"] IN GoodCall(l, office.done) /\ OnScreen(l, page.screen)
    BY <1>1, <1>2, Onward
  <2>2. GoodTeams(AfterWork(p, Tale(c)), office.done)
    BY <1>1, <1>2, <1>3, TaleGood, PageOf, TeamsHandled
  <2> HIDE DEF p
  <2> QED BY <1>5, <2>1, <2>2, PageKinds, TurnWithGood DEF Moved, OnTeams, DeskInv
<1> QED BY <1>4, <1>5 DEF WellInTeams

LEMMA WellInRecordsGood ==
  ASSUME DeskInv, NEW c \in Calls, At(c, "answered"), Here(c), OnRecords,
         WellInRecords(c), office' = office, left' = left
  PROVE  DeskInv'
<1> DEFINE ask == calls[c].ask
           q == AfterPanelAnswer(page.panel, ask, TRUE)
           p == IF calls[c].by = "panel" THEN [page EXCEPT !.panel = q] ELSE page
<1>1. ask.op \in RecordsOps /\ (ask.op = "adjust" => ask.on \in Punches)
  BY OfPanel DEF At
<1>2. GoodPanel(page.panel) => GoodPanel(q)
  BY <1>1, AnswerGood, OfficeAssumption
<1>3. Turn(AfterChange(p, ask.op), With(c, Free))
  BY DEF WellInRecords
<1> HIDE DEF q
<1>4. GoodRecords(p)
  BY <1>2, PanelTurned, PageOf DEF At
<1> HIDE DEF p
<1>5. GoodRecords(AfterChange(p, ask.op))
  BY <1>4, ChangedGood, OfficeAssumption
<1> QED BY <1>3, <1>5, PageKinds, TurnWithGood DEF OnRecords, DeskInv

LEMMA HeardGood ==
  ASSUME DeskInv, NEW c \in Calls, Heard(c) PROVE DeskInv'
<1> DEFINE k == calls[c]
           ask == calls[c].ask
<1>1. At(c, "answered") /\ k.well /\ office' = office /\ left' = left
  BY DEF Heard
<1>2. CASE OfTicks(c)
  BY <1>1, <1>2, WellOfTicksGood DEF Heard
<1>3. CASE Turn(page, With(c, Free))
  BY <1>1, <1>3, TurnWithGood DEF DeskInv
<1>4. CASE ~OfTicks(c) /\ Here(c) /\ OnTeams
  BY <1>1, <1>4, WellInTeamsGood DEF Heard
<1>5. CASE ~OfTicks(c) /\ Here(c) /\ ~OnTeams /\ OnRecords
  BY <1>1, <1>5, WellInRecordsGood DEF Heard
<1>6. CASE ~OfTicks(c) /\ Here(c) /\ ~OnTeams /\ ~OnRecords
  <2>1. Turn(AfterPlaceDone(page, ask), Moved(c, "load"))
    BY <1>6 DEF Heard
  <2>2. /\ k.stage = "answered" /\ GoodCall(k, office.done) /\ OnScreen(k, page.screen)
        /\ k.by \in {"page", "panel"}
    BY <1>1, <1>6, AtWork DEF At, Here
  <2>3. OnPlaces /\ ask.op \in PlacesOps
    <3>1. ask.op \in Ops
      BY <2>2 DEF GoodCall
    <3> QED BY <1>6, <2>2, <3>1, OfItsPage DEF Ops, TeamsOps, RecordsOps, PlacesOps
  <2>4. LET l == [k EXCEPT !.stage = "load"] IN GoodCall(l, office.done) /\ OnScreen(l, page.screen)
    BY <2>2, <2>3, Onward
  <2>5. GoodPlaces(AfterPlaceDone(page, ask))
    BY <2>3, PageOf, PlacesHandled
  <2> QED BY <1>1, <2>1, <2>3, <2>4, <2>5, PageKinds, TurnWithGood DEF Moved, OnPlaces, DeskInv
<1> QED BY <1>2, <1>3, <1>4, <1>5, <1>6 DEF Heard

LEMMA UnitGood ==
  ASSUME DeskInv, NEW c \in Calls, UnitCame(c) \/ NoUnit(c) PROVE DeskInv'
<1> DEFINE k == calls[c]
           ask == calls[c].ask
<1>1. k.stage = "unit" /\ office' = office /\ left' = left
  BY DEF UnitCame, NoUnit, At
<1>2. /\ GoodCall(k, office.done) /\ OnScreen(k, page.screen) /\ k.by \in {"page", "panel"}
      /\ ask.op \in TeamsOps \cup {"unfold"}
  BY <1>1, AtWork DEF GoodCall
<1>3. OnTeams
  BY <1>1, <1>2, OfItsPage DEF Here
<1>4. GoodTeams(page, office.done) /\ OfficeTypeOK
  BY <1>3, PageOf
<1>5. ASSUME NEW p, GoodTeams(p, office.done), Turn(p, With(c, Free)) PROVE DeskInv'
  BY <1>1, <1>3, <1>5, PageKinds, TurnWithGood DEF OnTeams, DeskInv
<1>6. CASE NoUnit(c)
  <2>1. GoodTeams(AfterRunEnds(page, ask, FALSE), office.done)
    BY <1>4, TeamsKept
  <2> QED BY <1>4, <1>5, <1>6, <2>1 DEF NoUnit
<1>7. CASE UnitCame(c) /\ ask.op = "unfold"
  <2>1. GoodTeams(AfterUnit(page, ask.on), office.done)
    BY <1>4, TeamsKept
  <2> QED BY <1>5, <1>7, <2>1 DEF UnitCame
<1>8. CASE UnitCame(c) /\ ask.op # "unfold"
  <2> DEFINE p == AfterUnit(page, ask.at)
  <2>1. Turn(AfterWork(p, Tale(c)), Moved(c, "load"))
    BY <1>8 DEF UnitCame
  <2>2. GoodTeams(p, office.done)
    BY <1>4, TeamsKept
  <2> HIDE DEF p
  <2>3. GoodTeams(AfterWork(p, Tale(c)), office.done)
    BY <1>1, <1>2, <1>4, <1>8, <2>2, TaleGood, TeamsHandled
  <2>4. LET l == [k EXCEPT !.stage = "load"] IN GoodCall(l, office.done) /\ OnScreen(l, page.screen)
    BY <1>2, <1>8, Onward
  <2> QED BY <1>1, <1>3, <2>1, <2>3, <2>4, PageKinds, TurnWithGood DEF Moved, OnTeams, DeskInv
<1> QED BY <1>6, <1>7, <1>8

LEMMA LoadGood ==
  ASSUME DeskInv, NEW c \in Calls, LoadCame(c) \/ NoLoad(c) PROVE DeskInv'
<1> DEFINE k == calls[c]
           ask == calls[c].ask
<1>1. k.stage = "load" /\ office' = office /\ left' = left
  BY DEF LoadCame, NoLoad, At
<1>2. /\ GoodCall(k, office.done) /\ k.by \in {"page", "panel"}
      /\ ask.op \in TeamsOps \cup PlacesOps \cup {"open"}
  BY <1>1, AtWork DEF GoodCall
<1>3. OnTeams \/ (~OnTeams /\ OnPlaces)
  BY <1>1, <1>2, OfItsPage DEF Here
<1>4. CASE OnTeams
  <2>1. GoodTeams(page, office.done) /\ OfficeTypeOK
    BY <1>4, PageOf
  <2>2. PICK p : /\ GoodTeams(p, office.done) /\ Turn(Ended(p, ask), With(c, Free))
    <3>1. PICK queues \in SUBSET {"joins", "papers"} :
            \/ Turn(Ended(AfterTeams(page, queues), ask), With(c, Free))
            \/ Turn(Ended(AfterNoTeams(page, queues), ask), With(c, Free))
      BY <1>4 DEF LoadCame, NoLoad
    <3>2. GoodTeams(AfterTeams(page, queues), office.done) /\ GoodTeams(AfterNoTeams(page, queues), office.done)
      BY <2>1, TeamsLoaded
    <3> QED BY <3>1, <3>2
  <2>3. GoodTeams(Ended(p, ask), office.done)
    BY <1>4, <2>1, <2>2, TeamsKept DEF Ended
  <2> QED BY <1>1, <1>4, <2>2, <2>3, PageKinds, TurnWithGood DEF OnTeams, DeskInv
<1>5. CASE ~OnTeams /\ OnPlaces
  <2>1. GoodPlaces(page) /\ OfficeTypeOK
    BY <1>5, PageOf
  <2>2. GoodPlaces(AfterPlaces(page))
    BY <2>1, PlacesHandled
  <2>3. PICK p : GoodPlaces(p) /\ Turn(Ended(p, ask), With(c, Free))
    BY <1>5, <2>1, <2>2 DEF LoadCame, NoLoad
  <2>4. GoodPlaces(Ended(p, ask))
    BY <1>5, <2>1, <2>3, PlacesHandled DEF Ended
  <2> QED BY <1>1, <1>5, <2>3, <2>4, PageKinds, TurnWithGood DEF OnPlaces, DeskInv
<1> QED BY <1>3, <1>4, <1>5

LEMMA AssignReadGood ==
  ASSUME DeskInv, NEW c \in Calls, MembersCame(c) \/ PairsCame(c) PROVE DeskInv'
<1> DEFINE k == calls[c]
<1>1. k.stage \in {"members", "pairs"} /\ office' = office /\ left' = left
  BY DEF MembersCame, PairsCame, At
<1>2. /\ GoodCall(k, office.done) /\ OnScreen(k, page.screen) /\ k.by \in {"page", "panel"}
      /\ k.ask.op = "openAssign"
  BY <1>1, AtWork DEF GoodCall
<1>3. OnPlaces
  BY <1>1, <1>2, OfItsPage DEF Here
<1>4. GoodPlaces(page) /\ OfficeTypeOK
  BY <1>3, PageOf
<1>5. CASE MembersCame(c)
  <2>1. GoodPlaces(AfterMembers(page))
    BY <1>4, PlacesHandled
  <2>2. LET l == [k EXCEPT !.stage = "pairs"] IN GoodCall(l, office.done) /\ OnScreen(l, page.screen)
    BY <1>2, Onward
  <2>3. Turn(AfterMembers(page), With(c, [k EXCEPT !.stage = "pairs"]))
    BY <1>5 DEF MembersCame, Moved
  <2> QED BY <1>1, <1>3, <2>1, <2>2, <2>3, PageKinds, TurnWithGood DEF OnPlaces, DeskInv
<1>6. CASE PairsCame(c)
  <2>1. GoodPlaces(AfterPairs(page, k.ask.on))
    BY <1>4, TicksHandled
  <2> QED BY <1>1, <1>3, <1>6, <2>1, PageKinds, TurnWithGood DEF PairsCame, OnPlaces, DeskInv
<1> QED BY <1>5, <1>6

LEMMA DetailGood ==
  ASSUME DeskInv, NEW c \in Calls, DetailCame(c) \/ NotRead(c) PROVE DeskInv'
<1> DEFINE k == calls[c]
           q == LoadForm(page.panel, k.ask.on)
<1>1. office' = office /\ left' = left
  BY DEF DetailCame, NotRead
<1>2. CASE Turn(page, With(c, Free))
  BY <1>1, <1>2, TurnWithGood DEF DeskInv
<1>3. CASE k.stage = "detail" /\ k.by = "panel" /\ Turn([page EXCEPT !.panel = q], With(c, Free))
  <2>1. k.ask.on \in Punches
    BY <1>3, AtWork DEF GoodCall
  <2>2. GoodPanel(page.panel) => GoodPanel(q)
    BY <2>1, FormGood, OfficeAssumption
  <2>3. GoodRecords([page EXCEPT !.panel = q]) /\ OnRecords
    BY <1>3, <2>2, PanelTurned
  <2> HIDE DEF q
  <2> QED BY <1>1, <1>3, <2>3, PageKinds, TurnWithGood DEF OnRecords, DeskInv
<1> QED BY <1>2, <1>3 DEF DetailCame, NotRead, At

LEMMA EffectsGood ==
  ASSUME DeskInv, CalendarCame \/ DayCame \/ FetchCame PROVE DeskInv'
<1>1. office' = office /\ left' = left /\ OnRecords
  BY DEF CalendarCame, DayCame, FetchCame, HasPanel, OnRecords
<1>2. GoodRecords(page)
  BY <1>1, PageOf
<1>3. ASSUME NEW p, GoodRecords(p), Turn(p, calls) PROVE DeskInv'
  BY <1>1, <1>3, PageKinds, TurnAloneGood DEF OnRecords, DeskInv
<1>4. CASE CalendarCame
  BY <1>2, <1>3, <1>4, AfterCalendarGood DEF CalendarCame
<1>5. CASE DayCame
  BY <1>2, <1>3, <1>5, DayGood, OfficeAssumption DEF DayCame
<1>6. CASE FetchCame
  <2>1. page.panel # None /\ GoodPanel(page.panel)
    BY <1>2, <1>6 DEF FetchCame, HasPanel, GoodRecords
  <2>2. PICK f \in page.panel.fetching :
          \/ Turn([page EXCEPT !.panel = AfterFetch(@, f)], calls)
          \/ Turn([page EXCEPT !.panel = AfterNoFetch(@, f)], calls)
    BY <1>6 DEF FetchCame
  <2>3. GoodPanel(AfterFetch(page.panel, f)) /\ GoodPanel(AfterNoFetch(page.panel, f))
    BY <2>1, <2>2, AfterFetchGood, OfficeAssumption
  <2>4. /\ GoodRecords([page EXCEPT !.panel = AfterFetch(page.panel, f)])
        /\ GoodRecords([page EXCEPT !.panel = AfterNoFetch(page.panel, f)])
    BY <1>2, <2>3, PanelInGood
  <2> QED BY <1>3, <2>2, <2>4
<1> QED BY <1>4, <1>5, <1>6

LEMMA OthersGood ==
  ASSUME DeskInv, Others PROVE DeskInv'
<1>1. OfficeGood(office') /\ office'.done = office.done
  BY OthersOffice DEF DeskInv
<1>2. page' = page /\ calls' = calls
  BY DEF Others
<1>3. left' \in Bound
  BY Spent DEF Others, DeskInv
<1> QED BY <1>1, <1>2, <1>3 DEF DeskInv, PanelsHeld, HasPanel

-----------------------------------------------------------------------------
(***************************************************************************)
(* The invariant, and what it gives.                                       *)
(***************************************************************************)

LEMMA DeskInvInit ==
  ASSUME Init PROVE DeskInv
<1>1. left \in Bound
  BY DeskAssumption DEF Init
<1>2. /\ left.units \in SUBSET Units /\ left.standing \in [People -> Standings]
      /\ left.assigned \in SUBSET (People \X Places) /\ left.when \in [Punches -> Days \cup {None}]
  BY <1>1 DEF Bound
<1> DEFINE unit == [x \in People |-> IF left.standing[x] = "none" \/ left.units = {} THEN None
                                     ELSE CHOOSE u \in left.units : TRUE]
<1>3. unit \in [People -> Units \cup {None}]
  <2>1. left.units # {} => (CHOOSE u \in left.units : TRUE) \in Units
    BY <1>2
  <2> QED BY <2>1
<1>4. office = [units |-> left.units, open |-> left.units, standing |-> left.standing,
                unit |-> unit, elsewhere |-> {}, wooed |-> {}, attached |-> {},
                kept |-> Places, lit |-> Places, assigned |-> left.assigned,
                waiting |-> Papers, when |-> left.when, done |-> {}]
  BY DEF Init, OfficeInit
<1> HIDE DEF unit
<1>5. office \in Rows
  BY <1>2, <1>3, <1>4 DEF Rows
<1>6. NeverBoth(office)
  BY <1>4 DEF NeverBoth
<1>7. GoodPage(page, office.done)
  BY DEF Init, GoodPage
<1>8. CallsGood(calls, page.screen, office.done) /\ PanelsHeld
  BY DEF Init, CallsGood, PanelsHeld
<1> QED BY <1>1, <1>5, <1>6, <1>7, <1>8 DEF DeskInv, OfficeGood

LEMMA DeskInvStep ==
  ASSUME DeskInv, [Next]_vars PROVE DeskInv'
<1>1. ASSUME NEW c \in Calls, Open(c, OpenedTeams) \/ Open(c, OpenedPlaces) PROVE DeskInv'
  BY <1>1, OpenGood
<1>2. ASSUME NEW c \in Calls, NEW month \in Months, Open(c, OpenedRecords(month)) PROVE DeskInv'
  BY <1>2, OpenRecordsGood
<1>3. ASSUME NEW c \in Calls, Toggle(c) PROVE DeskInv'
  BY <1>3, ToggleGood
<1>4. ASSUME NEW c \in Calls, Switch(c) PROVE DeskInv'
  BY <1>4, SwitchGood
<1>5. ASSUME NEW c \in Calls, OpenAssign(c) PROVE DeskInv'
  BY <1>5, OpenAssignGood
<1>6. ASSUME NEW c \in Calls, SaveTicks(c) PROVE DeskInv'
  BY <1>6, SaveTicksGood
<1>7. ASSUME NEW c \in Calls, Send(c) PROVE DeskInv'
  BY <1>7, SendGood
<1>8. ASSUME NEW c \in Calls, Served(c) PROVE DeskInv'
  BY <1>8, ServedGood
<1>9. ASSUME NEW c \in Calls, LookedUp(c) PROVE DeskInv'
  BY <1>9, LookedUpGood
<1>10. ASSUME NEW c \in Calls, Added(c) PROVE DeskInv'
  BY <1>10, AddedGood
<1>11. ASSUME NEW c \in Calls, Vanishes(c) PROVE DeskInv'
  BY <1>11, VanishesGood
<1>12. ASSUME NEW c \in Calls, Awaited(c) PROVE DeskInv'
  BY <1>12, HeardGood, RefusedGood, UnheardGood, UnitGood, LoadGood, AssignReadGood, DetailGood
     DEF Awaited
<1>13. CASE Leave
  BY <1>13, LeaveGood
<1>14. CASE Move
  BY <1>14, MoveGood
<1>15. CASE CalendarCame \/ DayCame \/ FetchCame
  BY <1>15, EffectsGood
<1>16. CASE Others
  BY <1>16, OthersGood
<1>17. CASE UNCHANGED vars
  BY <1>17 DEF vars, DeskInv, PanelsHeld, HasPanel
<1> QED BY <1>1, <1>2, <1>3, <1>4, <1>5, <1>6, <1>7, <1>8, <1>9, <1>10, <1>11, <1>12, <1>13,
           <1>14, <1>15, <1>16, <1>17 DEF Next

\* The desk keeps its invariant: who is active where, what each page knows of
\* what it shows, what each handler carries.
THEOREM DeskInvariant == Spec => []DeskInv
<1>1. Init => DeskInv
  BY DeskInvInit
<1>2. DeskInv /\ [Next]_vars => DeskInv'
  BY DeskInvStep
<1> QED BY <1>1, <1>2, PTL DEF Spec

\* Every variable of the desk stays of its type.
THEOREM DeskTyped == Spec => []TypeOK
<1>1. DeskInv => TypeOK
  BY DEF DeskInv, OfficeGood, OfficeTypeOK, GoodPage, GoodTeams, GoodRecords, GoodPlaces,
         CallsGood, TypeOK
<1> QED BY <1>1, DeskInvariant, PTL

\* A person is active with one manager at a time, whoever adds, approves or
\* takes back whom in between (migration 019, services/membership.py).
THEOREM OneManager == Spec => []OneManagerEach
<1>1. DeskInv => OneManagerEach
  <2> SUFFICES ASSUME DeskInv, NEW x \in People PROVE Cardinality(ActiveRows(x)) <= 1
    BY DEF OneManagerEach
  <2>1. ActiveRows(x) = {} \/ ActiveRows(x) = {"ours"} \/ ActiveRows(x) = {"theirs"}
    BY DEF DeskInv, OfficeGood, NeverBoth, ActiveRows
  <2>2. Cardinality({}) = 0 /\ Cardinality({"ours"}) = 1 /\ Cardinality({"theirs"}) = 1
    BY FS_EmptySet, FS_Singleton
  <2>3. 0 <= 1 /\ 1 <= 1
    OBVIOUS
  <2> QED BY <2>1, <2>2, <2>3
<1> QED BY <1>1, DeskInvariant, PTL

\* What the page of the units announces is on record (run, invite, decide).
THEOREM SaysDone == Spec => []SaysWhatWasDone
<1>1. DeskInv => SaysWhatWasDone
  BY PageOf DEF SaysWhatWasDone, GoodTeams
<1> QED BY <1>1, DeskInvariant, PTL

\* The calendar under a heading is of that month, whatever is late (the effect
\* of the month in app/manager/attendance/page.tsx).
THEOREM CalendarRight == Spec => []CalendarIsOfMonth
<1>1. DeskInv => CalendarIsOfMonth
  BY PageOf DEF CalendarIsOfMonth, GoodRecords
<1> QED BY <1>1, DeskInvariant, PTL

\* The photographs of the panel are of the line it shows (the effect of
\* components/records/PersonPanel.tsx).
THEOREM PhotosRight == Spec => []PhotosAreOfPanel
<1>1. DeskInv => PhotosAreOfPanel
  BY PageOf DEF PhotosAreOfPanel, HasPanel, OnRecords, GoodRecords, GoodPanel
<1> QED BY <1>1, DeskInvariant, PTL

\* No request of the desk carries words about something else.
THEOREM RightlyAttributed == Spec => []NeverMisattributed
<1>1. DeskInv => NeverMisattributed
  <2> SUFFICES ASSUME DeskInv, NEW c \in Calls, calls[c] # Free
               PROVE  calls[c].ask.words \in {None, About(calls[c].ask)}
    BY DEF NeverMisattributed
  <2>1. GoodCall(calls[c], office.done) /\ calls[c].ask.op \in Ops \cup Reads
    BY DEF DeskInv, CallsGood, GoodCall, Call, Errand
  <2> QED BY <2>1 DEF GoodCall, GoodAsk
<1> QED BY <1>1, DeskInvariant, PTL

\* The ticks of a place change nobody the manager did not tick or untick
\* (openAssign and saveAssignments of app/manager/locations/page.tsx).
THEOREM TicksRight == Spec => []OnlyWhatWasTicked
<1>1. DeskInv => OnlyWhatWasTicked
  BY PageOf DEF OnlyWhatWasTicked, GoodPlaces
<1> QED BY <1>1, DeskInvariant, PTL
=============================================================================
