------------------------------ MODULE PagesProofs ------------------------------
(***************************************************************************)
(* What the functions of the three pages of a manager's desk preserve,     *)
(* whatever the server holds.  Each page keeps a bond between what was     *)
(* asked for, or typed, and what is on screen (GoodTeams, GoodPanel,       *)
(* GoodRecords, GoodPlaces); DeskProofs takes them to the whole desk.      *)
(***************************************************************************)
EXTENDS Desk, TLAPS

-----------------------------------------------------------------------------
(***************************************************************************)
(* What the office answers is of its type.                                 *)
(***************************************************************************)
LEMMA ReadsTyped ==
  ASSUME OfficeTypeOK
  PROVE  /\ office.units \subseteq Units /\ office.open \subseteq Units
         /\ office.lit \subseteq Places /\ office.kept \subseteq Places
         /\ office.waiting \subseteq Papers
         /\ Joins \subseteq People /\ Managed \subseteq People
         /\ \A u : Roster(u) \subseteq People /\ PlacesOf(u) \subseteq Places
         /\ \A l : AssignedTo(l) \subseteq People
  BY DEF OfficeTypeOK, Rows, Joins, Managed, Roster, PlacesOf, AssignedTo

\* A line has a record, or more: the first of them is one.
LEMMA HalfTyped ==
  ASSUME OfficeAssumption, NEW x, NEW day, NEW kind
  PROVE  /\ Half(x, day, kind) \in Punches \cup {None}
         /\ (\E e \in Punches : Who[e] = x /\ Kind[e] = kind /\ office.when[e] = day)
              => Half(x, day, kind) \in Punches
<1> DEFINE halves == {e \in Punches : Who[e] = x /\ Kind[e] = kind /\ office.when[e] = day}
<1>1. CASE halves = {}
  BY <1>1 DEF Half
<1>2. CASE halves # {}
  <2>1. (CHOOSE e \in halves : TRUE) \in halves
    BY <1>2
  <2>2. Half(x, day, kind) = CHOOSE e \in halves : TRUE
    BY <1>2 DEF Half
  <2> QED BY <2>1, <2>2
<1> QED BY <1>1, <1>2

LEMMA LinesTyped ==
  ASSUME OfficeAssumption, NEW day \in Days, NEW s \in SessionsOn(day)
  PROVE  s \in Session /\ First(s) \in Punches
<1>1. PICK e \in {e \in Punches : office.when[e] = day} :
        s = [who |-> Who[e], day |-> day, in |-> Half(Who[e], day, "in"),
             out |-> Half(Who[e], day, "out")]
  BY DEF SessionsOn
<1>2. Who[e] \in People /\ Kind[e] \in {"in", "out"}
  BY <1>1 DEF OfficeAssumption
<1>3. /\ Half(Who[e], day, "in") \in Punches \cup {None}
      /\ Half(Who[e], day, "out") \in Punches \cup {None}
      /\ Half(Who[e], day, Kind[e]) \in Punches
  BY <1>1, HalfTyped
<1> QED BY <1>1, <1>2, <1>3 DEF Session, First, OfficeAssumption

-----------------------------------------------------------------------------
(***************************************************************************)
(* The page of the units.                                                  *)
(***************************************************************************)

\* What it announced is on record; what is typed is about what it is shown with.
GoodTeams(p, done) ==
  /\ p \in TeamsPages
  /\ p.notice \in done \cup {None}
  /\ p.rejecting # None => p.words \in {None, p.rejecting}
  /\ p.unit # None =>
       /\ p.adding # None => p.adding[2] = p.unit
       /\ p.inviting # None => p.inviting[2] = p.unit

\* The fields that bond is about.
Bonded(p) == [notice |-> p.notice, rejecting |-> p.rejecting, words |-> p.words,
              unit |-> p.unit, adding |-> p.adding, inviting |-> p.inviting]

LEMMA BondKept ==
  ASSUME NEW done, NEW p, GoodTeams(p, done), NEW q \in TeamsPages, Bonded(q) = Bonded(p)
  PROVE  GoodTeams(q, done)
<1>1. /\ q.notice = p.notice /\ q.rejecting = p.rejecting /\ q.words = p.words
      /\ q.unit = p.unit /\ q.adding = p.adding /\ q.inviting = p.inviting
  BY DEF Bonded
<1> QED BY <1>1 DEF GoodTeams

LEMMA OpenedTeamsGood ==
  ASSUME NEW done PROVE GoodTeams(OpenedTeams, done)
<1>1. OpenedTeams \in TeamsPages
  BY DEF OpenedTeams, TeamsPages, Chosen, Addressed
<1> QED BY <1>1 DEF GoodTeams, OpenedTeams

LEMMA LoadedTyped ==
  ASSUME NEW p \in TeamsPages, NEW us \in SUBSET Units, NEW os \in SUBSET Units,
         NEW ls \in SUBSET Places, NEW js \in SUBSET People, NEW ps \in SUBSET Papers
  PROVE  [p EXCEPT !.teams = us, !.open = os, !.locations = ls, !.joins = js, !.papers = ps]
           \in TeamsPages
<1>1. [p EXCEPT !.teams = us, !.open = os, !.locations = ls] \in TeamsPages
  BY DEF TeamsPages
<1>2. ASSUME NEW q \in TeamsPages PROVE [q EXCEPT !.joins = js, !.papers = ps] \in TeamsPages
  BY DEF TeamsPages
<1> QED BY <1>1, <1>2

LEMMA TeamsLoaded ==
  ASSUME OfficeTypeOK, NEW done, NEW p, GoodTeams(p, done), NEW queues
  PROVE  GoodTeams(AfterTeams(p, queues), done) /\ GoodTeams(AfterNoTeams(p, queues), done)
<1> p \in TeamsPages
  BY DEF GoodTeams
<1> DEFINE js == IF "joins" \in queues THEN Joins ELSE {}
           ps == IF "papers" \in queues THEN office.waiting ELSE {}
<1>0. js \subseteq People /\ ps \subseteq Papers
  BY ReadsTyped
<1>1. AfterTeams(p, queues) \in TeamsPages
  BY <1>0, ReadsTyped, LoadedTyped DEF AfterTeams
<1>2. Bonded(AfterTeams(p, queues)) = Bonded(p)
  BY DEF TeamsPages, AfterTeams, Bonded
<1>3. AfterNoTeams(p, queues) \in TeamsPages
  <2>1. p.open \subseteq Units /\ p.locations \subseteq Places
    BY DEF TeamsPages
  <2>2. ASSUME NEW q \in TeamsPages, NEW os \in SUBSET Units, NEW ls \in SUBSET Places
        PROVE  [q EXCEPT !.teams = {}, !.open = os, !.locations = ls] \in TeamsPages
    BY DEF TeamsPages
  <2> QED BY <1>1, <2>1, <2>2 DEF AfterNoTeams
<1>4. Bonded(AfterNoTeams(p, queues)) = Bonded(AfterTeams(p, queues))
  BY <1>1 DEF TeamsPages, AfterNoTeams, Bonded
<1> QED BY <1>1, <1>2, <1>3, <1>4, BondKept

LEMMA TeamsHandled ==
  ASSUME OfficeTypeOK, NEW done, NEW p, GoodTeams(p, done), NEW ask, NEW tale \in Tales
  PROVE  /\ GoodTeams(AfterFold(p), done)
         /\ \A u \in Units : GoodTeams(AfterUnfold(p, u), done)
         /\ \A u : GoodTeams(AfterUnit(p, u), done)
         /\ GoodTeams(AfterRun(p, ask), done)
         /\ GoodTeams(AfterWrite(p, ask), done)
         /\ (tale.op \in Announced => tale \in done) => GoodTeams(AfterWork(p, tale), done)
         /\ \A well : GoodTeams(AfterRunEnds(p, ask, well), done)
<1> p \in TeamsPages
  BY DEF GoodTeams
<1>1. GoodTeams(AfterFold(p), done)
  <2>1. AfterFold(p) \in TeamsPages
    BY DEF TeamsPages, AfterFold
  <2>2. Bonded(AfterFold(p)) = [Bonded(p) EXCEPT !.unit = None]
    BY DEF TeamsPages, AfterFold, Bonded
  <2> QED BY <2>1, <2>2 DEF GoodTeams, Bonded
<1>2. ASSUME NEW u \in Units PROVE GoodTeams(AfterUnfold(p, u), done)
  <2>1. AfterUnfold(p, u) \in TeamsPages
    BY DEF TeamsPages, AfterUnfold, Chosen, Addressed
  <2>2. LET q == AfterUnfold(p, u)
        IN  /\ q.notice = p.notice /\ q.rejecting = p.rejecting /\ q.words = p.words
            /\ q.adding = None /\ q.inviting = None
    BY DEF TeamsPages, AfterUnfold
  <2> QED BY <2>1, <2>2 DEF GoodTeams
<1>3. ASSUME NEW u PROVE GoodTeams(AfterUnit(p, u), done)
  <2>1. AfterUnit(p, u) \in TeamsPages
    BY ReadsTyped DEF TeamsPages, AfterUnit
  <2>2. Bonded(AfterUnit(p, u)) = Bonded(p)
    BY DEF TeamsPages, AfterUnit, Bonded
  <2> QED BY <2>1, <2>2, BondKept
<1>4. GoodTeams(AfterRun(p, ask), done)
  <2>1. AfterRun(p, ask) \in TeamsPages
    BY DEF TeamsPages, AfterRun
  <2>2. Bonded(AfterRun(p, ask)) = Bonded(p)
    BY DEF TeamsPages, AfterRun, Bonded
  <2> QED BY <2>1, <2>2, BondKept
<1>5. GoodTeams(AfterWrite(p, ask), done)
  <2>1. AfterWrite(p, ask) \in TeamsPages
    BY DEF TeamsPages, AfterWrite, Chosen, Addressed
  <2>2. LET q == AfterWrite(p, ask)
        IN  /\ q.notice = p.notice /\ q.unit = p.unit
            /\ q.adding \in {p.adding, None} /\ q.inviting \in {p.inviting, None}
            /\ (q.rejecting = p.rejecting /\ q.words = p.words) \/ q.rejecting = None
    BY DEF TeamsPages, AfterWrite
  <2> QED BY <2>1, <2>2 DEF GoodTeams
<1>6. ASSUME tale.op \in Announced => tale \in done
      PROVE  GoodTeams(AfterWork(p, tale), done)
  <2>1. AfterWork(p, tale) \in TeamsPages
    BY DEF TeamsPages, AfterWork
  <2>2. Bonded(AfterWork(p, tale)) =
          IF tale.op \in Announced THEN [Bonded(p) EXCEPT !.notice = tale] ELSE Bonded(p)
    BY DEF TeamsPages, AfterWork, Bonded
  <2> QED BY <1>6, <2>1, <2>2 DEF GoodTeams, Bonded
<1>7. ASSUME NEW well PROVE GoodTeams(AfterRunEnds(p, ask, well), done)
  <2> DEFINE shown == IF ask.op \in {"suspend", "remove"} THEN None ELSE p.detail
  <2>0. shown \in People \cup {None} /\ AfterRunEnds(p, ask, well) = [p EXCEPT !.busy = FALSE, !.detail = shown]
    BY DEF TeamsPages, AfterRunEnds
  <2> HIDE DEF shown
  <2>1. AfterRunEnds(p, ask, well) \in TeamsPages
    BY <2>0 DEF TeamsPages
  <2>2. Bonded(AfterRunEnds(p, ask, well)) = Bonded(p)
    BY <2>0 DEF TeamsPages, Bonded
  <2> QED BY <2>1, <2>2, BondKept
<1> QED BY <1>1, <1>2, <1>3, <1>4, <1>5, <1>6, <1>7

LEMMA TeamsTyped ==
  ASSUME NEW done, NEW p, GoodTeams(p, done), NEW q \in TeamsTyping(p)
  PROVE  GoodTeams(q, done)
<1> p \in TeamsPages
  BY DEF GoodTeams
<1>1. CASE q = [p EXCEPT !.detail = None]
  <2>1. q \in TeamsPages /\ Bonded(q) = Bonded(p)
    BY <1>1 DEF TeamsPages, Bonded
  <2> QED BY <2>1, BondKept
<1>2. ASSUME NEW what \in p.joins \cup p.papers, q = AfterRejecting(p, what)
      PROVE  GoodTeams(q, done)
  <2>1. q \in TeamsPages
    BY <1>2 DEF TeamsPages, AfterRejecting
  <2>2. /\ q.notice = p.notice /\ q.words = None /\ q.unit = p.unit
        /\ q.adding = p.adding /\ q.inviting = p.inviting
    BY <1>2 DEF TeamsPages, AfterRejecting
  <2> QED BY <2>1, <2>2 DEF GoodTeams
<1>3. CASE p.rejecting # None /\ q = [p EXCEPT !.words = p.rejecting]
  <2>1. q \in TeamsPages
    BY <1>3 DEF TeamsPages
  <2>2. Bonded(q) = [Bonded(p) EXCEPT !.words = p.rejecting]
    BY <1>3 DEF TeamsPages, Bonded
  <2> QED BY <2>1, <2>2 DEF GoodTeams, Bonded
<1>4. CASE q = [p EXCEPT !.rejecting = None]
  <2>1. q \in TeamsPages
    BY <1>4 DEF TeamsPages
  <2>2. Bonded(q) = [Bonded(p) EXCEPT !.rejecting = None]
    BY <1>4 DEF TeamsPages, Bonded
  <2> QED BY <2>1, <2>2 DEF GoodTeams, Bonded
<1>5. CASE q = [p EXCEPT !.naming = TRUE]
  <2>1. q \in TeamsPages /\ Bonded(q) = Bonded(p)
    BY <1>5 DEF TeamsPages, Bonded
  <2> QED BY <2>1, BondKept
<1>6. ASSUME NEW x \in p.roster, q = [p EXCEPT !.detail = x] PROVE GoodTeams(q, done)
  <2>1. q \in TeamsPages /\ Bonded(q) = Bonded(p)
    BY <1>6 DEF TeamsPages, Bonded
  <2> QED BY <2>1, BondKept
<1>7. ASSUME p.unit \in p.teams, NEW l \in p.locations, q = [p EXCEPT !.adding = <<l, p.unit>>]
      PROVE  GoodTeams(q, done)
  <2>1. q \in TeamsPages
    BY <1>7 DEF TeamsPages, Chosen
  <2>2. Bonded(q) = [Bonded(p) EXCEPT !.adding = <<l, p.unit>>]
    BY <1>7 DEF TeamsPages, Bonded
  <2> QED BY <2>1, <2>2 DEF GoodTeams, Bonded
<1>8. ASSUME p.unit \in p.teams, NEW who \in SUBSET People,
             q = [p EXCEPT !.inviting = <<who, p.unit>>]
      PROVE  GoodTeams(q, done)
  <2>1. q \in TeamsPages
    BY <1>8 DEF TeamsPages, Addressed
  <2>2. Bonded(q) = [Bonded(p) EXCEPT !.inviting = <<who, p.unit>>]
    BY <1>8 DEF TeamsPages, Bonded
  <2> QED BY <2>1, <2>2 DEF GoodTeams, Bonded
<1> QED BY <1>1, <1>2, <1>3, <1>4, <1>5, <1>6, <1>7, <1>8 DEF TeamsTyping

-----------------------------------------------------------------------------
(***************************************************************************)
(* What is asked for.                                                      *)
(***************************************************************************)

TeamsOps   == {"createTeam", "updateTeam", "attach", "detach", "addMembers", "suspend",
               "remove", "join", "paper"}
RecordsOps == {"adjust", "deleteDay"}
PlacesOps  == {"saveLocation", "createLocation", "switchOff", "switchOn", "destroy",
               "assign", "unassign"}

\* An ask is of the types of its operation, and its words are of its subject.
GoodAsk(ask) ==
  /\ ask \in [op : Ops, on : Things, at : Units \cup Places \cup Days \cup {None},
              yes : BOOLEAN, words : Subjects]
  /\ ask.op = "createTeam" => ask.on \in Units
  /\ ask.op = "createLocation" => ask.on \in Places
  /\ ask.op = "adjust" => ask.on \in Punches /\ ask.at \in Days
  /\ ask.op = "addMembers" => ask.on \in SUBSET People /\ ask.at \in Units
  /\ ask.op \in {"assign", "unassign"} => ask.on \in People /\ ask.at \in Places
  /\ ask.words \in {None, About(ask)}

LEMMA TeamsAsksGood ==
  ASSUME OfficeAssumption, NEW done, NEW p, GoodTeams(p, done), NEW ask \in TeamsAsks(p)
  PROVE  GoodAsk(ask) /\ ask.op \in TeamsOps
<1> USE DEF Wish, GoodAsk, About, TeamsOps, Ops, Things, Subjects
<1>t. /\ p \in TeamsPages
      /\ p.rejecting # None => p.words \in {None, p.rejecting}
      /\ p.unit \in p.teams => p.unit \in Units /\ p.unit # None
      /\ p.unit \in p.teams =>
           /\ p.adding # None => p.adding[2] = p.unit
           /\ p.inviting # None => p.inviting[2] = p.unit
  BY DEF GoodTeams, TeamsPages, OfficeAssumption
<1>1. ASSUME p.detail # None, p.unit # None, NEW op \in {"suspend", "remove"},
             ask = Wish(op, p.detail, p.unit, TRUE, None)
      PROVE  GoodAsk(ask) /\ ask.op \in TeamsOps
  BY <1>1, <1>t DEF TeamsPages
<1>2. ASSUME NEW what \in p.joins \cup p.papers, ask = Decision(p, what, TRUE)
      PROVE  GoodAsk(ask) /\ ask.op \in TeamsOps
  BY <1>2, <1>t DEF TeamsPages, Decision, DecideOp
<1>3. ASSUME p.rejecting # None, ask = Decision(p, p.rejecting, FALSE)
      PROVE  GoodAsk(ask) /\ ask.op \in TeamsOps
  BY <1>3, <1>t DEF TeamsPages, Decision, DecideOp
<1>4. ASSUME NEW u \in Units, ask = Wish("createTeam", u, None, TRUE, None)
      PROVE  GoodAsk(ask) /\ ask.op \in TeamsOps
  BY <1>4
<1>5. ASSUME p.unit \in p.teams, ask \in UnitAsks(p) PROVE GoodAsk(ask) /\ ask.op \in TeamsOps
  <2>1. CASE ask = Wish("updateTeam", p.unit, None, p.unit \notin p.open, None)
    BY <2>1, <1>5, <1>t
  <2>2. ASSUME NEW l \in p.places, ask = Wish("detach", l, p.unit, TRUE, None)
        PROVE  GoodAsk(ask) /\ ask.op \in TeamsOps
    BY <2>2, <1>5, <1>t DEF TeamsPages
  <2>3. CASE p.adding # None /\ ask = Wish("attach", p.adding[1], p.unit, TRUE, p.adding[2])
    <3>1. p.adding[1] \in Places
      BY <2>3, <1>t DEF TeamsPages, Chosen
    <3> QED BY <3>1, <2>3, <1>5, <1>t
  <2>4. CASE p.inviting # None
               /\ ask = Wish("addMembers", p.inviting[1], p.unit, TRUE, p.inviting[2])
    <3>1. p.inviting[1] \in SUBSET People
      BY <2>4, <1>t DEF TeamsPages, Addressed
    <3> QED BY <3>1, <2>4, <1>5, <1>t
  <2> QED BY <1>5, <2>1, <2>2, <2>3, <2>4 DEF UnitAsks
<1> HIDE DEF Wish, GoodAsk, About, TeamsOps, Ops, Things, Subjects
<1> QED BY <1>1, <1>2, <1>3, <1>4, <1>5 DEF TeamsAsks, DetailAsks

-----------------------------------------------------------------------------
(***************************************************************************)
(* The panel.                                                              *)
(***************************************************************************)

\* The lines of a day are those that have a record.
Lines == {s \in Session : First(s) \in Punches}

\* Photographs, and what is still to come of this run, are of the line it
\* shows; what is typed is about the record, or the day, it is shown with.
GoodPanel(q) ==
  /\ q \in Panel
  /\ q.of \in Lines /\ \A f \in q.fetching : f.of \in Lines
  /\ q.photos \subseteq {q.of}
  /\ \A f \in q.fetching : f.live => f.of = q.of
  /\ q.selected # None => q.words \in {None, q.selected}
  /\ q.why \in {None, Line(q.of)}

LEMMA AskedOf ==
  ASSUME NEW s \in Lines PROVE Asked(s) \subseteq Fetch /\ \A f \in Asked(s) : f.of = s
<1> SUFFICES ASSUME NEW f \in Asked(s) PROVE f \in Fetch /\ f.of = s
  OBVIOUS
<1>1. PICK part \in {"face", "first"} : f = [of |-> s, part |-> part, live |-> TRUE]
  BY DEF Asked
<1>2. s \in Session
  BY DEF Lines
<1> QED BY <1>1, <1>2 DEF Fetch

LEMMA MountedGood ==
  ASSUME NEW s \in Lines PROVE GoodPanel(Mounted(s))
<1>1. Asked(s) \subseteq Fetch /\ \A f \in Asked(s) : f.of = s
  BY AskedOf
<1>2. Mounted(s) \in Panel
  BY <1>1 DEF Mounted, Panel, Lines
<1> QED BY <1>1, <1>2 DEF GoodPanel, Mounted

\* Another line under the panel: no run of before is live.
LEMMA AfterLineGood ==
  ASSUME NEW q, GoodPanel(q), NEW s \in Lines PROVE GoodPanel(AfterLine(q, s))
<1> q \in Panel
  BY DEF GoodPanel
<1> DEFINE fetching == {CleanedUp(f) : f \in q.fetching} \cup Asked(s)
<1>1. /\ fetching \subseteq Fetch
      /\ \A f \in fetching : f.of \in Lines /\ (f.live => f.of = s)
  <2>1. ASSUME NEW f \in q.fetching
        PROVE  CleanedUp(f) \in Fetch /\ CleanedUp(f).of \in Lines /\ ~CleanedUp(f).live
    <3>1. f \in Fetch /\ f.of \in Lines
      BY DEF GoodPanel, Panel
    <3> QED BY <3>1 DEF CleanedUp, Fetch
  <2>2. Asked(s) \subseteq Fetch /\ \A f \in Asked(s) : f.of = s
    BY AskedOf
  <2> QED BY <2>1, <2>2
<1>2. AfterLine(q, s) = [q EXCEPT !.of = s, !.fetching = fetching, !.photos = {}, !.known = {},
                           !.selected = None, !.why = None]
  BY DEF AfterLine
<1> HIDE DEF fetching
<1>3. AfterLine(q, s) \in Panel
  BY <1>1, <1>2 DEF Panel, Lines
<1>4. LET r == AfterLine(q, s)
      IN  r.of = s /\ r.fetching = fetching /\ r.photos = {} /\ r.selected = None /\ r.why = None
  BY <1>2 DEF Panel
<1> QED BY <1>1, <1>3, <1>4 DEF GoodPanel

LEMMA FormGood ==
  ASSUME OfficeAssumption, NEW q, GoodPanel(q), NEW e \in Punches
  PROVE  /\ GoodPanel(LoadForm(q, e))
         /\ GoodPanel(Learnt(q, e))
<1> q \in Panel
  BY DEF GoodPanel
<1>1. GoodPanel(LoadForm(q, e))
  <2>1. LoadForm(q, e) \in Panel
    BY DEF Panel, LoadForm
  <2>2. LET r == LoadForm(q, e)
        IN  /\ r.of = q.of /\ r.fetching = q.fetching /\ r.photos = q.photos
            /\ r.words = None /\ r.why = q.why
    BY DEF Panel, LoadForm
  <2> QED BY <2>1, <2>2 DEF GoodPanel
<1>2. GoodPanel(Learnt(q, e))
  <2>0. {o \in q.known : Kind[o] # Kind[e]} \cup {e} \subseteq Punches
    BY DEF Panel
  <2>1. Learnt(q, e) \in Panel
    BY <2>0 DEF Panel, Learnt
  <2>2. LET r == Learnt(q, e)
        IN  /\ r.of = q.of /\ r.fetching = q.fetching /\ r.photos = q.photos
            /\ r.selected = q.selected /\ r.words = q.words /\ r.why = q.why
    BY DEF Panel, Learnt
  <2> QED BY <2>1, <2>2 DEF GoodPanel
<1> QED BY <1>1, <1>2

\* One load done, and the next one of the same run.
LEMMA FetchingGood ==
  ASSUME NEW q, GoodPanel(q), NEW more \in SUBSET Fetch,
         \A f \in more : f \in q.fetching \/ (f.of = q.of)
  PROVE  GoodPanel([q EXCEPT !.fetching = more])
<1> q \in Panel
  BY DEF GoodPanel
<1>1. [q EXCEPT !.fetching = more] \in Panel
  BY DEF Panel
<1>2. LET r == [q EXCEPT !.fetching = more]
      IN  /\ r.of = q.of /\ r.fetching = more /\ r.photos = q.photos
          /\ r.selected = q.selected /\ r.words = q.words /\ r.why = q.why
  BY DEF Panel
<1> QED BY <1>1, <1>2 DEF GoodPanel

LEMMA PhotosGood ==
  ASSUME NEW q, GoodPanel(q) PROVE GoodPanel([q EXCEPT !.photos = @ \cup {q.of}])
<1> q \in Panel
  BY DEF GoodPanel
<1>1. [q EXCEPT !.photos = @ \cup {q.of}] \in Panel
  BY DEF Panel
<1>2. LET r == [q EXCEPT !.photos = @ \cup {q.of}]
      IN  /\ r.of = q.of /\ r.fetching = q.fetching /\ r.photos = q.photos \cup {q.of}
          /\ r.selected = q.selected /\ r.words = q.words /\ r.why = q.why
  BY DEF Panel
<1> QED BY <1>1, <1>2 DEF GoodPanel

\* The tab and the marks of a request under way are not part of the bond.
LEMMA MarksGood ==
  ASSUME NEW q, GoodPanel(q)
  PROVE  /\ \A half \in {"in", "out"} : GoodPanel([q EXCEPT !.half = half])
         /\ \A b \in BOOLEAN : GoodPanel([q EXCEPT !.adjusting = b])
         /\ \A b \in BOOLEAN : GoodPanel([q EXCEPT !.deleting = b])
<1> q \in Panel
  BY DEF GoodPanel
<1>0. ASSUME NEW r \in Panel, r.of = q.of, r.fetching = q.fetching, r.photos = q.photos,
             r.selected = q.selected, r.words = q.words, r.why = q.why
      PROVE  GoodPanel(r)
  BY <1>0 DEF GoodPanel
<1>1. ASSUME NEW half \in {"in", "out"} PROVE GoodPanel([q EXCEPT !.half = half])
  <2>1. [q EXCEPT !.half = half] \in Panel
    BY DEF Panel
  <2> QED BY <1>0, <2>1 DEF Panel
<1>2. ASSUME NEW b \in BOOLEAN
      PROVE  GoodPanel([q EXCEPT !.adjusting = b]) /\ GoodPanel([q EXCEPT !.deleting = b])
  <2>1. [q EXCEPT !.adjusting = b] \in Panel /\ [q EXCEPT !.deleting = b] \in Panel
    BY DEF Panel
  <2>2. LET r == [q EXCEPT !.adjusting = b]
        IN  /\ r.of = q.of /\ r.fetching = q.fetching /\ r.photos = q.photos
            /\ r.selected = q.selected /\ r.words = q.words /\ r.why = q.why
    BY DEF Panel
  <2>3. LET r == [q EXCEPT !.deleting = b]
        IN  /\ r.of = q.of /\ r.fetching = q.fetching /\ r.photos = q.photos
            /\ r.selected = q.selected /\ r.words = q.words /\ r.why = q.why
    BY DEF Panel
  <2> QED BY <1>0, <2>1, <2>2, <2>3
<1> QED BY <1>1, <1>2

\* What comes late is of a run that is not live, and is dropped.
LEMMA AfterFirstGood ==
  ASSUME OfficeAssumption, NEW q, GoodPanel(q), NEW f \in Fetch, f.of = q.of
  PROVE  GoodPanel(AfterFirst(q, f))
<1> DEFINE e == First(f.of)
           g == Learnt(LoadForm(q, e), e)
           h == [g EXCEPT !.half = Kind[e]]
           more == g.fetching \cup {[f EXCEPT !.part = "pictures"]}
<1>1. e \in Punches
  BY DEF GoodPanel, Lines
<1>2. Kind[e] \in {"in", "out"}
  BY <1>1 DEF OfficeAssumption
<1>3. GoodPanel(LoadForm(q, e)) /\ GoodPanel(g)
  BY <1>1, FormGood
<1>4. LoadForm(q, e) \in Panel /\ LoadForm(q, e).of = q.of
  BY <1>3 DEF GoodPanel, LoadForm, Panel
<1>5. g \in Panel /\ g.of = q.of
  BY <1>3, <1>4 DEF GoodPanel, Learnt, Panel
<1>6. GoodPanel(h)
  BY <1>2, <1>3, MarksGood
<1> HIDE DEF g
<1>7. h.fetching = g.fetching /\ h.of = g.of
  BY <1>5 DEF Panel
<1>8. [f EXCEPT !.part = "pictures"] \in Fetch /\ [f EXCEPT !.part = "pictures"].of = f.of
  BY DEF Fetch
<1>9. more \in SUBSET Fetch /\ \A x \in more : x \in h.fetching \/ x.of = h.of
  BY <1>5, <1>7, <1>8 DEF Panel
<1>10. GoodPanel([h EXCEPT !.fetching = more])
  BY <1>6, <1>9, FetchingGood
<1>11. [h EXCEPT !.fetching = more] = [g EXCEPT !.half = Kind[e], !.fetching = more]
  BY <1>5 DEF Panel
<1>12. AfterFirst(q, f) = [g EXCEPT !.half = Kind[e], !.fetching = more]
  BY <1>5 DEF AfterFirst, g, Panel
<1> QED BY <1>10, <1>11, <1>12

LEMMA AfterPicturesGood ==
  ASSUME OfficeAssumption, NEW q, GoodPanel(q), NEW f \in Fetch, f.of = q.of
  PROVE  GoodPanel(AfterPictures(q, f))
<1>1. CASE f.of.out = None
  <2>1. AfterPictures(q, f) = [q EXCEPT !.photos = @ \cup {q.of}]
    BY <1>1 DEF AfterPictures
  <2> QED BY <2>1, PhotosGood
<1>2. CASE f.of.out # None
  <2> DEFINE g == Learnt(q, f.of.out)
  <2>1. f.of.out \in Punches
    BY <1>2 DEF Fetch, Session
  <2>2. GoodPanel(g)
    BY <2>1, FormGood
  <2>3. g.of = q.of
    BY DEF GoodPanel, Learnt, Panel
  <2>4. AfterPictures(q, f) = [g EXCEPT !.photos = @ \cup {f.of}]
    BY <1>2 DEF AfterPictures
  <2> HIDE DEF g
  <2> QED BY <2>2, <2>3, <2>4, PhotosGood
<1> QED BY <1>1, <1>2

\* What comes late is of a run that is not live, and is dropped.
LEMMA AfterFetchGood ==
  ASSUME OfficeAssumption, NEW q, GoodPanel(q), NEW f \in q.fetching
  PROVE  GoodPanel(AfterFetch(q, f)) /\ GoodPanel(AfterNoFetch(q, f))
<1> DEFINE r == AfterNoFetch(q, f)
<1>0. q \in Panel /\ q.fetching \subseteq Fetch /\ f \in Fetch /\ (f.live => f.of = q.of)
  BY DEF GoodPanel, Panel
<1>1. GoodPanel(r)
  BY <1>0, FetchingGood DEF AfterNoFetch
<1>2. r.of = q.of
  BY <1>0 DEF Panel, AfterNoFetch
<1> HIDE DEF r
<1>3. CASE ~f.live
  BY <1>1, <1>3 DEF AfterFetch, r
<1>4. CASE f.live /\ f.part = "first"
  BY <1>0, <1>1, <1>2, <1>4, AfterFirstGood DEF AfterFetch, r
<1>5. CASE f.live /\ f.part = "pictures"
  BY <1>0, <1>1, <1>2, <1>5, AfterPicturesGood DEF AfterFetch, r
<1>6. CASE f.live /\ f.part = "face"
  BY <1>0, <1>1, <1>2, <1>6, PhotosGood DEF AfterFetch, AfterFace, r
<1> QED BY <1>0, <1>1, <1>3, <1>4, <1>5, <1>6 DEF Fetch, r

LEMMA AfterSwitchGood ==
  ASSUME OfficeAssumption, NEW q, GoodPanel(q), NEW half \in {"in", "out"}
  PROVE  GoodPanel(AfterSwitch(q, half))
<1>1. GoodPanel([q EXCEPT !.half = half])
  BY MarksGood
<1>2. KnownAs(q, half) \subseteq Punches
  BY DEF GoodPanel, Panel, KnownAs
<1>3. CASE KnownAs(q, half) = {}
  BY <1>1, <1>3 DEF AfterSwitch
<1>4. CASE KnownAs(q, half) # {}
  <2>1. (CHOOSE e \in KnownAs(q, half) : TRUE) \in Punches
    BY <1>2, <1>4
  <2> QED BY <1>1, <1>4, <2>1, FormGood DEF AfterSwitch
<1> QED BY <1>3, <1>4

LEMMA PanelTypingGood ==
  ASSUME NEW q, GoodPanel(q), NEW r \in PanelTyping(q) PROVE GoodPanel(r)
<1> q \in Panel
  BY DEF GoodPanel
<1>1. CASE q.selected # None /\ r = [q EXCEPT !.words = q.selected]
  <2>1. r \in Panel
    BY <1>1 DEF Panel
  <2>2. /\ r.of = q.of /\ r.fetching = q.fetching /\ r.photos = q.photos
        /\ r.selected = q.selected /\ r.words = q.selected /\ r.why = q.why
    BY <1>1 DEF Panel
  <2> QED BY <2>1, <2>2 DEF GoodPanel
<1>2. CASE r = [q EXCEPT !.why = Line(q.of)]
  <2>0. Line(q.of) \in People \X Days
    BY DEF Panel, Session, Line
  <2>1. r \in Panel
    BY <1>2, <2>0 DEF Panel
  <2>2. /\ r.of = q.of /\ r.fetching = q.fetching /\ r.photos = q.photos
        /\ r.selected = q.selected /\ r.words = q.words /\ r.why = Line(q.of)
    BY <1>2 DEF Panel
  <2> QED BY <2>1, <2>2 DEF GoodPanel
<1> QED BY <1>1, <1>2 DEF PanelTyping

LEMMA AnswerGood ==
  ASSUME OfficeAssumption, NEW q, GoodPanel(q), NEW ask, NEW well,
         ask.op = "adjust" => ask.on \in Punches, ask.op \in RecordsOps
  PROVE  /\ GoodPanel(AfterPanelAsks(q, ask.op))
         /\ GoodPanel(AfterPanelAnswer(q, ask, well))
<1>1. GoodPanel(AfterPanelAsks(q, ask.op))
  BY MarksGood DEF AfterPanelAsks
<1>2. CASE ask.op = "deleteDay"
  BY <1>1, <1>2, MarksGood DEF AfterPanelAnswer
<1>3. CASE ask.op = "adjust"
  <2>1. GoodPanel(Learnt(LoadForm(q, ask.on), ask.on))
    BY <1>3, FormGood
  <2> QED BY <1>1, <1>3, <2>1, MarksGood DEF AfterPanelAnswer
<1> QED BY <1>1, <1>2, <1>3 DEF RecordsOps
-----------------------------------------------------------------------------
(***************************************************************************)
(* The page of the records.                                                *)
(***************************************************************************)

\* The run of the effect that is live asked for the month of the heading.
GoodRecords(p) ==
  /\ p \in RecordsPages
  /\ p.rows \subseteq Lines
  /\ \A load \in p.asked : load.live => load.month = p.month
  /\ p.data \in {None, p.month}
  /\ p.panel # None => GoodPanel(p.panel)

LEMMA OpenedRecordsGood ==
  ASSUME NEW month \in Months PROVE GoodRecords(OpenedRecords(month))
<1>1. OpenedRecords(month) \in RecordsPages
  BY DEF OpenedRecords, RecordsPages
<1> QED BY <1>1 DEF GoodRecords, OpenedRecords

\* The day, the person and the loads of lines are not part of the bond.
LEMMA RecordsKept ==
  ASSUME NEW p, GoodRecords(p), NEW q \in RecordsPages, q.rows \subseteq Lines,
         q.asked = p.asked, q.month = p.month, q.data = p.data, q.panel = p.panel
  PROVE  GoodRecords(q)
  BY DEF GoodRecords

LEMMA PanelInGood ==
  ASSUME NEW p, GoodRecords(p), NEW panel, panel # None => GoodPanel(panel)
  PROVE  GoodRecords([p EXCEPT !.panel = panel])
<1> DEFINE q == [p EXCEPT !.panel = panel]
<1> p \in RecordsPages
  BY DEF GoodRecords
<1>0. panel \in Panel \cup {None}
  BY DEF GoodPanel
<1>1. q \in RecordsPages
  BY <1>0 DEF RecordsPages
<1>2. /\ q.rows = p.rows /\ q.asked = p.asked /\ q.month = p.month /\ q.data = p.data
      /\ q.panel = panel
  BY DEF RecordsPages
<1> QED BY <1>1, <1>2 DEF GoodRecords

\* The panel follows the page.
LEMMA SettledGood ==
  ASSUME NEW p, GoodRecords(p) PROVE GoodRecords(Settled(p))
<1>1. CASE Current(p) = {}
  BY <1>1, PanelInGood DEF Settled
<1>2. CASE Current(p) # {}
  <2> DEFINE s == CHOOSE s \in Current(p) : TRUE
  <2>1. s \in Lines
    BY <1>2 DEF Current, GoodRecords
  <2> HIDE DEF s
  <2>2. CASE p.panel = None
    <3>1. Settled(p) = [p EXCEPT !.panel = Mounted(s)]
      BY <1>2, <2>2 DEF Settled, s
    <3> QED BY <2>1, <3>1, MountedGood, PanelInGood
  <2>3. CASE p.panel # None
    <3>1. Settled(p) = p \/ Settled(p) = [p EXCEPT !.panel = AfterLine(p.panel, s)]
      BY <1>2, <2>3 DEF Settled, s
    <3>2. GoodPanel(p.panel)
      BY <2>3 DEF GoodRecords
    <3> QED BY <2>1, <3>1, <3>2, AfterLineGood, PanelInGood
  <2> QED BY <2>2, <2>3
<1> QED BY <1>1, <1>2

\* Another month is asked for, or the same again: every other run is over.
LEMMA RecalendarGood ==
  ASSUME NEW p, GoodRecords(p), NEW month \in Months PROVE GoodRecords(Recalendar(p, month))
<1> DEFINE asked == {[load EXCEPT !.live = FALSE] : load \in p.asked}
                      \cup {[month |-> month, live |-> TRUE]}
           q == Recalendar(p, month)
<1> p \in RecordsPages
  BY DEF GoodRecords
<1>1. /\ asked \subseteq [month : Months, live : BOOLEAN]
      /\ \A load \in asked : load.live => load.month = month
  <2>1. ASSUME NEW load \in p.asked
        PROVE  /\ [load EXCEPT !.live = FALSE] \in [month : Months, live : BOOLEAN]
               /\ ~[load EXCEPT !.live = FALSE].live
    <3>1. load \in [month : Months, live : BOOLEAN]
      BY DEF RecordsPages
    <3> QED BY <3>1
  <2> SUFFICES ASSUME NEW load \in asked
               PROVE  /\ load \in [month : Months, live : BOOLEAN]
                      /\ load.live => load.month = month
    OBVIOUS
  <2>2. CASE load = [month |-> month, live |-> TRUE]
    BY <2>2
  <2>3. CASE \E old \in p.asked : load = [old EXCEPT !.live = FALSE]
    BY <2>1, <2>3
  <2> QED BY <2>2, <2>3
<1>2. q = [p EXCEPT !.month = month, !.data = None, !.asked = asked]
  BY DEF Recalendar
<1> HIDE DEF asked
<1>3. q \in RecordsPages
  BY <1>1, <1>2 DEF RecordsPages
<1>4. /\ q.rows = p.rows /\ q.asked = asked /\ q.month = month /\ q.data = None
      /\ q.panel = p.panel
  BY <1>2 DEF RecordsPages
<1> QED BY <1>1, <1>3, <1>4 DEF GoodRecords

LEMMA AfterCalendarGood ==
  ASSUME NEW p, GoodRecords(p), NEW load \in p.asked
  PROVE  GoodRecords(AfterCalendar(p, load)) /\ GoodRecords(AfterNoCalendar(p, load))
<1> p \in RecordsPages
  BY DEF GoodRecords
<1> DEFINE data == IF load.live THEN load.month ELSE p.data
<1>0. data \in {None, p.month} /\ data \in Months \cup {None}
  BY DEF GoodRecords, RecordsPages
<1>1. GoodRecords(AfterCalendar(p, load))
  <2> DEFINE q == AfterCalendar(p, load)
  <2>0. q = [p EXCEPT !.asked = @ \ {load}, !.data = data]
    BY DEF AfterCalendar
  <2> HIDE DEF data
  <2>1. q \in RecordsPages
    BY <1>0, <2>0 DEF RecordsPages
  <2>2. /\ q.rows = p.rows /\ q.asked = p.asked \ {load} /\ q.month = p.month
        /\ q.data = data /\ q.panel = p.panel
    BY <2>0 DEF RecordsPages
  <2> QED BY <1>0, <2>1, <2>2 DEF GoodRecords
<1>2. GoodRecords(AfterNoCalendar(p, load))
  <2> DEFINE q == AfterNoCalendar(p, load)
  <2>1. q \in RecordsPages
    BY DEF RecordsPages, AfterNoCalendar
  <2>2. /\ q.rows = p.rows /\ q.asked = p.asked \ {load} /\ q.month = p.month
        /\ q.data = p.data /\ q.panel = p.panel
    BY DEF RecordsPages, AfterNoCalendar
  <2> QED BY <2>1, <2>2 DEF GoodRecords
<1> QED BY <1>1, <1>2

LEMMA DayGood ==
  ASSUME OfficeAssumption, NEW p, GoodRecords(p)
  PROVE  /\ GoodRecords(Reload(p))
         /\ \A day \in p.loading : GoodRecords(AfterDay(p, day)) /\ GoodRecords(AfterNoDay(p, day))
         /\ \A day \in Days : GoodRecords(Turned(p, day))
<1>0. p \in RecordsPages
  BY DEF GoodRecords
<1>1. ASSUME NEW r, GoodRecords(r) PROVE GoodRecords(Reload(r))
  <2>1. CASE r.day = None
    BY <1>1, <2>1 DEF Reload
  <2>2. CASE r.day # None
    <3>1. r \in RecordsPages /\ r.day \in Days
      BY <1>1, <2>2 DEF GoodRecords, RecordsPages
    <3>2. Reload(r) = [r EXCEPT !.loading = @ \cup {r.day}, !.rows = {}, !.loaded = FALSE]
      BY <2>2 DEF Reload
    <3>3. Reload(r) \in RecordsPages
      <4>1. r.loading \cup {r.day} \subseteq Days
        BY <3>1 DEF RecordsPages
      <4> QED BY <3>1, <3>2, <4>1 DEF RecordsPages
    <3>4. LET q == Reload(r)
          IN  /\ q.rows = {} /\ q.asked = r.asked /\ q.month = r.month /\ q.data = r.data
              /\ q.panel = r.panel
      BY <3>1, <3>2 DEF RecordsPages
    <3> QED BY <1>1, <3>3, <3>4, RecordsKept
  <2> QED BY <2>1, <2>2
<1>2. ASSUME NEW day \in p.loading
      PROVE  GoodRecords(AfterDay(p, day)) /\ GoodRecords(AfterNoDay(p, day))
  <2>1. day \in Days
    BY <1>0 DEF RecordsPages
  <2>2. SessionsOn(day) \subseteq Lines
    BY <2>1, LinesTyped DEF Lines
  <2>3. SessionsOn(day) \subseteq Session
    BY <2>2 DEF Lines
  <2>4. AfterDay(p, day) \in RecordsPages /\ AfterNoDay(p, day) \in RecordsPages
    BY <1>0, <2>3 DEF AfterDay, AfterNoDay, RecordsPages
  <2>5. LET q == AfterDay(p, day)
        IN  /\ q.rows = SessionsOn(day) /\ q.asked = p.asked /\ q.month = p.month
            /\ q.data = p.data /\ q.panel = p.panel
    BY <1>0 DEF AfterDay, RecordsPages
  <2>6. LET q == AfterNoDay(p, day)
        IN  /\ q.rows = {} /\ q.asked = p.asked /\ q.month = p.month
            /\ q.data = p.data /\ q.panel = p.panel
    BY <1>0 DEF AfterNoDay, RecordsPages
  <2>7. GoodRecords(AfterDay(p, day))
    BY <2>2, <2>4, <2>5, RecordsKept
  <2>8. GoodRecords(AfterNoDay(p, day))
    BY <2>4, <2>6, RecordsKept
  <2> QED BY <2>7, <2>8
<1>3. ASSUME NEW day \in Days PROVE GoodRecords(Turned(p, day))
  <2> DEFINE q == [p EXCEPT !.day = day]
  <2>1. q \in RecordsPages
    BY <1>0 DEF RecordsPages
  <2>2. /\ q.rows = p.rows /\ q.asked = p.asked /\ q.month = p.month /\ q.data = p.data
        /\ q.panel = p.panel
    BY <1>0 DEF RecordsPages
  <2>3. p.rows \subseteq Lines
    BY DEF GoodRecords
  <2>4. GoodRecords(q)
    BY <2>1, <2>2, <2>3, RecordsKept
  <2> QED BY <1>1, <2>4 DEF Turned
<1> QED BY <1>1, <1>2, <1>3

LEMMA PersonGood ==
  ASSUME NEW p, GoodRecords(p)
  PROVE  /\ \A x \in People \cup {None} : GoodRecords([p EXCEPT !.person = x])
         /\ GoodRecords(AfterCloseDrawer(p))
<1>0. p \in RecordsPages /\ p.rows \subseteq Lines
  BY DEF GoodRecords
<1>1. ASSUME NEW x \in People \cup {None} PROVE GoodRecords([p EXCEPT !.person = x])
  <2> DEFINE q == [p EXCEPT !.person = x]
  <2>1. q \in RecordsPages
    BY <1>0 DEF RecordsPages
  <2>2. /\ q.rows = p.rows /\ q.asked = p.asked /\ q.month = p.month /\ q.data = p.data
        /\ q.panel = p.panel
    BY <1>0 DEF RecordsPages
  <2> QED BY <1>0, <2>1, <2>2, RecordsKept
<1>2. GoodRecords(AfterCloseDrawer(p))
  <2> DEFINE q == AfterCloseDrawer(p)
  <2>1. q \in RecordsPages
    BY <1>0 DEF AfterCloseDrawer, RecordsPages
  <2>2. /\ q.rows = p.rows /\ q.asked = p.asked /\ q.month = p.month /\ q.data = p.data
        /\ q.panel = p.panel
    BY <1>0 DEF AfterCloseDrawer, RecordsPages
  <2> QED BY <1>0, <2>1, <2>2, RecordsKept
<1> QED BY <1>1, <1>2

LEMMA ChangedGood ==
  ASSUME OfficeAssumption, NEW p, GoodRecords(p), NEW op
  PROVE  GoodRecords(AfterRefresh(p)) /\ GoodRecords(AfterChange(p, op))
<1>1. ASSUME NEW r, GoodRecords(r) PROVE GoodRecords(AfterRefresh(r))
  <2>1. r.month \in Months
    BY <1>1 DEF GoodRecords, RecordsPages
  <2> QED BY <1>1, <2>1, RecalendarGood, DayGood DEF AfterRefresh
<1>2. GoodRecords(AfterBack(p))
  BY PersonGood DEF AfterBack
<1> QED BY <1>1, <1>2 DEF AfterChange

LEMMA RecordsMovesGood ==
  ASSUME OfficeAssumption, NEW p, GoodRecords(p), NEW q \in RecordsMoves(p)
  PROVE  GoodRecords(q)
<1>1. ASSUME NEW month \in Months, q = Recalendar(p, month) PROVE GoodRecords(q)
  BY <1>1, RecalendarGood
<1>2. CASE q = AfterRefresh(p)
  BY <1>2, ChangedGood
<1>3. ASSUME NEW day \in Days, q = AfterOpenDay(p, day) PROVE GoodRecords(q)
  BY <1>3, PersonGood, DayGood DEF AfterOpenDay
<1>4. ASSUME NEW s \in Session, q = AfterOpenPerson(p, s) PROVE GoodRecords(q)
  <2>1. s.who \in People /\ s.day \in Days
    BY DEF Session
  <2> QED BY <1>4, <2>1, PersonGood, DayGood DEF AfterOpenPerson
<1>5. CASE q = AfterCloseDrawer(p) \/ q = AfterBack(p)
  BY <1>5, PersonGood DEF AfterBack
<1>6. ASSUME p.panel # None, NEW half \in {"in", "out"},
             q = [p EXCEPT !.panel = AfterSwitch(p.panel, half)]
      PROVE  GoodRecords(q)
  <2>1. GoodPanel(AfterSwitch(p.panel, half))
    BY <1>6, AfterSwitchGood DEF GoodRecords
  <2> QED BY <1>6, <2>1, PanelInGood
<1>7. ASSUME p.panel # None, NEW r \in PanelTyping(p.panel), q = [p EXCEPT !.panel = r]
      PROVE  GoodRecords(q)
  <2>1. GoodPanel(r)
    BY <1>7, PanelTypingGood DEF GoodRecords
  <2> QED BY <1>7, <2>1, PanelInGood
<1>8. UNION {SessionsOn(day) : day \in Days} \subseteq Session /\ p.rows \subseteq Session
  BY LinesTyped DEF GoodRecords, Lines
<1> QED BY <1>1, <1>2, <1>3, <1>4, <1>5, <1>6, <1>7, <1>8 DEF RecordsMoves

LEMMA RecordsAsksGood ==
  ASSUME OfficeAssumption, NEW p, GoodRecords(p), NEW ask \in RecordsAsks(p)
  PROVE  GoodAsk(ask) /\ ask.op \in RecordsOps /\ p.panel # None
<1> DEFINE q == p.panel
<1>0. q # None /\ GoodPanel(q) /\ q \in Panel
  BY DEF RecordsAsks, GoodRecords, GoodPanel
<1> HIDE DEF q
<1>1. ASSUME AdjustOffered(q), NEW day \in Days, ask = AdjustAsk(q, day)
      PROVE  GoodAsk(ask) /\ ask.op \in RecordsOps
  <2>1. q.selected \in Punches /\ q.words \in {None, q.selected} /\ q.words \in Punches \cup {None}
    BY <1>0, <1>1 DEF AdjustOffered, GoodPanel, Panel
  <2> QED BY <1>1, <2>1 DEF AdjustAsk, Wish, GoodAsk, About, RecordsOps, Ops, Things, Subjects
<1>2. ASSUME DeleteOffered(q), ask = DeleteAsk(q)
      PROVE  GoodAsk(ask) /\ ask.op \in RecordsOps
  <2>1. q.why = <<q.of.who, q.of.day>> /\ q.of.who \in People /\ q.of.day \in Days
    BY <1>0, <1>2 DEF DeleteOffered, GoodPanel, Panel, Line, Session
  <2> QED BY <1>2, <2>1 DEF DeleteAsk, Wish, GoodAsk, About, RecordsOps, Ops, Things, Subjects
<1> QED BY <1>0, <1>1, <1>2 DEF RecordsAsks, q
-----------------------------------------------------------------------------
(***************************************************************************)
(* The page of the places.                                                 *)
(***************************************************************************)

\* Who differs between the ticks and what the page knows was ticked, or
\* unticked, since both were last set.
GoodPlaces(p) ==
  /\ p \in PlacesPages
  /\ p.assigning # None => ToAssign(p) \cup ToUnassign(p) \subseteq p.touched

LEMMA OpenedPlacesGood == GoodPlaces(OpenedPlaces)
<1>1. OpenedPlaces \in PlacesPages
  BY DEF OpenedPlaces, PlacesPages, Dialogs, NoDialog
<1> QED BY <1>1 DEF GoodPlaces, OpenedPlaces

\* What does not change the ticks keeps the bond.
LEMMA TicksKept ==
  ASSUME NEW p, GoodPlaces(p), NEW q \in PlacesPages,
         q.assigning \in {p.assigning, None}, q.had = p.had, q.draft = p.draft,
         q.touched = p.touched
  PROVE  GoodPlaces(q)
  BY DEF GoodPlaces, ToAssign, ToUnassign

LEMMA PlacesHandled ==
  ASSUME OfficeTypeOK, NEW p, GoodPlaces(p), NEW ask
  PROVE  /\ GoodPlaces(AfterPlaces(p))
         /\ GoodPlaces(AfterMembers(p))
         /\ GoodPlaces(AfterPlaceDone(p, ask))
         /\ ask.op \in Ops => GoodPlaces(AfterPlaceAsks(p, ask))
         /\ GoodPlaces(AfterPlaceEnds(p, ask))
         /\ GoodPlaces(AfterTicksFailed(p))
<1> p \in PlacesPages
  BY DEF GoodPlaces
<1> USE DEF PlacesPages
<1>1. GoodPlaces(AfterPlaces(p))
  <2>1. AfterPlaces(p) \in PlacesPages
    BY ReadsTyped DEF AfterPlaces
  <2>2. LET q == AfterPlaces(p) IN q.assigning = p.assigning /\ q.had = p.had /\ q.draft = p.draft /\ q.touched = p.touched
    BY DEF AfterPlaces
  <2> QED BY <2>1, <2>2, TicksKept
<1>2. GoodPlaces(AfterMembers(p))
  <2>1. AfterMembers(p) \in PlacesPages
    BY ReadsTyped DEF AfterMembers
  <2>2. LET q == AfterMembers(p) IN q.assigning = p.assigning /\ q.had = p.had /\ q.draft = p.draft /\ q.touched = p.touched
    BY DEF AfterMembers
  <2> QED BY <2>1, <2>2, TicksKept
<1>3. GoodPlaces(AfterPlaceDone(p, ask))
  <2>1. AfterCloseDialog(p) \in PlacesPages /\ AfterDestroy(p, ask.on) \in PlacesPages
    BY DEF AfterCloseDialog, AfterDestroy, Dialogs, NoDialog
  <2>2. LET q == AfterCloseDialog(p) IN q.assigning = p.assigning /\ q.had = p.had /\ q.draft = p.draft /\ q.touched = p.touched
    BY DEF AfterCloseDialog
  <2>3. LET q == AfterDestroy(p, ask.on) IN q.assigning = p.assigning /\ q.had = p.had /\ q.draft = p.draft /\ q.touched = p.touched
    BY DEF AfterDestroy
  <2>4. GoodPlaces(AfterCloseDialog(p)) /\ GoodPlaces(AfterDestroy(p, ask.on))
    BY <2>1, <2>2, <2>3, TicksKept
  <2> QED BY <2>4 DEF AfterPlaceDone
<1>4. ASSUME NEW b \in BOOLEAN PROVE GoodPlaces([p EXCEPT !.saving = b])
  <2>1. [p EXCEPT !.saving = b] \in PlacesPages
    OBVIOUS
  <2>2. LET q == [p EXCEPT !.saving = b] IN q.assigning = p.assigning /\ q.had = p.had /\ q.draft = p.draft /\ q.touched = p.touched
    OBVIOUS
  <2> QED BY <2>1, <2>2, TicksKept
<1>5. GoodPlaces(AfterPlaceAsks(p, ask))
  BY <1>4 DEF AfterPlaceAsks
<1>6. GoodPlaces(AfterPlaceEnds(p, ask))
  BY <1>4 DEF AfterPlaceEnds
<1>7. GoodPlaces(AfterTicksFailed(p))
  <2>1. AfterTicksFailed(p) \in PlacesPages
    BY DEF AfterTicksFailed
  <2>2. LET q == AfterTicksFailed(p) IN q.assigning = p.assigning /\ q.had = p.had /\ q.draft = p.draft /\ q.touched = p.touched
    BY DEF AfterTicksFailed
  <2> QED BY <2>1, <2>2, TicksKept
<1> QED BY <1>1, <1>2, <1>3, <1>5, <1>6, <1>7

\* The handlers of the dialog.
LEMMA TicksHandled ==
  ASSUME OfficeTypeOK, NEW p, GoodPlaces(p)
  PROVE  /\ \A l \in Places : GoodPlaces(AfterOpenAssign(p, l))
         /\ \A l : GoodPlaces(AfterPairs(p, l))
         /\ GoodPlaces(AfterSaveTicks(p))
         /\ \A draft \in SUBSET People : GoodPlaces(AfterTicksSaved(p, draft))
         /\ \A draft \in SUBSET People : GoodPlaces(AfterTicks(p, draft))
<1> p \in PlacesPages
  BY DEF GoodPlaces
<1>1. ASSUME NEW l \in Places PROVE GoodPlaces(AfterOpenAssign(p, l))
  <2>1. AfterOpenAssign(p, l) \in PlacesPages
    BY DEF AfterOpenAssign, PlacesPages
  <2>2. LET q == AfterOpenAssign(p, l) IN q.had = {} /\ q.draft = {}
    BY DEF AfterOpenAssign, PlacesPages
  <2> QED BY <2>1, <2>2 DEF GoodPlaces, ToAssign, ToUnassign
<1>2. ASSUME NEW l PROVE GoodPlaces(AfterPairs(p, l))
  <2>1. AfterPairs(p, l) \in PlacesPages
    BY ReadsTyped DEF AfterPairs, PlacesPages
  <2>2. LET q == AfterPairs(p, l) IN q.had = q.draft
    BY DEF AfterPairs, PlacesPages
  <2> QED BY <2>1, <2>2 DEF GoodPlaces, ToAssign, ToUnassign
<1>3. GoodPlaces(AfterSaveTicks(p))
  <2>1. [p EXCEPT !.assigning = None] \in PlacesPages /\ [p EXCEPT !.assignBusy = TRUE] \in PlacesPages
    BY DEF PlacesPages
  <2>2. LET q == [p EXCEPT !.assigning = None]
        IN q.assigning = None /\ q.had = p.had /\ q.draft = p.draft /\ q.touched = p.touched
    BY DEF PlacesPages
  <2>3. LET q == [p EXCEPT !.assignBusy = TRUE]
        IN q.assigning = p.assigning /\ q.had = p.had /\ q.draft = p.draft /\ q.touched = p.touched
    BY DEF PlacesPages
  <2>4. GoodPlaces([p EXCEPT !.assigning = None]) /\ GoodPlaces([p EXCEPT !.assignBusy = TRUE])
    BY <2>1, <2>2, <2>3, TicksKept
  <2> QED BY <2>4 DEF AfterSaveTicks
<1>4. ASSUME NEW draft \in SUBSET People PROVE GoodPlaces(AfterTicksSaved(p, draft))
  <2>1. AfterTicksSaved(p, draft) \in PlacesPages
    BY DEF AfterTicksSaved, PlacesPages
  <2>2. AfterTicksSaved(p, draft).assigning = None
    BY DEF AfterTicksSaved, PlacesPages
  <2> QED BY <2>1, <2>2 DEF GoodPlaces
<1>5. ASSUME NEW draft \in SUBSET People PROVE GoodPlaces(AfterTicks(p, draft))
  <2> DEFINE q == AfterTicks(p, draft)
  <2>0. (draft \ p.draft) \cup (p.draft \ draft) \subseteq People
    BY DEF PlacesPages
  <2>1. q \in PlacesPages
    BY <2>0 DEF AfterTicks, PlacesPages
  <2>2. /\ q.assigning = p.assigning /\ q.had = p.had /\ q.draft = draft
        /\ q.touched = p.touched \cup (draft \ p.draft) \cup (p.draft \ draft)
    BY DEF AfterTicks, PlacesPages
  <2> QED BY <2>1, <2>2 DEF GoodPlaces, ToAssign, ToUnassign
<1> QED BY <1>1, <1>2, <1>3, <1>4, <1>5

LEMMA PlacesMovesGood ==
  ASSUME OfficeTypeOK, NEW p, GoodPlaces(p), NEW q \in PlacesMoves(p)
  PROVE  GoodPlaces(q)
<1> p \in PlacesPages
  BY DEF GoodPlaces
<1>2. ASSUME NEW r \in PlacesPages, r.assigning \in {p.assigning, None}, r.had = p.had,
             r.draft = p.draft, r.touched = p.touched
      PROVE  GoodPlaces(r)
  BY <1>2, TicksKept
<1>3. CASE q = AfterCloseDialog(p)
  BY <1>2, <1>3 DEF AfterCloseDialog, PlacesPages, Dialogs, NoDialog
<1>4. CASE q = [p EXCEPT !.active = ~@]
  BY <1>2, <1>4 DEF PlacesPages
<1>5. CASE q = [p EXCEPT !.assigning = None]
  BY <1>2, <1>5 DEF PlacesPages
<1>6. ASSUME NEW draft \in SUBSET People, q = AfterTicks(p, draft) PROVE GoodPlaces(q)
  BY <1>6, TicksHandled
<1>7. CASE q = AfterOpenCreate(p)
  BY <1>2, <1>7 DEF AfterOpenCreate, PlacesPages, Dialogs
<1>8. ASSUME NEW l \in p.listed \cup {None}, q = [p EXCEPT !.picked = l] PROVE GoodPlaces(q)
  BY <1>2, <1>8 DEF PlacesPages
<1>9. CASE p.picked \in p.listed /\ q = AfterOpenEdit(p, p.picked)
  <2> DEFINE dialog == [of |-> p.picked, shown |-> TRUE]
             active == p.picked \in p.on
  <2>1. dialog \in Dialogs /\ active \in BOOLEAN
    BY <1>9 DEF PlacesPages, Dialogs
  <2>2. q = [p EXCEPT !.dialog = dialog, !.active = active]
    BY <1>9 DEF AfterOpenEdit
  <2> HIDE DEF dialog, active
  <2>3. q \in PlacesPages
    BY <2>1, <2>2 DEF PlacesPages
  <2>4. q.assigning = p.assigning /\ q.had = p.had /\ q.draft = p.draft /\ q.touched = p.touched
    BY <2>2 DEF PlacesPages
  <2> QED BY <1>2, <2>3, <2>4
<1>10. /\ p.draft \subseteq People /\ p.roster \subseteq People
  BY DEF PlacesPages
<1>11. CASE p.dialog.shown
  <2>1. q \in {AfterCloseDialog(p), [p EXCEPT !.active = ~@]}
    BY <1>11 DEF PlacesMoves
  <2> QED BY <1>3, <1>4, <2>1
<1>12. CASE ~p.dialog.shown /\ p.assigning # None
  <2>1. q = [p EXCEPT !.assigning = None] \/ \E draft \in SUBSET People : q = AfterTicks(p, draft)
    BY <1>10, <1>12 DEF PlacesMoves
  <2> QED BY <1>5, <1>6, <2>1
<1>13. CASE ~p.dialog.shown /\ p.assigning = None
  <2>1. \/ q = AfterOpenCreate(p)
        \/ \E l \in p.listed \cup {None} : q = [p EXCEPT !.picked = l]
        \/ p.picked \in p.listed /\ q = AfterOpenEdit(p, p.picked)
    BY <1>13 DEF PlacesMoves
  <2> QED BY <1>7, <1>8, <1>9, <2>1
<1> QED BY <1>11, <1>12, <1>13

LEMMA PlacesAsksGood ==
  ASSUME OfficeAssumption, NEW p, GoodPlaces(p), NEW ask \in PlacesAsks(p)
  PROVE  GoodAsk(ask) /\ ask.op \in PlacesOps
<1> USE DEF PlaceWish, Wish, GoodAsk, About, PlacesOps, Ops, Things, Subjects
<1>0. /\ p.dialog.of \in Places \cup {None} /\ p.active \in BOOLEAN
      /\ p.listed \subseteq Places
  BY DEF GoodPlaces, PlacesPages, Dialogs
<1>1. CASE p.dialog.of # None /\ ask = PlaceWish("saveLocation", p.dialog.of, p.active)
  BY <1>0, <1>1
<1>2. ASSUME NEW l \in Places, ask = PlaceWish("createLocation", l, TRUE)
      PROVE  GoodAsk(ask) /\ ask.op \in PlacesOps
  BY <1>2
<1>3. ASSUME p.picked \in p.listed, NEW op \in {"switchOff", "switchOn", "destroy"},
             NEW on \in BOOLEAN, ask = PlaceWish(op, p.picked, on)
      PROVE  GoodAsk(ask) /\ ask.op \in PlacesOps
  <2>1. p.picked \in Places
    BY <1>0, <1>3
  <2> QED BY <1>3, <2>1
<1> HIDE DEF PlaceWish, Wish, GoodAsk, About, PlacesOps, Ops, Things, Subjects
<1> QED BY <1>1, <1>2, <1>3 DEF PlacesAsks
=============================================================================
