------------------------------- MODULE PlacesPage -------------------------------
(***************************************************************************)
(* The page of the places (app/manager/locations/page.tsx): the form of    *)
(* one place, and the dialog that says who checks in at one.  Functions of *)
(* the page.  What the form holds of a place is left out, but whether the  *)
(* place is on; so are the map and the search.                             *)
(***************************************************************************)
EXTENDS Office

(***************************************************************************)
(*  listed, on  the places as loaded, those shown to be on                 *)
(*  picked    the pin that was tapped                                      *)
(*  dialog    the place the form is of (editing), "new" (creating) or      *)
(*            "none"                                                       *)
(*  active    the tick for it to be on                                     *)
(*  saving    the form is on its way                                       *)
(*  assigning the place the other dialog is about                          *)
(*  roster    the people listed in it                                      *)
(*  had       who is assigned, as far as the page knows (assignedTo)       *)
(*  draft     the ticks (draftAssigned)                                    *)
(*  touched   whose tick the manager changed since both were last set      *)
(*  assignBusy  the ticks are on their way                                 *)
(***************************************************************************)
Dialogs == [of : Places \cup {None}, shown : BOOLEAN]

PlacesPages ==
    [screen : {"places"}, listed : SUBSET Places, on : SUBSET Places,
     picked : Places \cup {None}, dialog : Dialogs, active : BOOLEAN,
     saving : BOOLEAN, assigning : Places \cup {None}, roster : SUBSET People,
     had : SUBSET People, draft : SUBSET People, touched : SUBSET People,
     assignBusy : BOOLEAN]

NoDialog == [of |-> None, shown |-> FALSE]

OpenedPlaces ==
    [screen |-> "places", listed |-> {}, on |-> {}, picked |-> None,
     dialog |-> NoDialog, active |-> TRUE, saving |-> FALSE, assigning |-> None,
     roster |-> {}, had |-> {}, draft |-> {}, touched |-> {}, assignBusy |-> FALSE]

-----------------------------------------------------------------------------
(* Handlers.                                                               *)

AfterPlaces(p) == [p EXCEPT !.listed = office.kept, !.on = office.lit]

AfterOpenCreate(p) == [p EXCEPT !.dialog = [of |-> None, shown |-> TRUE], !.active = TRUE]

AfterOpenEdit(p, l) ==
    [p EXCEPT !.dialog = [of |-> l, shown |-> TRUE], !.active = l \in p.on]

\* closeDialog, also when an earlier save ends.
AfterCloseDialog(p) == [p EXCEPT !.dialog = NoDialog]

AfterDestroy(p, l) == [p EXCEPT !.picked = IF @ = l THEN None ELSE @]

\* openAssign, to its first await.
AfterOpenAssign(p, l) ==
    [p EXCEPT !.assigning = l, !.roster = {}, !.had = {}, !.draft = {}, !.touched = {}]

\* The members, and then who of them is assigned, have come: it does not look
\* whether the dialog is still about the place they were asked for.
AfterMembers(p) == [p EXCEPT !.roster = Managed]

\* Mutated form: the ticks stay as they are.
AfterPairsUnticked(p, l) == [p EXCEPT !.had = AssignedTo(l)]

AfterPairs(p, l) ==
    [p EXCEPT !.had = AssignedTo(l), !.draft = AssignedTo(l), !.touched = {}]

\* toggleAssignment, of one person or of all that are shown (toggleVisible).
AfterTicks(p, draft) ==
    [p EXCEPT !.draft = draft,
       !.touched = @ \cup (draft \ p.draft) \cup (p.draft \ draft)]

ToAssign(p)   == p.draft \ p.had
ToUnassign(p) == p.had \ p.draft

AfterSaveTicks(p) ==
    IF ToAssign(p) \cup ToUnassign(p) = {} THEN [p EXCEPT !.assigning = None]
    ELSE [p EXCEPT !.assignBusy = TRUE]

\* Every call of it was answered: what was sent is what is assigned, and the
\* dialog closes, whichever place it is about by now.
AfterTicksSaved(p, draft) ==
    [p EXCEPT !.had = draft, !.assigning = None, !.assignBusy = FALSE]

AfterTicksFailed(p) == [p EXCEPT !.assignBusy = FALSE]

-----------------------------------------------------------------------------
(* What the manager may do.  Either dialog covers the page.                *)

PlacesMoves(p) ==
    IF p.dialog.shown
    THEN {AfterCloseDialog(p), [p EXCEPT !.active = ~@]}
    ELSE IF p.assigning # None
    THEN {[p EXCEPT !.assigning = None]}
           \cup {AfterTicks(p, p.draft \cup {x}) : x \in p.roster \ p.draft}
           \cup {AfterTicks(p, p.draft \ {x}) : x \in p.roster \cap p.draft}
           \cup (IF p.roster \subseteq p.draft THEN {AfterTicks(p, p.draft \ p.roster)}
                 ELSE {AfterTicks(p, p.draft \cup p.roster)})
    ELSE {AfterOpenCreate(p)} \cup {[p EXCEPT !.picked = l] : l \in p.listed \cup {None}}
           \cup (IF p.picked \in p.listed THEN {AfterOpenEdit(p, p.picked)} ELSE {})

AssignOffered(p) ==
    ~p.dialog.shown /\ p.assigning = None /\ p.picked \in p.listed

SaveTicksOffered(p) ==
    ~p.dialog.shown /\ p.assigning # None /\ p.roster # {} /\ ~p.assignBusy

PlaceWish(op, l, on) == Wish(op, l, None, on, None)

\* The form, or the buttons of the place that is picked; nothing holds those
\* back while one of them is under way.
PlacesAsks(p) ==
    IF p.dialog.shown
    THEN IF p.saving THEN {}
         ELSE IF p.dialog.of # None THEN {PlaceWish("saveLocation", p.dialog.of, p.active)}
         ELSE {PlaceWish("createLocation", l, TRUE) : l \in Places \ office.kept}
    ELSE IF p.assigning # None \/ p.picked \notin p.listed THEN {}
    ELSE {IF p.picked \in p.on THEN PlaceWish("switchOff", p.picked, FALSE)
          ELSE PlaceWish("switchOn", p.picked, TRUE),
          PlaceWish("destroy", p.picked, FALSE)}

AfterPlaceAsks(p, ask) ==
    [p EXCEPT !.saving = ask.op \in {"saveLocation", "createLocation"} \/ @]

AfterPlaceDone(p, ask) ==
    CASE ask.op \in {"saveLocation", "createLocation"} -> AfterCloseDialog(p)
      [] ask.op = "destroy" -> AfterDestroy(p, ask.on)
      [] OTHER -> p

\* finally, of the form.
AfterPlaceEnds(p, ask) ==
    [p EXCEPT !.saving = ask.op \notin {"saveLocation", "createLocation"} /\ @]
=============================================================================
