------------------------------ MODULE AdminPages ------------------------------
(***************************************************************************)
(* The pages of the administrator that change accounts and permissions     *)
(* (app/admin/users/page.tsx, app/admin/roles/page.tsx), as functions of   *)
(* their state.                                                            *)
(*                                                                         *)
(* Accounts are numbers, the newest highest; roles and actions are named   *)
(* by their place in ROLE_ORDER and ACTIONS.                               *)
(***************************************************************************)
EXTENDS Naturals, FiniteSets, SequencesExt

CONSTANT Accounts

\* The administrator whose browser it is.
Oneself == 0

ASSUME AccountsAssumption ==
    Accounts \subseteq Nat /\ IsFiniteSet(Accounts) /\ Oneself \in Accounts

RoleOrder == <<"MEMBER", "MANAGER", "SUPER_ADMIN">>
Actions == <<"view", "create", "edit", "delete">>

-----------------------------------------------------------------------------
(***************************************************************************)
(* The accounts.                                                           *)
(*  rows      the accounts on screen; loaded whether they have come        *)
(*  filter    the role they are filtered by, or 0                          *)
(*  picked    the boxes that are ticked, whether on screen or not          *)
(*  removing  the accounts the dialog is about to erase                    *)
(*  ticked    history: those on screen with a tick when it was opened      *)
(*  selected  the account the other dialog is about, as it was then        *)
(***************************************************************************)
Row == [id : Accounts, role : ToSet(RoleOrder), active : BOOLEAN]

UsersPages ==
    [screen : {"users"}, rows : SUBSET Row, loaded : BOOLEAN,
     filter : 0 .. Len(RoleOrder), error : BOOLEAN, picked : SUBSET Accounts,
     removing : SUBSET Accounts, ticked : SUBSET Accounts, reason : BOOLEAN,
     selected : {{}} \cup {{r} : r \in Row}, newRole : ToSet(RoleOrder),
     newActive : BOOLEAN, password : BOOLEAN, busy : BOOLEAN, dialogError : BOOLEAN]

OpenedUsers ==
    [screen |-> "users", rows |-> {}, loaded |-> FALSE, filter |-> 0, error |-> FALSE,
     picked |-> {}, removing |-> {}, ticked |-> {}, reason |-> FALSE, selected |-> {},
     newRole |-> "MEMBER", newActive |-> TRUE, password |-> FALSE, busy |-> FALSE,
     dialogError |-> FALSE]

\* list_users.
Listed(accounts, filter) ==
    {r \in Row : r.id \in DOMAIN accounts /\ r.role = accounts[r.id].role
                   /\ r.active = accounts[r.id].active
                   /\ (filter # 0 => r.role = RoleOrder[filter])}

Reloading(p) == [p EXCEPT !.rows = {}, !.loaded = FALSE]
AfterUsers(p, rows) == [p EXCEPT !.rows = rows, !.loaded = TRUE, !.error = FALSE]
AfterNoUsers(p) == [p EXCEPT !.rows = {}, !.loaded = TRUE, !.error = TRUE]

OnScreen(p) == {r.id : r \in p.rows}
DialogOpen(p) == p.removing # {} \/ p.selected # {}

AfterTick(p, id) ==
    [p EXCEPT !.picked = IF id \in @ THEN @ \ {id} ELSE @ \cup {id}]
AfterTickAll(p) ==
    [p EXCEPT !.picked = IF OnScreen(p) \subseteq @ THEN @ \ OnScreen(p) ELSE @ \cup OnScreen(p)]

\* Mutated form: whatever is ticked.
ChosenAnywhere(p) == p.picked

\* Ticks of rows a filter hides do not count.
Chosen(p) == OnScreen(p) \cap p.picked

AfterRemovalAsked(p) ==
    [p EXCEPT !.removing = Chosen(p), !.ticked = {id \in p.picked : id \in OnScreen(p)},
       !.reason = FALSE, !.dialogError = FALSE]
AfterOpenUser(p, row) ==
    [p EXCEPT !.selected = {row}, !.newRole = row.role, !.newActive = row.active,
       !.password = FALSE, !.dialogError = FALSE]
\* What a dialog held is set anew when it is opened.
AfterRemovalClosed(p) == [p EXCEPT !.removing = {}, !.ticked = {}, !.reason = FALSE]
AfterUserClosed(p) ==
    [p EXCEPT !.selected = {}, !.newRole = "MEMBER", !.newActive = TRUE, !.password = FALSE]
AfterDialogClosed(p) == AfterRemovalClosed(AfterUserClosed(p))

RemovalOffered(p) == p.removing # {} /\ p.reason /\ ~p.busy
ChangeOffered(p) ==
    ~p.busy /\ \E r \in p.selected : <<p.newRole, p.newActive>> # <<r.role, r.active>>
PasswordOffered(p) == ~p.busy /\ p.selected # {} /\ p.password

AfterUsersSent(p) == [p EXCEPT !.busy = TRUE, !.dialogError = FALSE]

\* Accounts are erased one after another; after the last the list is read again.
NextOf(ids) == Max(ids)
AfterErased(p, rest) ==
    IF rest # {} THEN p
    ELSE Reloading([AfterRemovalClosed(p) EXCEPT !.picked = {}])
AfterChanged(p) == Reloading(AfterUserClosed(p))
AfterUsersRefused(p) == [p EXCEPT !.dialogError = TRUE, !.busy = FALSE]
UsersReleased(p) == [p EXCEPT !.busy = FALSE]

-----------------------------------------------------------------------------
(***************************************************************************)
(* The permissions: some rows of the grid, and the rule on devices of one  *)
(* role.                                                                   *)
(*  grid  the actions that are ticked in each row                          *)
(*  many  whether the role may sign in on many devices                     *)
(*  busy  the box that is being saved: its row and action, or the switch   *)
(*  behind  history: a reset was done and its answer lost, which asks for  *)
(*          no reading, or a reading that was asked for did not come       *)
(***************************************************************************)
PermissionRows ==
    <<[role |-> "MANAGER", screen |-> "records"],
      [role |-> "SUPER_ADMIN", screen |-> "admin-roles"]>>

DefaultPermissions == <<{"view", "edit", "delete"}, {"view", "edit"}>>

Grids == [DOMAIN PermissionRows -> SUBSET ToSet(Actions)]
Boxes == (DOMAIN PermissionRows) \X (DOMAIN Actions)
Idle == <<0, 0>>
Switch == <<0, 1>>

RolesPages ==
    [screen : {"roles"}, grid : Grids, many : BOOLEAN, loaded : BOOLEAN, error : BOOLEAN,
     busy : Boxes \cup {Idle, Switch}, resetting : BOOLEAN, behind : BOOLEAN]

OpenedRoles ==
    [screen |-> "roles", grid |-> [n \in DOMAIN PermissionRows |-> {}], many |-> TRUE,
     loaded |-> FALSE, error |-> FALSE, busy |-> Idle, resetting |-> FALSE,
     behind |-> FALSE]

Locked(n) ==
    /\ PermissionRows[n].role = "SUPER_ADMIN"
    /\ PermissionRows[n].screen \in {"admin-overview", "admin-roles"}

AfterGrid(p, granted, many) ==
    [p EXCEPT !.grid = granted, !.many = many, !.loaded = TRUE, !.error = FALSE,
       !.behind = FALSE]
AfterNoGrid(p) == [p EXCEPT !.error = TRUE, !.behind = TRUE]

\* Nothing else can be granted until the screen itself is.
BoxesOffered(p) ==
    {b \in Boxes : /\ p.loaded /\ b # p.busy
                   /\ IF Actions[b[2]] = "view" THEN ~Locked(b[1])
                      ELSE "view" \in p.grid[b[1]]}

\* Mutated form: the box alone.
MirroredAlone(ticks, action, next) ==
    IF next THEN ticks \cup {action} ELSE ticks \ {action}

\* The page does at once what the server will.
Mirrored(ticks, action, next) ==
    IF action = "view" /\ ~next THEN {}
    ELSE IF next THEN ticks \cup {action} ELSE ticks \ {action}

AfterBox(p, b) ==
    [p EXCEPT !.busy = b,
       !.grid[b[1]] = Mirrored(@, Actions[b[2]], Actions[b[2]] \notin @)]
SwitchOffered(p) == p.loaded /\ p.busy # Switch
AfterSwitch(p, many) == [p EXCEPT !.busy = Switch, !.many = many]
AfterBoxSaved(p) == [p EXCEPT !.error = FALSE, !.busy = Idle]
AfterSwitchSaved(p) == [p EXCEPT !.error = FALSE]
AfterBoxRefused(p) == [p EXCEPT !.error = TRUE]
BoxReleased(p) == [p EXCEPT !.busy = Idle]

AfterReset(p) == [p EXCEPT !.resetting = TRUE]
AfterDefaults(p) == [p EXCEPT !.error = FALSE, !.resetting = FALSE]
AfterNoDefaults(p, done) ==
    [p EXCEPT !.error = TRUE, !.resetting = FALSE, !.behind = @ \/ done]
=============================================================================
