------------------------------- MODULE Browser -------------------------------
(***************************************************************************)
(* The browser of a member, or of an administrator: the session it holds (Refresh), the frame, the      *)
(* pages it shows, and the requests they have under way.                   *)
(*                                                                         *)
(* A handler runs to its next await at once, and works with what its       *)
(* closure saw; what it awaits comes at any later moment, in any order, or *)
(* does not.  A request that was given up on may still be served.  Leaving *)
(* a page does not stop its handlers, but what they set is not shown; what *)
(* they do to the address bar is.  A full load of a page ends them.        *)
(*                                                                         *)
(* One sign-in.  What refreshes, and what a closed session does to the     *)
(* secret, are the steps of Refresh.                                       *)
(***************************************************************************)
EXTENDS Refresh, AccountPages, MemberService, AdminService

CONSTANT Bounds     \* bounds of the model, of which a behaviour takes one

(***************************************************************************)
(*  start, paths  where the browser is at first, and may go                *)
(*  moves, fills, sends  how often it goes or filters the accounts, a form *)
(*                is filled in, and something is sent                      *)
(*  others        how often another administrator does something           *)
(*  signins       whether the person is yet to sign in                     *)
(*  secrets       how many secrets the session may come to; with none it   *)
(*                does not move                                            *)
(*  role, allowed the account's role and screens                           *)
(*  told          the notifications there are                              *)
(*  attempts      the attempts of every day, in the order of time          *)
(***************************************************************************)
Bound ==
    [start : Addresses, paths : SUBSET Addresses, moves : Nat, fills : Nat, others : Nat,
     sends : 0 .. MaxSends, signins : 0 .. 1, secrets : 0 .. MaxSecret, role : Roles,
     allowed : SUBSET Keys, told : SUBSET Sends, attempts : Seq(Attempt)]

ASSUME BoundsAssumption == \A b \in Bounds : b \in Bound

VARIABLES
    frame, page,    \* what is on screen
    calls,          \* requests under way
    left            \* what is left of the bounds

browser == <<frame, page, calls>>
server == <<service, system>>
member == <<server, left>>

allVars == <<vars, browser, member>>

-----------------------------------------------------------------------------
(***************************************************************************)
(* A request: what it asks for and what about, who waits for it - the page *)
(* on screen, one that was left (past), nobody any more (lost) - and the   *)
(* answer on its way back.  Reads that are alike are one; what a read says *)
(* is taken when it arrives.                                               *)
(***************************************************************************)
Reads ==
    {"screens",                              \* of the frame
     "landing", "lookup",                    \* of the sign-in page
     "list", "relist", "days", "day",        \* of corrections and history
     "file", "refile", "managers", "joins",  \* of the profile
     "notes", "renotes",                     \* of the notifications
     "users", "reusers",                     \* of the accounts
     "grid", "regrid", "defaults"}           \* of the permissions

Writes ==
    {"login", "register", "first", "change", "create", "withdraw", "save",
     "join", "mark", "markAll", "erase", "update", "password", "box", "switch", "reset"}

\* Those that carry no token.
Open == {"login", "register", "lookup"}

Answers == {"none", "ok", "failed", "401", "revoked"}

Asked ==
    [op : Reads \cup Writes, about : Nat, extra : Nat, flag : BOOLEAN,
     rest : SUBSET Accounts, filter : 0 .. Len(RoleOrder), by : {"page", "past", "lost"}, answer : Answers]

Holds == store # None

\* Without tokens nothing is sent (NOT_AUTHENTICATED).
Sent(op, about, extra, flag, holds) ==
    [op |-> op, about |-> about, extra |-> extra, flag |-> flag, rest |-> {},
     filter |-> 0, by |-> "page",
     answer |-> IF holds \/ op \in Open THEN "none" ELSE "401"]

AskedFor(op, about, extra, flag) == Sent(op, about, extra, flag, Holds')

\* About accounts: those that come after, and what the list is filtered by.
AskedOf(op, about, extra, flag, rest, filter) ==
    [AskedFor(op, about, extra, flag) EXCEPT !.rest = rest, !.filter = filter]

AskedToErase(ids, filter) ==
    AskedOf("erase", NextOf(ids), 0, FALSE, ids \ {NextOf(ids)}, filter)

-----------------------------------------------------------------------------
(* The browser moves.                                                      *)

FirstDate  == Min(Dates)
FirstRange == Min(Ranges)

PageAt(path, ended) ==
    CASE path = SignInPath               -> OpenedSignIn(ended)
      [] path = <<"profile", "password">> -> OpenedPassword
      [] path = ProfilePath              -> OpenedProfile
      [] path = <<"corrections">>        -> OpenedCorrections(FirstDate)
      [] path = <<"history">>            -> OpenedHistory(FirstRange)
      [] path = <<"notifications">>      -> OpenedNotifications
      [] path = <<"admin", "users">>     -> OpenedUsers
      [] path = <<"admin", "roles">>     -> OpenedRoles
      [] OTHER                           -> [screen |-> "other"]

\* What the effects of a frame, and of its page, ask for when they come up.
FirstReads(f, holds) ==
    LET Read(op, about) == Sent(op, about, 0, FALSE, holds)
    IN  {Read(op, 0) : op \in {o \in {"screens"} : f.signedIn}}
        \cup CASE f.path = ProfilePath         -> {Read("file", 0), Read("managers", 0)}
               [] f.path = <<"corrections">>   -> {Read("list", 0)}
               [] f.path = <<"history">>       -> {Read("days", FirstRange)}
               [] f.path = <<"notifications">> -> {Read("notes", 0)}
               [] f.path = <<"admin", "users">> -> {Read("users", 0)}
               [] f.path = <<"admin", "roles">> -> {Read("grid", 0)}
               [] OTHER                        -> {}

Past(asked) == {[k EXCEPT !.by = IF @ = "lost" THEN @ ELSE "past"] : k \in asked}

\* The frame becomes f, with p as its page if it is another page.
Goes(f, p, asked) ==
    /\ frame' = f /\ page' = p
    /\ calls' = Past(asked) \cup FirstReads(f, Holds')

Becomes(f, p, asked) ==
    IF f.path # frame.path THEN Goes(f, PageAt(f.path, FALSE), asked)
    ELSE frame' = f /\ page' = p /\ calls' = asked

Stays(p, asked) == Becomes(frame, p, asked)

\* A full load: what was sent is served or not, and nobody hears of it.
Loaded(f, ended) ==
    /\ frame' = f /\ page' = PageAt(f.path, ended)
    /\ calls' = {[k EXCEPT !.by = "lost"] : k \in {c \in calls :
                    c.op \in Writes /\ c.answer = "none"}}

Spend(what) == left[what] > 0 /\ left' = [left EXCEPT ![what] = @ - 1]

\* The session of one who is yet to sign in is the one that is then made.
BrowserInit ==
    /\ left \in Bounds
    /\ session = [token |-> 1, previous |-> None, recent |-> FALSE, open |-> TRUE]
    /\ shared = [p \in {} |-> None]
    /\ store = IF left.signins = 1 THEN None ELSE 1
    /\ call = [c \in Callers |-> Quiet]
    /\ leaving = [c \in Callers |-> Staying]
    /\ ServiceInit(left.told) /\ SystemInit(left.role)
    /\ frame = Raised(left.start, Holds)
    /\ page = PageAt(frame.path, FALSE)
    /\ calls = FirstReads(frame, Holds)

-----------------------------------------------------------------------------
(***************************************************************************)
(* An answer comes.  The page it leaves, if it is the one that asked, what *)
(* the handler asks for next, and where it sends the browser - which the   *)
(* handler of a page that was left does as well.                           *)
(***************************************************************************)
Rows == {[id |-> i, status |-> filed[i].status] :
            i \in {j \in DOMAIN filed : filed[j].status # "WITHDRAWN"}}

AfterOk(k) ==
    LET p == page IN
    CASE k.op = "lookup"   -> AfterLookup(p, k.about)
      [] k.op \in {"landing", "first"} -> AfterSignIn(p)
      [] k.op = "change"   -> AfterChange(p)
      [] k.op = "list"     -> AfterList(p, Rows)
      [] k.op = "relist"   -> Released(AfterList(p, Rows))
      [] k.op = "create"   -> AfterTaken(p, k.about)
      [] k.op = "days"     -> AfterDays(p, k.about)
      [] k.op = "day"      -> AfterDay(p, left.attempts)
      [] k.op = "file"     -> AfterProfile(p, holder.profile)
      [] k.op = "refile"   -> SaveReleased(AfterProfile(p, holder.profile))
      [] k.op = "managers" -> AfterManagers(p, holder.manager = "has", holder.manager = "asked")
      [] k.op = "joins"    -> AfterJoinsRead(p, holder.manager = "asked")
      [] k.op = "save"     -> AfterSaved(p, k.about)
      [] k.op = "join"     -> AfterJoined(p, k.about)
      [] k.op = "notes"    -> AfterNotes(p, k.flag, notes)
      [] k.op = "renotes"  -> MarkReleased(AfterNotes(p, k.flag, notes))
      [] k.op \in {"mark", "markAll"} -> AskingNotes(p)
      [] k.op = "users"    -> AfterUsers(p, Listed(accounts, k.about))
      [] k.op = "reusers"  -> UsersReleased(AfterUsers(p, Listed(accounts, k.about)))
      [] k.op = "erase"    -> AfterErased(p, k.rest)
      [] k.op \in {"update", "password"} -> AfterChanged(p)
      [] k.op = "grid"     -> AfterGrid(p, granted, many)
      [] k.op = "regrid"   -> BoxReleased(AfterGrid(p, granted, many))
      [] k.op = "defaults" -> AfterDefaults(AfterGrid(p, granted, many))
      [] k.op = "box"      -> AfterBoxSaved(p)
      [] k.op = "switch"   -> AfterSwitchSaved(p)
      [] OTHER             -> p

AfterNotOk(k) ==
    LET p == page IN
    CASE k.op = "lookup"   -> AfterNoLookup(p)
      [] k.op \in {"login", "register", "landing", "first"} -> AfterNoSignIn(p)
      [] k.op = "change"   -> AfterNoChange(p)
      [] k.op = "list"     -> AfterNoList(p)
      [] k.op = "relist"   -> Released(AfterNoList(p))
      [] k.op = "create"   -> AfterNotTaken(p)
      [] k.op = "withdraw" -> AfterNotWithdrawn(p)
      [] k.op = "days"     -> AfterNoDays(p)
      [] k.op = "day"      -> AfterNoDay(p)
      [] k.op = "file"     -> AfterNoProfile(p)
      [] k.op = "refile"   -> SaveReleased(AfterNoProfile(p))
      [] k.op = "managers" -> AfterManagers(p, FALSE, FALSE)
      [] k.op = "save"     -> AfterNotSaved(p)
      [] k.op \in {"join", "joins"} -> AfterNotJoined(p)
      [] k.op \in {"notes", "mark"} -> AfterNoNotes(p)
      [] k.op \in {"markAll", "renotes"} -> MarkReleased(AfterNoNotes(p))
      [] k.op = "users"    -> AfterNoUsers(p)
      [] k.op = "reusers"  -> UsersReleased(AfterNoUsers(p))
      [] k.op \in {"erase", "update", "password"} -> AfterUsersRefused(p)
      [] k.op = "grid"     -> AfterNoGrid(p)
      [] k.op = "regrid"   -> BoxReleased(AfterNoGrid(p))
      [] k.op = "defaults" -> AfterDefaults(AfterNoGrid(p))
      [] k.op \in {"box", "switch"} -> AfterBoxRefused(p)
      [] k.op = "reset"    -> AfterNoDefaults(p, k.answer = "ok")
      [] OTHER             -> p

AsksNext(k) ==
    CASE k.op = "login"    -> {AskedFor("landing", 0, 0, FALSE)}
      [] k.op = "register" -> {AskedFor("first", k.about, 0, k.flag)}
      [] k.op = "create"   -> {AskedFor("relist", 0, 0, FALSE)}
      [] k.op = "withdraw" -> {AskedFor("list", 0, 0, FALSE)}
      [] k.op = "save"     -> {AskedFor("refile", 0, 0, FALSE), AskedFor("managers", 0, 0, FALSE)}
      [] k.op = "join"     -> {AskedFor("joins", 0, 0, FALSE)}
      [] k.op = "mark"     -> {AskedFor("notes", 0, 0, k.flag)}
      [] k.op = "markAll"  -> {AskedFor("renotes", 0, 0, k.flag)}
      [] k.op = "erase" /\ k.rest # {} -> {AskedToErase(k.rest, k.filter)}
      [] (k.op = "erase" /\ k.rest = {}) \/ k.op \in {"update", "password"} ->
           {AskedFor("reusers", k.filter, 0, FALSE)}
      [] k.op = "switch"   -> {AskedFor("regrid", 0, 0, FALSE)}
      [] k.op = "reset"    -> {AskedFor("defaults", 0, 0, FALSE)}
      [] OTHER             -> {}

\* A box or a switch that was refused is read again.
AsksAfterFailure(k) ==
    {AskedFor("regrid", 0, 0, FALSE) : op \in {k.op} \cap {"box", "switch"}}

\* flag of a registration: whether it is a member's.
Leads(k) ==
    CASE k.op = "landing" -> LandingScreen(left.allowed, left.role)
      [] k.op = "first"   -> FirstPath(IF k.flag THEN "MEMBER" ELSE "MANAGER")
      [] k.op = "change"  -> SignInPath
      [] OTHER            -> frame.path

Heard(k, p, f, asked) ==
    Becomes(f, IF k.by = "page" THEN p ELSE page,
            (calls \ {k}) \cup {[a EXCEPT !.by = IF @ = "lost" THEN @ ELSE k.by] : a \in asked})

HearOk(k) ==
    /\ k.by # "lost"
    /\ IF k.op \in Writes THEN k.answer = "ok"
       ELSE k.answer = "none" /\ (session.open \/ k.op \in Open)
    /\ store' = IF k.op \in {"login", "register"} THEN session.token ELSE store
    /\ Heard(k, AfterOk(k),
             IF k.op # "screens" THEN Replaced(frame, Leads(k), Holds')
             ELSE IF k.by = "page" THEN AfterScreens(frame, left.allowed, left.role, Holds)
             ELSE frame,
             AsksNext(k))
    /\ UNCHANGED <<session, shared, call, leaving, member>>

\* A refusal, no answer in time, no connection; what was given up on may be
\* served yet.
HearFailed(k) ==
    /\ k.by # "lost" /\ k.answer # "401"
    /\ UNCHANGED <<vars, member>>
    /\ Heard(k, AfterNotOk(k),
             IF k.op = "screens" /\ k.by = "page" THEN AfterNoScreens(frame, "failed", Holds)
             ELSE frame,
             AsksAfterFailure(k) \cup
             {[l EXCEPT !.by = "lost"] : l \in {m \in {k} : m.op \in Writes /\ m.answer = "none"}})

\* There are no tokens, or the access token has lapsed and could not be renewed.
HearUnauthorized(k) ==
    /\ k.by # "lost"
    /\ \/ k.answer = "401"
       \/ k.answer = "none" /\ k.op \notin Open /\ left.secrets > 0 /\ "loss" \in Faults
    /\ UNCHANGED <<vars, member>>
    /\ Heard(k, AfterNotOk(k),
             IF k.op \in {"screens", "days"} THEN AfterNoScreens(frame, "401", Holds) ELSE frame,
             AsksAfterFailure(k))

\* SESSION_REVOKED: endRevokedSession.
HearRevoked(k) ==
    /\ k.by # "lost" /\ k.answer = "none" /\ k.op \notin Open /\ ~session.open
    /\ store' = None
    /\ IF frame.path = SignInPath
       THEN /\ Heard(k, AfterNotOk(k), frame, {})
            /\ UNCHANGED <<call, leaving>>
       ELSE /\ Loaded(Raised(SignInPath, FALSE), TRUE)
            /\ call' = [c \in Callers |-> Quiet] /\ leaving' = [c \in Callers |-> Staying]
    /\ UNCHANGED <<session, shared, member>>

-----------------------------------------------------------------------------
(* The server.                                                             *)

Answered(k, answer) ==
    calls' = (calls \ {k}) \cup
        {a \in {[k EXCEPT !.answer = answer]} : a.by # "lost"}

\* What a request of a member does, and of an administrator.
MemberEffect(k) ==
    \/ k.op \in {"login", "register", "change"} /\ UNCHANGED service
    \/ k.op = "first"    /\ SaveProfile(k.about, k.about, "none")
    \/ k.op = "create"   /\ File(k.about, k.extra, k.flag)
    \/ k.op = "withdraw" /\ Withdraw(k.about)
    \/ k.op = "save"     /\ SaveProfile(k.about, k.extra, IF k.flag THEN "given" ELSE "none")
    \/ k.op = "join"     /\ AskToJoin(k.about)
    \/ k.op = "mark"     /\ Mark({k.about})
    \/ k.op = "markAll"  /\ Mark({n.id : n \in notes})

AdminEffect(k) ==
    \/ k.op = "erase"    /\ EraseAccount(k.about)
    \/ k.op = "update"   /\ UpdateAccount(k.about, RoleOrder[k.extra], k.flag)
    \/ k.op = "password" /\ SetPassword(k.about)
    \/ /\ \/ k.op = "box"    /\ SetPermission(k.about, Actions[k.extra], k.flag)
          \/ k.op = "switch" /\ SetPolicy(k.flag)
          \/ k.op = "reset"  /\ ResetPermissions
       /\ crossed' = (crossed \/ k.by # "page")

Effect(k) ==
    \/ MemberEffect(k) /\ UNCHANGED system
    \/ AdminEffect(k) /\ UNCHANGED service

Unserved(k) ==
    k.op \in Writes /\ k.answer = "none" /\ (session.open \/ k.op \in Open)

\* A new password closes every session of the account.
Serve(k) ==
    /\ Unserved(k)
    /\ Effect(k)
    /\ IF k.op = "change" THEN Revoke ELSE UNCHANGED vars
    /\ Answered(k, "ok")
    /\ UNCHANGED <<frame, page, left>>

Refuse(k) ==
    /\ Unserved(k)
    /\ Answered(k, "failed")
    /\ UNCHANGED <<vars, server, frame, page, left>>

\* Whoever sent a request that nobody waits for may be signed out by then.
Drop(k) ==
    /\ k.by = "lost" /\ ~session.open /\ k.op \notin Open
    /\ calls' = calls \ {k}
    /\ UNCHANGED <<vars, server, frame, page, left>>

OthersAct ==
    /\ \/ (Reviewing \/ DecideJoin) /\ UNCHANGED system
          /\ UNCHANGED left
       \/ OtherAdministers /\ Spend("others") /\ UNCHANGED service
    /\ UNCHANGED <<vars, browser>>

Requests(k) ==
    \/ HearOk(k)
    \/ HearFailed(k)
    \/ HearUnauthorized(k)
    \/ HearRevoked(k)
    \/ Serve(k)
    \/ Refuse(k)
    \/ Drop(k)

-----------------------------------------------------------------------------
(* The person, on a page that is shown.                                    *)

\* Links of the frame and of the page.
Ways ==
    Links(frame) \cup
        IF page.screen = "profile" /\ page.loaded
        THEN {<<"enroll">>, <<"profile", "password">>}
        ELSE IF page.screen = "password" THEN {ProfilePath} ELSE {}

GoTo(path) ==
    /\ path \in Ways \ {frame.path}
    /\ Spend("moves")
    /\ UNCHANGED <<vars, server>>
    /\ Becomes(Raised(path, Holds), page, calls)

\* From the dialog of a day.
AskForCorrection ==
    /\ Shows(frame) /\ page.screen = "history" /\ page.day # Nobody
    /\ Spend("moves")
    /\ UNCHANGED <<vars, server>>
    /\ LET f == Raised(<<"corrections">>, Holds)
       IN  Goes(f, IF Holds THEN OpenedCorrections(page.day) ELSE PageAt(f.path, FALSE), calls)

\* The button below the notice that the account cannot be told.
GiveUp ==
    /\ frame.denied
    /\ UNCHANGED <<vars, member>>
    /\ Becomes(Replaced(frame, SignInPath, Holds), page, calls)

On(screen) == Shows(frame) /\ page.screen = screen

Does(p, asked) == UNCHANGED <<vars, server>> /\ Stays(p, calls \cup asked)

\* The number of the next thing that is sent.
NextSend == MaxSends + 1 - left.sends

SignInActs ==
    /\ On("login")
    /\ \/ /\ Spend("fills")
          /\ \/ \E mode \in {"login", "register"} \ {page.mode} : Does(AfterMode(page, mode), {})
             \/ page.mode = "register" /\ \E role \in {"MEMBER", "MANAGER"} \ {page.role} :
                   Does([page EXCEPT !.role = role], {})
             \/ page.mode = "register" /\ \E code \in Codes :
                   Does(AfterCode(page, code), {AskedFor("lookup", code, 0, FALSE)})
       \/ /\ ~page.submitting
          /\ Spend("signins")
          /\ Does(AfterSubmit(page),
                  {IF page.mode = "login" THEN AskedFor("login", 0, 0, FALSE)
                   ELSE AskedFor("register", 1, 0, page.role = "MEMBER")})

PasswordActs ==
    /\ On("password") /\ ~page.busy
    /\ \/ Spend("fills") /\ Does(AfterUnlike(page), {})
       \/ Spend("sends") /\ Does(AfterChangeSent(page), {AskedFor("change", 0, 0, FALSE)})

CorrectionActs ==
    /\ On("corrections")
    /\ \/ /\ Spend("fills")
          /\ \E date \in Dates, times \in BOOLEAN :
               Does([page EXCEPT !.date = date, !.times = times, !.reason = TRUE], {})
       \/ /\ SubmitOffered(page)
          /\ Spend("sends")
          /\ Does(AfterSubmitRequest(page, NextSend),
                  {AskedFor("create", NextSend, page.date, page.times)})
       \/ /\ Spend("sends")
          /\ \E id \in WithdrawOffered(page) : Does(page, {AskedFor("withdraw", id, 0, FALSE)})

HistoryActs ==
    /\ On("history")
    /\ \/ /\ Spend("fills")
          /\ \/ \E range \in Ranges \ {page.range} :
                   Does(AfterRange(page, range), {AskedFor("days", range, 0, FALSE)})
             \/ page.data # Nobody /\ \E date \in Dates :
                   Does(AfterOpenDay(page, date), {AskedFor("day", date, 0, FALSE)})
       \/ page.day # Nobody /\ UNCHANGED left /\ Does(AfterCloseDay(page), {})

ProfileActs ==
    /\ On("profile") /\ page.loaded
    /\ \/ /\ Spend("fills")
          /\ \/ NextSend \in Sends /\ Does(AfterEdit(page, NextSend), {})
             \/ Does([page EXCEPT !.code = TRUE], {})
       \/ CancelOffered(page) /\ UNCHANGED left /\ Does([page EXCEPT !.editing = FALSE], {})
       \/ /\ CancelOffered(page)
          /\ Spend("sends")
          /\ Does(AfterSaveSent(page),
                  {AskedFor("save", NextSend, page.form, page.profile.department = "given")})
       \/ /\ JoinOffered(page)
          /\ Spend("sends")
          /\ Does(AfterJoinSent(page), {AskedFor("join", NextSend, 0, FALSE)})

NotificationActs ==
    /\ On("notifications")
    /\ \/ /\ Spend("fills")
          /\ Does(AfterFilter(page), {AskedFor("notes", 0, 0, ~page.unreadOnly)})
       \/ /\ Spend("sends")
          /\ \/ \E id \in MarkOffered(page) : Does(page, {AskedFor("mark", id, 0, page.unreadOnly)})
             \/ /\ MarkAllOffered(page)
                /\ Does(AfterMarkAllSent(page), {AskedFor("markAll", 0, 0, page.unreadOnly)})

UsersActs ==
    /\ On("users")
    /\ \/ /\ ~DialogOpen(page) /\ Spend("moves")
          /\ \E f \in (0 .. Len(RoleOrder)) \ {page.filter} :
               Does(Reloading([page EXCEPT !.filter = f]), {AskedFor("users", f, 0, FALSE)})
       \/ /\ ~DialogOpen(page) /\ Spend("fills")
          /\ \/ \E id \in OnScreen(page) : Does(AfterTick(page, id), {})
             \/ OnScreen(page) # {} /\ Does(AfterTickAll(page), {})
       \/ /\ ~DialogOpen(page) /\ UNCHANGED left
          /\ \/ Chosen(page) # {} /\ Does(AfterRemovalAsked(page), {})
             \/ Chosen(page) # {} /\ Does([page EXCEPT !.picked = {}], {})
             \/ \E row \in page.rows : Does(AfterOpenUser(page, row), {})
       \/ DialogOpen(page) /\ UNCHANGED left /\ Does(AfterDialogClosed(page), {})
       \/ /\ page.removing # {} /\ ~page.reason /\ UNCHANGED left
          /\ Does([page EXCEPT !.reason = TRUE], {})
       \/ /\ page.selected # {} /\ Spend("fills")
          /\ \/ \E role \in ToSet(RoleOrder) \ {page.newRole} :
                   Does([page EXCEPT !.newRole = role], {})
             \/ Does([page EXCEPT !.newActive = ~@], {})
             \/ Does([page EXCEPT !.password = TRUE], {})
       \/ /\ RemovalOffered(page) /\ Spend("sends")
          /\ confirmed' = confirmed \cup page.ticked
          /\ UNCHANGED <<vars, service, accounts, granted, many, erased, crossed>>
          /\ Stays(AfterUsersSent(page),
                   calls \cup {AskedToErase(page.removing, page.filter)})
       \/ /\ Spend("sends")
          /\ \E r \in page.selected, n \in DOMAIN RoleOrder :
               \/ /\ ChangeOffered(page) /\ RoleOrder[n] = page.newRole
                  /\ Does(AfterUsersSent(page),
                          {AskedOf("update", r.id, n, page.newActive, {}, page.filter)})
               \/ /\ PasswordOffered(page) /\ n = 1
                  /\ Does(AfterUsersSent(page),
                          {AskedOf("password", r.id, 0, FALSE, {}, page.filter)})

\* Those of the page of the permissions.
GridCalls == {k \in calls : k.op \in {"grid", "regrid", "defaults", "box", "switch", "reset"}}

RolesActs ==
    /\ On("roles") /\ Spend("sends")
    /\ crossed' = (crossed \/ GridCalls # {})
    /\ UNCHANGED <<vars, service, accounts, granted, many, erased, confirmed>>
    /\ \/ \E b \in BoxesOffered(page) :
            Stays(AfterBox(page, b),
                  calls \cup {AskedFor("box", b[1], b[2], Actions[b[2]] \notin page.grid[b[1]])})
       \/ /\ SwitchOffered(page)
          /\ \E allow \in BOOLEAN :
               Stays(AfterSwitch(page, allow), calls \cup {AskedFor("switch", 0, 0, allow)})
       \/ /\ ~page.resetting
          /\ Stays(AfterReset(page), calls \cup {AskedFor("reset", 0, 0, FALSE)})

PersonActs ==
    \/ \E path \in left.paths : GoTo(path)
    \/ AskForCorrection
    \/ GiveUp
    \/ SignInActs
    \/ PasswordActs
    \/ CorrectionActs
    \/ HistoryActs
    \/ ProfileActs
    \/ NotificationActs
    \/ UsersActs
    \/ RolesActs

-----------------------------------------------------------------------------
\* What Refresh does; signing out is offered by the frame, and ends at the
\* sign-in page.
SessionMoves ==
    /\ left.secrets > 0
    /\ \/ /\ \/ \E c \in Callers : RefreshStep(c) \/ Close(c) \/ CloseFails(c)
             \/ SignOutOffered(frame) /\ \E c \in Callers : SignOut(c)
             \/ Revoke
             \/ EndRevokedSession
             \/ GraceEnds
             \/ RedisForgets
          /\ UNCHANGED browser
       \/ /\ \E c \in Callers : ClearStore(c)
          /\ Becomes(Replaced(frame, SignInPath, FALSE), page, calls)
    /\ session'.token <= left.secrets
    /\ UNCHANGED member

BrowserNext ==
    \/ \E k \in calls : Requests(k)
    \/ OthersAct
    \/ PersonActs
    \/ SessionMoves

\* A request is answered, or given up on (REQUEST_TIMEOUT_MS).
Fairness == WF_allVars(\E k \in calls : Requests(k))

BrowserSpec == BrowserInit /\ [][BrowserNext]_allVars /\ Fairness

-----------------------------------------------------------------------------
(***************************************************************************)
(* Types of the browser, its requests and what the server keeps.           *)
(***************************************************************************)
BrowserTypeOK ==
    /\ ServiceTypeOK /\ SystemTypeOK
    /\ frame \in Frames
    /\ \/ page = [screen |-> "other"]
       \/ page \in SignInPages \/ page \in PasswordPages \/ page \in CorrectionsPages
       \/ page \in HistoryPages \/ page \in ProfilePages \/ page \in NotificationsPages
       \/ page \in UsersPages \/ page \in RolesPages
    /\ calls \subseteq Asked
    /\ left \in Bound

(***************************************************************************)
(* A member is told that a request for a correction, a save or a request   *)
(* to join was sent only when the server took that very one, whatever      *)
(* answers come late, are lost, or belong to a page that was left          *)
(* (corrections/page.tsx submit, profile/page.tsx save and joinTeam).      *)
(***************************************************************************)
SaysWhatWasTaken ==
    page.screen \in {"corrections", "profile"} => page.said \in taken \cup {Nobody}

(***************************************************************************)
(* No attendance row was written for a request that its member withdrew,   *)
(* though a review reads the request without locking it and writes the     *)
(* rows before its verdict: the rows that refer to it hold the withdrawal  *)
(* up until the review is over (member_portal.py review_correction,        *)
(* _apply_correction and cancel_correction).                               *)
(***************************************************************************)
WithdrawnIsNotApplied == \A id \in applied : filed[id].status # "WITHDRAWN"

(***************************************************************************)
(* The dialog of a day shows every attempt once, in order of time, and     *)
(* puts together an arrival with the departure that ended it: no counted   *)
(* attempt lies between the two, and every refused one does that is shown  *)
(* with them (lib/member.ts pairSessions).                                 *)
(***************************************************************************)
DayReadsAsItWas ==
    page.screen = "history" =>
        LET pairs    == PairSessions(page.events)
            Of(pair) == ({pair.in, pair.out} \ {Nobody}) \cup pair.rejected
            Counted(i, j) == {n \in i + 1 .. j - 1 : page.events[n].counted}
        IN  /\ \A n \in DOMAIN page.events :
                 Cardinality({m \in DOMAIN pairs : n \in Of(pairs[m])}) = 1
            /\ \A m \in DOMAIN pairs, n \in DOMAIN pairs :
                 m < n => \A i \in Of(pairs[m]), j \in Of(pairs[n]) : i < j
            /\ \A m \in DOMAIN pairs :
                 LET pair == pairs[m] IN
                 pair.in # Nobody =>
                     /\ pair.out # Nobody => Counted(pair.in, pair.out) = {}
                     /\ \A i \in pair.rejected :
                          pair.in < i /\ Counted(pair.in, i) = {}
                            /\ (pair.out # Nobody => i < pair.out)

(***************************************************************************)
(* An administrator erases only accounts that were ticked and on screen    *)
(* when the dialog was opened, never one behind a filter, whatever becomes *)
(* of the list, the ticks and the dialog while they are erased one by one  *)
(* (users/page.tsx removeAccounts, components/SelectableTable.tsx).        *)
(***************************************************************************)
ErasesWhatWasShown == erased \subseteq confirmed

(***************************************************************************)
(* When nothing is under way, the page shows the permissions and the rule  *)
(* on devices as the server holds them, though each tick is drawn before   *)
(* it is sent, may be refused, and takes others with it (roles/page.tsx    *)
(* toggle, setDevicePolicy, restoreDefaults).  Not so after one of four    *)
(* things, each of which does leave an old grid on screen:                 *)
(*                                                                         *)
(*   crossed  a request was sent before another was through, a box, the    *)
(*            switch or a reset; or one that the page had given up on, or  *)
(*            been left with, was served after all                         *)
(*   behind   a reset was done and its answer lost, after which the page   *)
(*            reads nothing; or a reading of the grid failed, until one    *)
(*            succeeds                                                     *)
(***************************************************************************)
GridIsHeld ==
    page.screen = "roles" /\ page.loaded /\ ~page.behind /\ ~crossed /\ GridCalls = {} =>
        page.grid = granted /\ page.many = many

-----------------------------------------------------------------------------
Waits == ~Shows(frame) /\ ~frame.denied

\* The sign-in page came up while there still were tokens: the server refuses
\* them, and the frame leaves for the page it is at.
CaughtAtSignIn == frame.path = SignInPath /\ frame.signedIn

NothingToOpen ==
    frame.known /\ \A g \in ToSet(GroupOrder[left.role]) : ScreensOfGroup(g, frame.screens) = {}

(***************************************************************************)
(* Nobody is left in front of a page that never loads: whatever is         *)
(* answered, revoked or not permitted, the frame comes to show a page, or  *)
(* the notice that the account cannot be told (Shell.tsx,                  *)
(* landingScreen).  Two states are excepted that the code does get into.   *)
(***************************************************************************)
LandsSomewhere == Waits ~> (~Waits \/ CaughtAtSignIn \/ NothingToOpen)

Busy ==
    CASE page.screen = "login"         -> page.submitting
      [] page.screen = "password"      -> page.busy
      [] page.screen = "corrections"   -> page.submitting
      [] page.screen = "profile"       -> page.saving \/ page.joining
      [] page.screen = "notifications" -> page.busy
      [] page.screen = "users"         -> page.busy
      [] page.screen = "roles"         -> page.busy # Idle \/ page.resetting
      [] OTHER                         -> FALSE

(***************************************************************************)
(* Every form comes back to the person who sent it, whichever of the       *)
(* request and the reads that follow it fails (the finally of every        *)
(* submit).                                                                *)
(***************************************************************************)
FormsComeBack == Busy ~> ~Busy
=============================================================================
