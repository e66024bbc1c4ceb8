---------------------------- MODULE BrowserProofs ----------------------------
(***************************************************************************)
(* What the browser of any account guarantees: for any scenario, and any   *)
(* number of sends, dates, accounts, reviewers and secrets.                *)
(***************************************************************************)
EXTENDS Browser, RefreshProofs, FiniteSetTheorems, WellFoundedInduction

-----------------------------------------------------------------------------
(***************************************************************************)
(* The inductive invariant, in named parts.                                *)
(***************************************************************************)

Pages ==
    {[screen |-> "other"]} \cup SignInPages \cup PasswordPages \cup CorrectionsPages
      \cup HistoryPages \cup ProfilePages \cup NotificationsPages \cup UsersPages
      \cup RolesPages

\* What a page waits for; the screens of the account are the frame's.
AsksOf(screen) ==
    CASE screen = "login"         -> {"lookup", "login", "register", "landing", "first"}
      [] screen = "password"      -> {"change"}
      [] screen = "corrections"   -> {"list", "relist", "create", "withdraw"}
      [] screen = "history"       -> {"days", "day"}
      [] screen = "profile"       -> {"file", "refile", "managers", "joins", "save", "join"}
      [] screen = "notifications" -> {"notes", "renotes", "mark", "markAll"}
      [] screen = "users"         -> {"users", "reusers", "erase", "update", "password"}
      [] screen = "roles"         -> {"grid", "regrid", "defaults", "box", "switch", "reset"}
      [] OTHER                    -> {}

\* A request the page on screen waits for is one of its own: leaving a page
\* marks those it leaves behind.
OfPage(k, screen) == k.by = "page" => k.op \in {"screens"} \cup AsksOf(screen)

OfThisPage ==
    /\ \A k \in calls : OfPage(k, page.screen)
    /\ frame.path = SignInPath => page.screen = "login"

\* What a request is about is a thing of its kind.
Meant(k) ==
    /\ k.op = "lookup" => k.about \in Codes
    /\ k.op \in {"create", "save", "join", "register", "first"} => k.about \in Sends
    /\ k.op = "create" => k.extra \in Dates
    /\ k.op = "save" => k.extra \in Sends \cup {Nobody}
    /\ k.op = "days" => k.about \in Ranges
    /\ k.op \in {"erase", "update", "password"} => k.about \in Accounts
    /\ k.op = "update" => k.extra \in DOMAIN RoleOrder
    /\ k.op = "box" => <<k.about, k.extra>> \in Boxes

BrowserTyped ==
    /\ TypeOK /\ BrowserTypeOK
    /\ OfThisPage
    /\ \A k \in calls : Meant(k)

(***************************************************************************)
(* An answer that says yes to a request for a correction, a save or a      *)
(* request to join stands for one that was taken.                          *)
(***************************************************************************)
YesIsTaken ==
    \A k \in calls :
        k.op \in {"create", "save", "join"} /\ k.answer = "ok" => k.about \in taken

(***************************************************************************)
(* A request for a correction that is yet to be served is not filed: its   *)
(* number was never used, and nothing else carries it.                     *)
(***************************************************************************)
Unused(k) ==
    /\ k.about + left.sends <= MaxSends
    /\ k.answer = "none" => k.about \notin DOMAIN filed

Creates(k) == k.op = "create"

NumbersAreFresh ==
    /\ \A id \in DOMAIN filed : id + left.sends <= MaxSends
    /\ \A k \in calls : Creates(k) => Unused(k)
    /\ \A k, l \in calls : Creates(k) /\ Creates(l) /\ k.about = l.about => k = l

\* What a review writes it writes before the request may be withdrawn, and what
\* was applied is decided.
ReviewsSound ==
    /\ \A r \in Reviewers : reviews[r].stage # "idle" => reviews[r].id \in DOMAIN filed
    /\ \A id \in DOMAIN filed : Held(id) => filed[id].status # "WITHDRAWN"
    /\ \A id \in applied : id \in DOMAIN filed
                             /\ filed[id].status \in {"APPROVED", "REJECTED"}

(***************************************************************************)
(* What is being erased, and what comes after it, was confirmed; the       *)
(* dialog names what was ticked on screen.                                 *)
(***************************************************************************)
ErasuresConfirmed ==
    /\ erased \subseteq confirmed
    /\ page.screen = "users" => page.removing \subseteq page.ticked
    /\ \A k \in calls : k.op = "erase" => k.about \in confirmed /\ k.rest \subseteq confirmed

(***************************************************************************)
(* While requests about the permissions do not overlap, the page waits for *)
(* at most one; if for none, for the note of a box that is saved, or for a *)
(* reset not done yet, the grid is the server's; if for a box yet to be    *)
(* saved, it is what the server's will be.                                 *)
(***************************************************************************)
OfGrid(k) ==
    k.by = "page" /\ k.op \in {"grid", "regrid", "defaults", "box", "switch", "reset"}

Agrees == page.grid = granted /\ page.many = many

WillAgree(k) ==
    /\ page.many = many
    /\ page.grid = [granted EXCEPT ![k.about] = Mirrored(@, Actions[k.extra], k.flag)]

\* What the grid is while a box or a reset is waited for.
Expected(k) ==
    /\ k.op = "box" /\ k.answer = "ok" => Agrees
    /\ k.op = "box" /\ k.answer = "none" => WillAgree(k)
    /\ k.op = "reset" /\ k.answer # "ok" => Agrees

OneByOne ==
    page.screen = "roles" /\ ~crossed =>
        /\ \A k, l \in calls : OfGrid(k) /\ OfGrid(l) => k = l
        /\ page.loaded /\ ~page.behind =>
             /\ (\A k \in calls : ~OfGrid(k)) => Agrees
             /\ \A k \in calls : OfGrid(k) => Expected(k)

(***************************************************************************)
(* Whoever is signing in has no secret yet, and nothing in flight that     *)
(* could bring one.                                                        *)
(***************************************************************************)
SigningIn(k) == k.op \in {"login", "register"}

SignsInOnce ==
    /\ \A k, l \in calls : SigningIn(k) /\ SigningIn(l) => k = l
    /\ (\E k \in calls : SigningIn(k)) => left.signins = 0
    /\ left.signins = 1 \/ (\E k \in calls : SigningIn(k)) =>
         store = None /\ \A c \in Callers : call[c] = Quiet

-----------------------------------------------------------------------------
(***************************************************************************)
(* Numbers: the first of some, the last of finitely many.                  *)
(***************************************************************************)

\* Induction, with a set for what is claimed.
LEMMA Induction ==
  ASSUME NEW T, 0 \in T, \A n \in Nat : n \in T => n + 1 \in T
  PROVE  Nat \subseteq T
<1> DEFINE R == {p \in Nat \X Nat : p[1] < p[2]}
<1>1. IsWellFoundedOn(R, Nat)
  BY NatLessThanWellFounded DEF OpToRel
<1>2. \A x, y \in Nat : x < y => <<x, y>> \in R
  OBVIOUS
<1> HIDE DEF R
<1>3. SUFFICES ASSUME Nat \ T # {} PROVE FALSE
  OBVIOUS
<1>4. PICK x \in Nat \ T : \A y \in Nat \ T : <<y, x>> \notin R
  BY <1>1, <1>3, WFMin
<1>5. x - 1 \in Nat /\ x - 1 < x /\ (x - 1) + 1 = x
  BY <1>4
<1> QED BY <1>2, <1>4, <1>5

LEMMA FirstExists ==
  ASSUME NEW S, S \subseteq Nat, S # {}
  PROVE  \E x \in S : \A y \in S : x <= y
<1> DEFINE T == {n \in Nat : \A x \in S : n <= x}
<1>1. SUFFICES ASSUME \A x \in S : \E y \in S : ~(x <= y) PROVE FALSE
  OBVIOUS
<1>2. 0 \in T
  OBVIOUS
<1>3. ASSUME NEW n \in Nat, n \in T PROVE n + 1 \in T
  <2>1. \A x \in S : n <= x
    BY <1>3
  <2>2. n \notin S
    BY <1>1, <2>1
  <2> QED BY <2>1, <2>2
<1> HIDE DEF T
<1>4. Nat \subseteq T
  BY <1>2, <1>3, Induction
<1>5. PICK s \in S : TRUE
  OBVIOUS
<1>6. s + 1 \in T
  BY <1>4, <1>5
<1> QED BY <1>5, <1>6 DEF T

LEMMA MinIsFirst ==
  ASSUME NEW S, S \subseteq Nat, S # {}
  PROVE  Min(S) \in S
  BY FirstExists DEF Min

LEMMA FiniteIsBounded ==
  ASSUME NEW S, S \subseteq Nat, IsFiniteSet(S)
  PROVE  \E b \in Nat : \A x \in S : x <= b
<1> DEFINE Bounded(f, n) == \E b \in Nat : \A i \in 1 .. n : f[i] <= b
           T == {n \in Nat : \A f : (\A i \in 1 .. n : f[i] \in Nat) => Bounded(f, n)}
<1>1. 0 \in T
  OBVIOUS
<1>2. ASSUME NEW n \in Nat, n \in T PROVE n + 1 \in T
  <2>1. ASSUME NEW f, \A i \in 1 .. n + 1 : f[i] \in Nat PROVE Bounded(f, n + 1)
    <3>1. PICK b \in Nat : \A i \in 1 .. n : f[i] <= b
      BY <1>2, <2>1
    <3>2. f[n + 1] \in Nat
      BY <2>1
    <3>3. b + f[n + 1] \in Nat /\ \A i \in 1 .. n + 1 : f[i] <= b + f[n + 1]
      BY <2>1, <3>1, <3>2
    <3> QED BY <3>3
  <2> QED BY <2>1
<1> HIDE DEF T
<1>3. Nat \subseteq T
  BY <1>1, <1>2, Induction
<1>4. PICK n \in Nat : ExistsSurjection(1 .. n, S)
  BY FS_NatSurjection
<1>5. PICK f : f \in Surjection(1 .. n, S)
  BY <1>4 DEF ExistsSurjection
<1>6. f \in [1 .. n -> Nat] /\ \A x \in S : \E i \in 1 .. n : f[i] = x
  BY <1>5 DEF Surjection
<1>7. PICK b \in Nat : \A i \in 1 .. n : f[i] <= b
  BY <1>3, <1>6 DEF T
<1> QED BY <1>6, <1>7

LEMMA MaxIsLast ==
  ASSUME NEW S, S \subseteq Nat, S # {}, IsFiniteSet(S)
  PROVE  Max(S) \in S
<1> DEFINE U == {b \in Nat : \A x \in S : x <= b}
<1>1. U \subseteq Nat /\ U # {}
  BY FiniteIsBounded
<1>2. PICK b \in U : \A c \in U : b <= c
  BY <1>1, FirstExists
<1>3. b \in S
  <2>1. SUFFICES ASSUME b \notin S PROVE FALSE
    OBVIOUS
  <2>2. b \in Nat /\ (\A x \in S : x \in Nat /\ x < b)
    BY <1>2, <2>1
  <2>3. b # 0
    <3>1. PICK s \in S : TRUE
      OBVIOUS
    <3> QED BY <2>2, <3>1
  <2>4. b - 1 \in Nat /\ (\A x \in S : x <= b - 1)
    BY <2>2, <2>3
  <2> QED BY <1>2, <2>2, <2>4
<1>4. \A x \in S : b >= x
  BY <1>2
<1> QED BY <1>3, <1>4 DEF Max

-----------------------------------------------------------------------------
(***************************************************************************)
(* The frame.                                                              *)
(***************************************************************************)

LEMMA ScreenPaths ==
  /\ \A n \in DOMAIN Screens : Screens[n].href \in Addresses
  /\ ProfilePath \in Addresses
  /\ <<"corrections">> \in Addresses
  /\ <<"manager">> \in Addresses
<1>1. \A n \in DOMAIN Screens : Screens[n].href \in Addresses
  BY DEF Addresses, ToSet
<1>2. DOMAIN Screens = 1 .. 20
  BY DEF Screens
<1>3. 4 \in DOMAIN Screens /\ 6 \in DOMAIN Screens /\ 7 \in DOMAIN Screens
  BY <1>2
<1>4. Screens[4].href = <<"corrections">>
  BY DEF Screens, Screen, Entry
<1>6. Screens[6].href = ProfilePath
  BY DEF Screens, Screen, Entry
<1>7. Screens[7].href = <<"manager">>
  BY DEF Screens, Screen, Entry
<1> QED BY <1>1, <1>3, <1>4, <1>6, <1>7, Zenon

LEMMA LandingTyped ==
  ASSUME NEW allowed, NEW role \in Roles
  PROVE  LandingScreen(allowed, role) \in Addresses
<1> DEFINE order == GroupOrder[role]
           sections == {i \in DOMAIN order : ScreensOfGroup(order[i], allowed) # {}}
<1>1. CASE sections = {}
  BY <1>1, ScreenPaths DEF LandingScreen
<1>2. CASE sections # {}
  <2>1. DOMAIN order \subseteq Nat
    BY DEF Roles, GroupOrder
  <2>2. Min(sections) \in sections
    BY <1>2, <2>1, MinIsFirst
  <2>3. DOMAIN Screens \subseteq Nat
    BY DEF Screens
  <2> DEFINE S == ScreensOfGroup(order[Min(sections)], allowed)
  <2>4. S # {}
    BY <2>2
  <2>5. S \subseteq DOMAIN Screens
    BY DEF ScreensOfGroup
  <2>6. Min(S) \in S
    BY <2>3, <2>4, <2>5, MinIsFirst
  <2>7. LandingScreen(allowed, role) = Screens[Min(S)].href
    BY <1>2 DEF LandingScreen
  <2> QED BY <2>5, <2>6, <2>7, ScreenPaths
<1> QED BY <1>1, <1>2

LEMMA FirstPathTyped == \A role : FirstPath(role) \in Addresses
  BY ScreenPaths DEF FirstPath, Addresses

LEMMA RaisedTyped ==
  ASSUME NEW path \in Addresses, NEW holds \in BOOLEAN
  PROVE  Raised(path, holds) \in Frames
  BY DEF Raised, Frames, Addresses

LEMMA ReplacedTyped ==
  ASSUME NEW f \in Frames, NEW path \in Addresses, NEW holds \in BOOLEAN
  PROVE  /\ Replaced(f, path, holds) \in Frames
         /\ Replaced(f, path, holds).path \in {f.path, path, SignInPath}
  BY RaisedTyped DEF Replaced, Raised

LEMMA AfterScreensTyped ==
  ASSUME NEW f \in Frames, NEW allowed \in SUBSET Keys, NEW role \in Roles,
         NEW holds \in BOOLEAN
  PROVE  AfterScreens(f, allowed, role, holds) \in Frames
<1> DEFINE g == [f EXCEPT !.known = TRUE, !.screens = allowed]
<1>1. g \in Frames
  BY DEF Frames
<1> HIDE DEF g
<1>2. Replaced(g, LandingScreen(allowed, role), holds) \in Frames
  BY <1>1, LandingTyped, ReplacedTyped
<1> QED BY <1>1, <1>2 DEF AfterScreens, g

LEMMA AfterNoScreensTyped ==
  ASSUME NEW f \in Frames, NEW answer, NEW holds \in BOOLEAN
  PROVE  AfterNoScreens(f, answer, holds) \in Frames
<1>1. [f EXCEPT !.denied = TRUE] \in Frames
  BY DEF Frames
<1>2. SignInPath \in Addresses
  BY DEF Addresses
<1> QED BY <1>1, <1>2, ReplacedTyped DEF AfterNoScreens

-----------------------------------------------------------------------------
(***************************************************************************)
(* Pages: as they come up, and what their handlers leave.                  *)
(***************************************************************************)

LEMMA PageOfScreen ==
  ASSUME NEW p \in Pages
  PROVE  /\ p.screen = "login" => p \in SignInPages
         /\ p.screen = "password" => p \in PasswordPages
         /\ p.screen = "corrections" => p \in CorrectionsPages
         /\ p.screen = "history" => p \in HistoryPages
         /\ p.screen = "profile" => p \in ProfilePages
         /\ p.screen = "notifications" => p \in NotificationsPages
         /\ p.screen = "users" => p \in UsersPages
         /\ p.screen = "roles" => p \in RolesPages
         /\ p.screen \in {"login", "password", "corrections", "history", "profile",
                          "notifications", "users", "roles", "other"}
  BY DEF Pages, SignInPages, PasswordPages, CorrectionsPages, HistoryPages, ProfilePages,
     NotificationsPages, UsersPages, RolesPages

\* Of a page that has just come up.
Fresh(p) ==
    /\ p \in Pages
    /\ p.screen \in {"corrections", "profile"} => p.said = Nobody
    /\ p.screen = "users" => p.removing = {}
    /\ p.screen = "roles" => ~p.loaded

LEMMA FirstOfEach == FirstDate \in Dates /\ FirstRange \in Ranges
  BY DatesAssumption, RangesAssumption, MinIsFirst DEF FirstDate, FirstRange

LEMMA OpenedFresh ==
  /\ \A ended \in BOOLEAN : Fresh(OpenedSignIn(ended))
  /\ Fresh(OpenedPassword) /\ Fresh(OpenedProfile)
  /\ \A date \in Dates : Fresh(OpenedCorrections(date))
  /\ Fresh(OpenedHistory(FirstRange)) /\ Fresh(OpenedNotifications)
  /\ Fresh(OpenedUsers) /\ Fresh(OpenedRoles)
  /\ Fresh([screen |-> "other"])
<1>1. \A ended \in BOOLEAN : Fresh(OpenedSignIn(ended))
  <2>1. \A ended \in BOOLEAN : OpenedSignIn(ended) \in SignInPages
    BY DEF OpenedSignIn, SignInPages
  <2> QED BY <2>1 DEF Fresh, Pages, OpenedSignIn
<1>2. Fresh(OpenedPassword)
  <2>1. OpenedPassword \in PasswordPages
    BY DEF OpenedPassword, PasswordPages
  <2> QED BY <2>1 DEF Fresh, Pages, OpenedPassword
<1>3. Fresh(OpenedProfile)
  <2>1. OpenedProfile \in ProfilePages
    BY DEF OpenedProfile, ProfilePages, Profile
  <2> QED BY <2>1 DEF Fresh, Pages, OpenedProfile
<1>4. \A date \in Dates : Fresh(OpenedCorrections(date))
  <2>1. \A date \in Dates : OpenedCorrections(date) \in CorrectionsPages
    BY DEF OpenedCorrections, CorrectionsPages
  <2> QED BY <2>1 DEF Fresh, Pages, OpenedCorrections
<1>5. Fresh(OpenedHistory(FirstRange))
  <2>1. OpenedHistory(FirstRange) \in HistoryPages
    BY FirstOfEach DEF OpenedHistory, HistoryPages
  <2> QED BY <2>1 DEF Fresh, Pages, OpenedHistory
<1>6. Fresh(OpenedNotifications)
  <2>1. OpenedNotifications \in NotificationsPages
    BY MaxSendsAssumption DEF OpenedNotifications, NotificationsPages
  <2> QED BY <2>1 DEF Fresh, Pages, OpenedNotifications
<1>7. Fresh(OpenedUsers)
  <2>1. OpenedUsers \in UsersPages
    BY DEF OpenedUsers, UsersPages, ToSet, RoleOrder
  <2> QED BY <2>1 DEF Fresh, Pages, OpenedUsers
<1>8. Fresh(OpenedRoles)
  <2>1. OpenedRoles \in RolesPages
    <3>1. [n \in DOMAIN PermissionRows |-> {}] \in Grids
      BY DEF Grids
    <3> QED BY <3>1 DEF OpenedRoles, RolesPages
  <2> QED BY <2>1 DEF Fresh, Pages, OpenedRoles
<1>9. Fresh([screen |-> "other"])
  BY DEF Fresh, Pages
<1> QED BY <1>1, <1>2, <1>3, <1>4, <1>5, <1>6, <1>7, <1>8, <1>9

LEMMA PageAtFresh ==
  ASSUME NEW path, NEW ended \in BOOLEAN
  PROVE  /\ Fresh(PageAt(path, ended))
         /\ path = SignInPath => PageAt(path, ended).screen = "login"
<1>1. \/ PageAt(path, ended) = OpenedSignIn(ended)
      \/ PageAt(path, ended) = OpenedPassword
      \/ PageAt(path, ended) = OpenedProfile
      \/ PageAt(path, ended) = OpenedCorrections(FirstDate)
      \/ PageAt(path, ended) = OpenedHistory(FirstRange)
      \/ PageAt(path, ended) = OpenedNotifications
      \/ PageAt(path, ended) = OpenedUsers
      \/ PageAt(path, ended) = OpenedRoles
      \/ PageAt(path, ended) = [screen |-> "other"]
  BY DEF PageAt
<1>2. path = SignInPath => PageAt(path, ended) = OpenedSignIn(ended)
  BY DEF PageAt, SignInPath, ProfilePath
<1>3. Fresh(PageAt(path, ended))
  BY <1>1, OpenedFresh, FirstOfEach
<1> QED BY <1>2, <1>3 DEF OpenedSignIn

(***************************************************************************)
(* What an answer leaves of each page.                                     *)
(***************************************************************************)

LEMMA HeardAtSignIn ==
  ASSUME page \in SignInPages, NEW k \in Asked, Meant(k),
         k.op \in {"screens"} \cup AsksOf("login")
  PROVE  AfterOk(k) \in SignInPages /\ AfterNotOk(k) \in SignInPages
<1>1. CASE k.op = "lookup"
  BY <1>1 DEF AfterOk, AfterNotOk, AfterLookup, AfterNoLookup, SignInPages, Meant
<1>2. CASE k.op \in {"login", "register", "landing", "first"}
  <2>1. AfterOk(k) \in {page, AfterSignIn(page)} /\ AfterNotOk(k) = AfterNoSignIn(page)
    BY <1>2 DEF AfterOk, AfterNotOk
  <2>2. AfterSignIn(page) \in SignInPages /\ AfterNoSignIn(page) \in SignInPages
    BY DEF AfterSignIn, AfterNoSignIn, SignInPages
  <2> QED BY <2>1, <2>2
<1>3. CASE k.op = "screens"
  BY <1>3 DEF AfterOk, AfterNotOk
<1> QED BY <1>1, <1>2, <1>3 DEF AsksOf

LEMMA HeardAtPassword ==
  ASSUME page \in PasswordPages, NEW k \in Asked,
         k.op \in {"screens"} \cup AsksOf("password")
  PROVE  AfterOk(k) \in PasswordPages /\ AfterNotOk(k) \in PasswordPages
<1>1. CASE k.op = "change"
  BY <1>1 DEF AfterOk, AfterNotOk, AfterChange, AfterNoChange, PasswordPages
<1>2. CASE k.op = "screens"
  BY <1>2 DEF AfterOk, AfterNotOk
<1> QED BY <1>1, <1>2 DEF AsksOf

\* What a notice names is what was answered.
Says(p, k) ==
    p.said \in {page.said, Nobody} \cup {n \in {k.about} : k.op \in {"create", "save", "join"}}

LEMMA HeardAtCorrections ==
  ASSUME page \in CorrectionsPages, NEW k \in Asked, Meant(k), ServiceTypeOK,
         k.op \in {"screens"} \cup AsksOf("corrections")
  PROVE  /\ AfterOk(k) \in CorrectionsPages /\ Says(AfterOk(k), k)
         /\ AfterNotOk(k) \in CorrectionsPages /\ AfterNotOk(k).said = page.said
<1>1. Rows \in SUBSET [id : Sends, status : Statuses]
  BY DEF Rows, ServiceTypeOK, Request, Statuses
<1>2. CASE k.op = "list"
  <2>1. AfterOk(k) = AfterList(page, Rows) /\ AfterNotOk(k) = AfterNoList(page)
    BY <1>2 DEF AfterOk, AfterNotOk
  <2>2. AfterList(page, Rows) \in CorrectionsPages /\ Says(AfterList(page, Rows), k)
    BY <1>1 DEF AfterList, CorrectionsPages, Says
  <2>3. AfterNoList(page) \in CorrectionsPages /\ (AfterNoList(page)).said = page.said
    BY <1>1 DEF AfterNoList, CorrectionsPages
  <2> QED BY <2>1, <2>2, <2>3
<1>3. CASE k.op = "relist"
  <2>1. AfterOk(k) = Released(AfterList(page, Rows)) /\ AfterNotOk(k) = Released(AfterNoList(page))
    BY <1>3 DEF AfterOk, AfterNotOk
  <2>2. Released(AfterList(page, Rows)) \in CorrectionsPages /\ Says(Released(AfterList(page, Rows)), k)
    BY <1>1 DEF AfterList, Released, CorrectionsPages, Says
  <2>3. Released(AfterNoList(page)) \in CorrectionsPages /\ (Released(AfterNoList(page))).said = page.said
    BY <1>1 DEF AfterNoList, Released, CorrectionsPages
  <2> QED BY <2>1, <2>2, <2>3
<1>4. CASE k.op = "create"
  <2>1. AfterOk(k) = AfterTaken(page, k.about) /\ AfterNotOk(k) = AfterNotTaken(page)
    BY <1>4 DEF AfterOk, AfterNotOk
  <2>2. AfterTaken(page, k.about) \in CorrectionsPages /\ Says(AfterTaken(page, k.about), k)
    BY <1>4 DEF AfterTaken, CorrectionsPages, Meant, Says
  <2>3. AfterNotTaken(page) \in CorrectionsPages /\ (AfterNotTaken(page)).said = page.said
    BY <1>4 DEF AfterNotTaken, CorrectionsPages
  <2> QED BY <2>1, <2>2, <2>3
<1>5. CASE k.op = "withdraw"
  BY <1>5 DEF AfterOk, AfterNotOk, AfterNotWithdrawn, CorrectionsPages, Says
<1>6. CASE k.op = "screens"
  BY <1>6 DEF AfterOk, AfterNotOk, Says
<1> QED BY <1>2, <1>3, <1>4, <1>5, <1>6 DEF AsksOf

LEMMA HeardAtHistory ==
  ASSUME page \in HistoryPages, NEW k \in Asked, Meant(k), left \in Bound,
         k.op \in {"screens"} \cup AsksOf("history")
  PROVE  AfterOk(k) \in HistoryPages /\ AfterNotOk(k) \in HistoryPages
<1>1. CASE k.op = "days"
  BY <1>1 DEF AfterOk, AfterNotOk, AfterDays, AfterNoDays, HistoryPages, Meant
<1>2. CASE k.op = "day"
  BY <1>2 DEF AfterOk, AfterNotOk, AfterDay, AfterNoDay, HistoryPages, Bound
<1>3. CASE k.op = "screens"
  BY <1>3 DEF AfterOk, AfterNotOk
<1> QED BY <1>1, <1>2, <1>3 DEF AsksOf

LEMMA HeardAtProfile ==
  ASSUME page \in ProfilePages, NEW k \in Asked, Meant(k), ServiceTypeOK,
         k.op \in {"screens"} \cup AsksOf("profile")
  PROVE  /\ AfterOk(k) \in ProfilePages /\ Says(AfterOk(k), k)
         /\ AfterNotOk(k) \in ProfilePages /\ AfterNotOk(k).said = page.said
<1>1. holder.profile \in Profile /\ holder.profile.name \in Sends \cup {Nobody}
  BY DEF ServiceTypeOK, Holder, Profile
<1>2. CASE k.op = "file"
  <2>1. AfterOk(k) = AfterProfile(page, holder.profile) /\ AfterNotOk(k) = AfterNoProfile(page)
    BY <1>2 DEF AfterOk, AfterNotOk
  <2>2. AfterProfile(page, holder.profile) \in ProfilePages /\ Says(AfterProfile(page, holder.profile), k)
    BY <1>1 DEF AfterProfile, ProfilePages, Says
  <2>3. AfterNoProfile(page) \in ProfilePages /\ (AfterNoProfile(page)).said = page.said
    BY <1>1 DEF AfterNoProfile, ProfilePages
  <2> QED BY <2>1, <2>2, <2>3
<1>3. CASE k.op = "refile"
  <2>1. AfterOk(k) = SaveReleased(AfterProfile(page, holder.profile)) /\ AfterNotOk(k) = SaveReleased(AfterNoProfile(page))
    BY <1>3 DEF AfterOk, AfterNotOk
  <2>2. SaveReleased(AfterProfile(page, holder.profile)) \in ProfilePages /\ Says(SaveReleased(AfterProfile(page, holder.profile)), k)
    BY <1>1 DEF AfterProfile, SaveReleased, ProfilePages, Says
  <2>3. SaveReleased(AfterNoProfile(page)) \in ProfilePages /\ (SaveReleased(AfterNoProfile(page))).said = page.said
    BY <1>1 DEF AfterNoProfile, SaveReleased, ProfilePages
  <2> QED BY <2>1, <2>2, <2>3
<1>4. CASE k.op = "managers"
  <2>1. \E has, asked \in BOOLEAN : AfterOk(k) = AfterManagers(page, has, asked)
    BY <1>4 DEF AfterOk
  <2>2. AfterNotOk(k) = AfterManagers(page, FALSE, FALSE)
    BY <1>4 DEF AfterNotOk
  <2>3. \A has, asked \in BOOLEAN :
          LET p == AfterManagers(page, has, asked)
          IN  p \in ProfilePages /\ p.said = page.said
    BY DEF AfterManagers, ProfilePages
  <2> QED BY <2>1, <2>2, <2>3 DEF Says
<1>5. CASE k.op = "joins"
  <2>1. AfterOk(k) = AfterJoinsRead(page, holder.manager = "asked") /\ AfterNotOk(k) = AfterNotJoined(page)
    BY <1>5 DEF AfterOk, AfterNotOk
  <2>2. AfterJoinsRead(page, holder.manager = "asked") \in ProfilePages /\ Says(AfterJoinsRead(page, holder.manager = "asked"), k)
    BY DEF AfterJoinsRead, ProfilePages, Says
  <2>3. AfterNotJoined(page) \in ProfilePages /\ (AfterNotJoined(page)).said = page.said
    BY DEF AfterNotJoined, ProfilePages
  <2> QED BY <2>1, <2>2, <2>3
<1>6. CASE k.op = "save"
  <2>1. AfterOk(k) = AfterSaved(page, k.about) /\ AfterNotOk(k) = AfterNotSaved(page)
    BY <1>6 DEF AfterOk, AfterNotOk
  <2>2. AfterSaved(page, k.about) \in ProfilePages /\ Says(AfterSaved(page, k.about), k)
    BY <1>6 DEF AfterSaved, ProfilePages, Meant, Says
  <2>3. AfterNotSaved(page) \in ProfilePages /\ (AfterNotSaved(page)).said = page.said
    BY <1>6 DEF AfterNotSaved, ProfilePages
  <2> QED BY <2>1, <2>2, <2>3
<1>7. CASE k.op = "join"
  <2>1. AfterOk(k) = AfterJoined(page, k.about) /\ AfterNotOk(k) = AfterNotJoined(page)
    BY <1>7 DEF AfterOk, AfterNotOk
  <2>2. AfterJoined(page, k.about) \in ProfilePages /\ Says(AfterJoined(page, k.about), k)
    BY <1>7 DEF AfterJoined, ProfilePages, Meant, Says
  <2>3. AfterNotJoined(page) \in ProfilePages /\ (AfterNotJoined(page)).said = page.said
    BY <1>7 DEF AfterNotJoined, ProfilePages
  <2> QED BY <2>1, <2>2, <2>3
<1>8. CASE k.op = "screens"
  BY <1>8 DEF AfterOk, AfterNotOk, Says
<1> QED BY <1>2, <1>3, <1>4, <1>5, <1>6, <1>7, <1>8 DEF AsksOf

LEMMA NotesTyped ==
  ASSUME NEW p \in NotificationsPages, NEW flag, ServiceTypeOK
  PROVE  AfterNotes(p, flag, notes) \in NotificationsPages
<1>1. notes \in SUBSET [id : Sends, read : BOOLEAN]
  BY DEF ServiceTypeOK
<1>2. Found(flag, notes) \in SUBSET [id : Sends, read : BOOLEAN]
  BY <1>1 DEF Found
<1> DEFINE unread == {n \in notes : ~n.read}
           f == [n \in unread |-> n.id]
<1>3. f \in Injection(unread, Sends)
  <2>1. f \in [unread -> Sends]
    BY <1>1
  <2>2. \A m, n \in unread : f[m] = f[n] => m = n
    BY <1>1
  <2> QED BY <2>1, <2>2 DEF Injection, IsInjective
<1>4. IsFiniteSet(Sends) /\ Cardinality(Sends) = MaxSends
  BY MaxSendsAssumption, FS_Interval DEF Sends
<1>5. IsFiniteSet(unread) /\ Cardinality(unread) <= MaxSends
  BY <1>3, <1>4, FS_Injection
<1>6. Cardinality(unread) \in 0 .. MaxSends
  BY <1>5, FS_CardinalityType, MaxSendsAssumption
<1> QED BY <1>2, <1>6 DEF AfterNotes, NotificationsPages

LEMMA HeardAtNotifications ==
  ASSUME page \in NotificationsPages, NEW k \in Asked, ServiceTypeOK,
         k.op \in {"screens"} \cup AsksOf("notifications")
  PROVE  AfterOk(k) \in NotificationsPages /\ AfterNotOk(k) \in NotificationsPages
<1>1. CASE k.op = "notes"
  BY <1>1, NotesTyped DEF AfterOk, AfterNotOk, AfterNoNotes, NotificationsPages
<1>2. CASE k.op = "renotes"
  <2>1. AfterOk(k) \in NotificationsPages
    BY <1>2, NotesTyped DEF AfterOk, MarkReleased, NotificationsPages
  <2> QED BY <1>2, <2>1 DEF AfterNotOk, AfterNoNotes, MarkReleased, NotificationsPages
<1>3. CASE k.op = "mark"
  BY <1>3 DEF AfterOk, AfterNotOk, AskingNotes, AfterNoNotes, NotificationsPages
<1>4. CASE k.op = "markAll"
  <2>1. AfterOk(k) = AskingNotes(page) /\ AfterNotOk(k) = MarkReleased(AfterNoNotes(page))
    BY <1>4 DEF AfterOk, AfterNotOk
  <2>2. AskingNotes(page) \in NotificationsPages
    BY DEF AskingNotes, NotificationsPages
  <2>3. MarkReleased(AfterNoNotes(page)) \in NotificationsPages
    BY DEF AfterNoNotes, MarkReleased, NotificationsPages
  <2> QED BY <2>1, <2>2, <2>3
<1>5. CASE k.op = "screens"
  BY <1>5 DEF AfterOk, AfterNotOk
<1> QED BY <1>1, <1>2, <1>3, <1>4, <1>5 DEF AsksOf

LEMMA HeardAtUsers ==
  ASSUME page \in UsersPages, NEW k \in Asked,
         k.op \in {"screens"} \cup AsksOf("users")
  PROVE  /\ AfterOk(k) \in UsersPages
         /\ \/ AfterOk(k).ticked = page.ticked /\ AfterOk(k).removing = page.removing
            \/ AfterOk(k).removing = {}
         /\ AfterNotOk(k) \in UsersPages
         /\ AfterNotOk(k).ticked = page.ticked /\ AfterNotOk(k).removing = page.removing
<1>1. \A filter : Listed(accounts, filter) \in SUBSET Row
  BY DEF Listed
<1> DEFINE Kept(p) == p \in UsersPages /\ p.ticked = page.ticked /\ p.removing = page.removing
<1>k. /\ Kept(AfterNoUsers(page))
      /\ Kept(UsersReleased(AfterNoUsers(page)))
      /\ Kept(AfterUsersRefused(page))
  <2>1. Kept(AfterNoUsers(page))
    BY DEF AfterNoUsers, UsersPages
  <2>2. Kept(UsersReleased(AfterNoUsers(page)))
    BY DEF AfterNoUsers, UsersReleased, UsersPages
  <2>3. Kept(AfterUsersRefused(page))
    BY DEF AfterUsersRefused, UsersPages
  <2> QED BY <2>1, <2>2, <2>3
<1>u. ASSUME NEW rows \in SUBSET Row
      PROVE  Kept(AfterUsers(page, rows)) /\ Kept(UsersReleased(AfterUsers(page, rows)))
  <2>1. Kept(AfterUsers(page, rows))
    BY DEF AfterUsers, UsersPages
  <2>2. Kept(UsersReleased(AfterUsers(page, rows)))
    BY DEF AfterUsers, UsersReleased, UsersPages
  <2> QED BY <2>1, <2>2
<1>2. CASE k.op = "users"
  <2>1. AfterOk(k) = AfterUsers(page, Listed(accounts, k.about)) /\ AfterNotOk(k) = AfterNoUsers(page)
    BY <1>2 DEF AfterOk, AfterNotOk
  <2> QED BY <1>1, <1>k, <1>u, <2>1
<1>3. CASE k.op = "reusers"
  <2>1. /\ AfterOk(k) = UsersReleased(AfterUsers(page, Listed(accounts, k.about)))
        /\ AfterNotOk(k) = UsersReleased(AfterNoUsers(page))
    BY <1>3 DEF AfterOk, AfterNotOk
  <2> QED BY <1>1, <1>k, <1>u, <2>1
<1>4. CASE k.op = "erase"
  <2>1. AfterOk(k) = AfterErased(page, k.rest) /\ AfterNotOk(k) = AfterUsersRefused(page)
    BY <1>4 DEF AfterOk, AfterNotOk
  <2>2. /\ AfterErased(page, k.rest) \in UsersPages
        /\ AfterErased(page, k.rest) = page \/ AfterErased(page, k.rest).removing = {}
    BY DEF AfterErased, Reloading, AfterRemovalClosed, UsersPages
  <2> QED BY <1>k, <2>1, <2>2
<1>5. CASE k.op \in {"update", "password"}
  <2>1. AfterOk(k) = AfterChanged(page) /\ AfterNotOk(k) = AfterUsersRefused(page)
    BY <1>5 DEF AfterOk, AfterNotOk
  <2>2. "MEMBER" \in ToSet(RoleOrder)
    BY DEF ToSet, RoleOrder
  <2>3. AfterChanged(page) \in UsersPages
    BY <2>2 DEF AfterChanged, AfterUserClosed, Reloading, UsersPages
  <2>4. AfterChanged(page).ticked = page.ticked /\ AfterChanged(page).removing = page.removing
    BY DEF AfterChanged, AfterUserClosed, Reloading, UsersPages
  <2> QED BY <1>k, <2>1, <2>3, <2>4
<1>6. CASE k.op = "screens"
  BY <1>6 DEF AfterOk, AfterNotOk
<1> QED BY <1>2, <1>3, <1>4, <1>5, <1>6 DEF AsksOf

LEMMA HeardAtRoles ==
  ASSUME page \in RolesPages, NEW k \in Asked, SystemTypeOK,
         k.op \in {"screens"} \cup AsksOf("roles")
  PROVE  AfterOk(k) \in RolesPages /\ AfterNotOk(k) \in RolesPages
<1>1. granted \in Grids /\ many \in BOOLEAN
  BY DEF SystemTypeOK
<1>2. CASE k.op = "grid"
  <2>1. AfterOk(k) = AfterGrid(page, granted, many) /\ AfterNotOk(k) = AfterNoGrid(page)
    BY <1>2 DEF AfterOk, AfterNotOk
  <2>2. AfterGrid(page, granted, many) \in RolesPages
    BY <1>1 DEF AfterGrid, RolesPages
  <2>3. AfterNoGrid(page) \in RolesPages
    BY <1>1 DEF AfterNoGrid, RolesPages
  <2> QED BY <2>1, <2>2, <2>3
<1>3. CASE k.op = "regrid"
  <2>1. AfterOk(k) = BoxReleased(AfterGrid(page, granted, many)) /\ AfterNotOk(k) = BoxReleased(AfterNoGrid(page))
    BY <1>3 DEF AfterOk, AfterNotOk
  <2>2. BoxReleased(AfterGrid(page, granted, many)) \in RolesPages
    BY <1>1 DEF AfterGrid, BoxReleased, RolesPages
  <2>3. BoxReleased(AfterNoGrid(page)) \in RolesPages
    BY <1>1 DEF AfterNoGrid, BoxReleased, RolesPages
  <2> QED BY <2>1, <2>2, <2>3
<1>4. CASE k.op = "defaults"
  <2>1. AfterOk(k) = AfterDefaults(AfterGrid(page, granted, many)) /\ AfterNotOk(k) = AfterDefaults(AfterNoGrid(page))
    BY <1>4 DEF AfterOk, AfterNotOk
  <2>2. AfterDefaults(AfterGrid(page, granted, many)) \in RolesPages
    BY <1>1 DEF AfterGrid, AfterDefaults, RolesPages
  <2>3. AfterDefaults(AfterNoGrid(page)) \in RolesPages
    BY <1>1 DEF AfterNoGrid, AfterDefaults, RolesPages
  <2> QED BY <2>1, <2>2, <2>3
<1>5. CASE k.op \in {"box", "switch"}
  <2>1. /\ AfterOk(k) \in {AfterBoxSaved(page), AfterSwitchSaved(page)}
        /\ AfterNotOk(k) = AfterBoxRefused(page)
    BY <1>5 DEF AfterOk, AfterNotOk
  <2>2. AfterBoxSaved(page) \in RolesPages /\ AfterSwitchSaved(page) \in RolesPages
    BY DEF AfterBoxSaved, AfterSwitchSaved, RolesPages
  <2>3. AfterBoxRefused(page) \in RolesPages
    BY DEF AfterBoxRefused, RolesPages
  <2> QED BY <2>1, <2>2, <2>3
<1>6. CASE k.op = "reset"
  BY <1>6 DEF AfterOk, AfterNotOk, AfterNoDefaults, RolesPages
<1>7. CASE k.op = "screens"
  BY <1>7 DEF AfterOk, AfterNotOk
<1> QED BY <1>2, <1>3, <1>4, <1>5, <1>6, <1>7 DEF AsksOf

-----------------------------------------------------------------------------
(***************************************************************************)
(* Requests, and where the browser goes.                                   *)
(***************************************************************************)

\* A request, as it is sent.
Asks(k, op, about, extra, flag, rest, filter) ==
    /\ k \in Asked
    /\ k.op = op /\ k.about = about /\ k.extra = extra /\ (k.flag <=> flag)
    /\ k.rest = rest /\ k.filter = filter /\ k.by = "page" /\ k.answer \in {"none", "401"}

LEMMA SentTyped ==
  ASSUME NEW op \in Reads \cup Writes, NEW about \in Nat, NEW extra \in Nat,
         NEW flag \in BOOLEAN, NEW holds \in BOOLEAN
  PROVE  Asks(Sent(op, about, extra, flag, holds), op, about, extra, flag, {}, 0)
<1>1. 0 \in 0 .. Len(RoleOrder)
  BY DEF RoleOrder
<1> QED BY <1>1 DEF Sent, Asks, Asked, Answers

LEMMA AskedForTyped ==
  ASSUME NEW op \in Reads \cup Writes, NEW about \in Nat, NEW extra \in Nat,
         NEW flag \in BOOLEAN
  PROVE  Asks(AskedFor(op, about, extra, flag), op, about, extra, flag, {}, 0)
<1>1. Holds' \in BOOLEAN
  BY DEF Holds
<1> QED BY <1>1, SentTyped DEF AskedFor

LEMMA AskedOfTyped ==
  ASSUME NEW op \in Reads \cup Writes, NEW about \in Nat, NEW extra \in Nat,
         NEW flag \in BOOLEAN, NEW rest \in SUBSET Accounts,
         NEW filter \in 0 .. Len(RoleOrder)
  PROVE  Asks(AskedOf(op, about, extra, flag, rest, filter),
              op, about, extra, flag, rest, filter)
<1> DEFINE j == AskedFor(op, about, extra, flag)
<1>1. Asks(j, op, about, extra, flag, {}, 0)
  BY AskedForTyped
<1> HIDE DEF j
<1>2. AskedOf(op, about, extra, flag, rest, filter) = [j EXCEPT !.rest = rest, !.filter = filter]
  BY DEF AskedOf, j
<1> QED BY <1>1, <1>2 DEF Asked, Asks

LEMMA AskedToEraseTyped ==
  ASSUME NEW ids \in SUBSET Accounts, ids # {}, NEW filter \in 0 .. Len(RoleOrder)
  PROVE  \E id \in ids :
           Asks(AskedToErase(ids, filter), "erase", id, 0, FALSE, ids \ {id}, filter)
<1>1. ids \subseteq Nat /\ IsFiniteSet(ids)
  BY AccountsAssumption, FS_Subset
<1>2. NextOf(ids) \in ids
  BY <1>1, MaxIsLast DEF NextOf
<1>3. NextOf(ids) \in Nat /\ ids \ {NextOf(ids)} \in SUBSET Accounts
  BY <1>1, <1>2
<1>4. "erase" \in Reads \cup Writes /\ 0 \in Nat /\ FALSE \in BOOLEAN
  BY DEF Writes
<1> QED BY <1>2, <1>3, <1>4, AskedOfTyped DEF AskedToErase

\* A request, that the page or no page waits for.
Sound(k, screen) == k \in Asked /\ Meant(k) /\ OfPage(k, screen)

LEMMA FirstReadsSound ==
  ASSUME NEW f, NEW holds \in BOOLEAN
  PROVE  /\ \A k \in FirstReads(f, holds) :
              Sound(k, PageAt(f.path, FALSE).screen) /\ k.op \in Reads
         /\ \A k, l \in FirstReads(f, holds) : OfGrid(k) /\ OfGrid(l) => k = l
<1> DEFINE Read(op, about) == Sent(op, about, 0, FALSE, holds)
<1>1. ASSUME NEW op \in Reads, NEW about \in Nat
      PROVE  Asks(Read(op, about), op, about, 0, FALSE, {}, 0)
  BY SentTyped
<1> HIDE DEF Read
<1>2. ASSUME NEW op \in Reads \ {"lookup", "days"}
      PROVE  \A screen : op \in {"screens"} \cup AsksOf(screen) =>
               Sound(Read(op, 0), screen) /\ Read(op, 0).op = op
  BY <1>1 DEF Asks, Reads, Sound, Meant, OfPage
<1>3. Sound(Read("days", FirstRange), "history") /\ Read("days", FirstRange).op = "days"
  BY <1>1, FirstOfEach, RangesAssumption DEF Asks, Reads, Sound, Meant, OfPage, AsksOf
<1>4. \A screen : Sound(Read("screens", 0), screen) /\ Read("screens", 0).op = "screens"
  BY <1>2 DEF Reads
<1>5. /\ Sound(Read("file", 0), "profile") /\ Read("file", 0).op = "file"
      /\ Sound(Read("managers", 0), "profile") /\ Read("managers", 0).op = "managers"
      /\ Sound(Read("list", 0), "corrections") /\ Read("list", 0).op = "list"
      /\ Sound(Read("notes", 0), "notifications") /\ Read("notes", 0).op = "notes"
      /\ Sound(Read("users", 0), "users") /\ Read("users", 0).op = "users"
      /\ Sound(Read("grid", 0), "roles") /\ Read("grid", 0).op = "grid"
  BY <1>2 DEF Reads, AsksOf
<1>6. ASSUME NEW k \in FirstReads(f, holds)
      PROVE  \/ k = Read("screens", 0)
             \/ f.path = ProfilePath /\ k \in {Read("file", 0), Read("managers", 0)}
             \/ f.path = <<"corrections">> /\ k = Read("list", 0)
             \/ f.path = <<"history">> /\ k = Read("days", FirstRange)
             \/ f.path = <<"notifications">> /\ k = Read("notes", 0)
             \/ f.path = <<"admin", "users">> /\ k = Read("users", 0)
             \/ f.path = <<"admin", "roles">> /\ k = Read("grid", 0)
  BY <1>6 DEF FirstReads, ProfilePath, Read
<1>7. /\ PageAt(ProfilePath, FALSE).screen = "profile"
      /\ PageAt(<<"corrections">>, FALSE).screen = "corrections"
      /\ PageAt(<<"history">>, FALSE).screen = "history"
      /\ PageAt(<<"notifications">>, FALSE).screen = "notifications"
      /\ PageAt(<<"admin", "users">>, FALSE).screen = "users"
      /\ PageAt(<<"admin", "roles">>, FALSE).screen = "roles"
  BY DEF PageAt, SignInPath, ProfilePath, OpenedProfile, OpenedCorrections,
     OpenedHistory, OpenedNotifications, OpenedUsers, OpenedRoles
<1>8. ASSUME NEW k \in FirstReads(f, holds)
      PROVE  /\ Sound(k, PageAt(f.path, FALSE).screen) /\ k.op \in Reads
             /\ OfGrid(k) => k = Read("grid", 0)
  BY <1>3, <1>4, <1>5, <1>6, <1>7 DEF Reads, OfGrid
<1> QED BY <1>8

\* Two that differ at most in who waits for them.
Same(k, l) ==
    /\ k.op = l.op /\ k.about = l.about /\ k.extra = l.extra /\ k.rest = l.rest
    /\ k.answer = l.answer /\ (k.flag <=> l.flag)

LEMMA WaitedForBy ==
  ASSUME NEW l \in Asked, NEW by \in {"page", "past", "lost"}
  PROVE  LET k == [l EXCEPT !.by = by]
         IN  k \in Asked /\ k.by = by /\ Same(k, l) /\ (Meant(l) => Meant(k))
<1> DEFINE k == [l EXCEPT !.by = by]
<1>1. k \in Asked /\ k.by = by /\ Same(k, l)
  BY DEF Asked, Same
<1> HIDE DEF k
<1>2. Meant(l) => Meant(k)
  BY <1>1 DEF Same, Meant
<1> QED BY <1>1, <1>2 DEF k

LEMMA PastOf ==
  ASSUME NEW asked \in SUBSET Asked, NEW k \in Past(asked)
  PROVE  /\ k \in Asked /\ k.by # "page"
         /\ \E l \in asked :
              /\ k = [l EXCEPT !.by = IF l.by = "lost" THEN "lost" ELSE "past"]
              /\ Same(k, l) /\ (Meant(l) => Meant(k))
<1>1. PICK l \in asked : k = [l EXCEPT !.by = IF l.by = "lost" THEN "lost" ELSE "past"]
  BY DEF Past
<1>2. k \in Asked /\ k.by # "page" /\ Same(k, l) /\ (Meant(l) => Meant(k))
  BY <1>1, WaitedForBy
<1> QED BY <1>1, <1>2

\* What is on screen, and who waits for what.
Screened ==
    /\ frame \in Frames /\ page \in Pages
    /\ frame.path = SignInPath => page.screen = "login"
    /\ \A k \in calls : Sound(k, page.screen)

LEMMA TypedParts ==
  BrowserTyped <=> TypeOK /\ ServiceTypeOK /\ SystemTypeOK /\ left \in Bound /\ Screened
  BY DEF BrowserTyped, BrowserTypeOK, OfThisPage, Screened, Sound, Pages

LEMMA TypedPartsNext ==
  BrowserTyped' <=> (TypeOK /\ ServiceTypeOK /\ SystemTypeOK /\ left \in Bound /\ Screened)'
  BY TypedParts, PTL

LEMMA GoesScreened ==
  ASSUME NEW f \in Frames, NEW p, Fresh(p), p.screen = PageAt(f.path, FALSE).screen,
         NEW asked, \A k \in asked : k \in Asked /\ Meant(k), Goes(f, p, asked)
  PROVE  Screened'
<1>1. Holds' \in BOOLEAN
  BY DEF Holds
<1>2. frame' = f /\ page' = p /\ calls' = Past(asked) \cup FirstReads(f, Holds')
  BY DEF Goes
<1>3. p \in Pages /\ (f.path = SignInPath => p.screen = "login")
  BY PageAtFresh DEF Fresh
<1>4. \A k \in Past(asked) : Sound(k, p.screen)
  BY PastOf DEF Sound, OfPage
<1>5. \A k \in FirstReads(f, Holds') : Sound(k, p.screen)
  BY <1>1, FirstReadsSound
<1> QED BY <1>2, <1>3, <1>4, <1>5 DEF Screened, Sound, Meant, OfPage

LEMMA BecomesScreened ==
  ASSUME Screened, NEW f \in Frames, NEW p \in Pages, p.screen = page.screen,
         NEW asked, \A k \in asked : Sound(k, page.screen), Becomes(f, p, asked)
  PROVE  Screened'
<1>1. CASE f.path # frame.path
  <2>1. Goes(f, PageAt(f.path, FALSE), asked)
    BY <1>1 DEF Becomes
  <2>2. Fresh(PageAt(f.path, FALSE))
    BY PageAtFresh
  <2>3. \A k \in asked : k \in Asked /\ Meant(k)
    BY DEF Sound
  <2> QED BY <2>1, <2>2, <2>3, GoesScreened
<1>2. CASE f.path = frame.path
  <2>1. frame' = f /\ page' = p /\ calls' = asked
    BY <1>2 DEF Becomes
  <2>2. frame' \in Frames /\ page' \in Pages /\ page'.screen = page.screen
    BY <2>1
  <2>3. frame'.path = SignInPath => page'.screen = "login"
    BY <1>2, <2>1 DEF Screened
  <2>4. \A k \in calls' : Sound(k, page'.screen)
    BY <2>1, <2>2
  <2> QED BY <2>2, <2>3, <2>4 DEF Screened, Sound, Meant, OfPage
<1> QED BY <1>1, <1>2

\* Whoever waited for k waits for what its handler asks for next.
Passed(k, asked) == {[a EXCEPT !.by = IF a.by = "lost" THEN "lost" ELSE k.by] : a \in asked}

LEMMA HeardScreened ==
  ASSUME Screened, NEW k \in calls, NEW f \in Frames, NEW p,
         k.by = "page" => p \in Pages /\ p.screen = page.screen,
         NEW asked,
         \A a \in asked : /\ a \in Asked /\ Meant(a)
                          /\ k.by = "page" => OfPage([a EXCEPT !.by = "page"], page.screen),
         Heard(k, p, f, asked)
  PROVE  Screened'
<1>1. k \in Asked /\ k.by \in {"page", "past", "lost"}
  BY DEF Screened, Sound, Asked
<1>2. \A a \in Passed(k, asked) : Sound(a, page.screen)
  <2>1. SUFFICES ASSUME NEW b \in asked,
                        NEW by \in {"lost", k.by}
                 PROVE  Sound([b EXCEPT !.by = by], page.screen)
    BY DEF Passed
  <2>a. b \in Asked /\ Meant(b) /\ by \in {"page", "past", "lost"}
    BY <1>1
  <2>2. /\ [b EXCEPT !.by = by] \in Asked /\ [b EXCEPT !.by = by].by = by
        /\ Meant([b EXCEPT !.by = by])
    BY <2>a, WaitedForBy
  <2>3. by = "page" => OfPage([b EXCEPT !.by = by], page.screen)
    BY <1>1
  <2> QED BY <2>2, <2>3 DEF Sound, OfPage
<1> DEFINE q == IF k.by = "page" THEN p ELSE page
           all == (calls \ {k}) \cup Passed(k, asked)
<1>3. q \in Pages /\ q.screen = page.screen
  BY DEF Screened
<1>4. \A a \in all : Sound(a, page.screen)
  BY <1>2 DEF Screened
<1>5. Becomes(f, q, all)
  BY DEF Heard, Passed
<1> HIDE DEF q, all
<1> QED BY <1>3, <1>4, <1>5, BecomesScreened

-----------------------------------------------------------------------------
(***************************************************************************)
(* What the handlers ask for next.                                         *)
(***************************************************************************)

\* A request of a kind that was just sent.
Follows(a, op) ==
    a \in Asked /\ Meant(a) /\ a.by = "page" /\ a.answer \in {"none", "401"} /\ a.op = op

LEMMA ReadFollows ==
  ASSUME NEW op \in Reads \ {"lookup", "days"}, NEW about \in Nat, NEW flag \in BOOLEAN
  PROVE  Follows(AskedFor(op, about, 0, flag), op)
<1>1. op \in Reads \cup Writes /\ 0 \in Nat
  OBVIOUS
<1>2. Asks(AskedFor(op, about, 0, flag), op, about, 0, flag, {}, 0)
  BY <1>1, AskedForTyped
<1> QED BY <1>2 DEF Asks, Meant, Reads, Follows

LEMMA AsksNextSound ==
  ASSUME NEW k \in Asked, Meant(k), NEW a \in AsksNext(k)
  PROVE  /\ Follows(a, a.op)
         /\ \A screen : k.op \in AsksOf(screen) => a.op \in AsksOf(screen)
         /\ \/ a.op \in Reads
            \/ a.op = "first"
            \/ a.op = "erase" /\ k.op = "erase" /\ a.about \in k.rest /\ a.rest \subseteq k.rest
<1>f. /\ k.about \in Nat /\ k.flag \in BOOLEAN /\ k.filter \in 0 .. Len(RoleOrder)
      /\ k.filter \in Nat /\ k.rest \in SUBSET Accounts
  BY DEF Asked, RoleOrder
<1>0. 0 \in Nat /\ FALSE \in BOOLEAN
  OBVIOUS
<1>r. {"landing", "relist", "list", "refile", "managers", "joins", "notes", "renotes",
       "reusers", "regrid", "defaults"} \subseteq Reads \ {"lookup", "days"}
  BY DEF Reads
<1> DEFINE reads(op, next) == k.op = op => Follows(a, next)
<1>1. reads("login", "landing") /\ reads("create", "relist") /\ reads("withdraw", "list")
  BY <1>0, <1>r, ReadFollows DEF AsksNext
<1>2. reads("join", "joins") /\ reads("mark", "notes") /\ reads("markAll", "renotes")
  BY <1>0, <1>f, <1>r, ReadFollows DEF AsksNext
<1>3. reads("switch", "regrid") /\ reads("reset", "defaults")
  BY <1>0, <1>r, ReadFollows DEF AsksNext
<1>4. k.op \in {"update", "password"} \/ (k.op = "erase" /\ k.rest = {}) => Follows(a, "reusers")
  BY <1>0, <1>f, <1>r, ReadFollows DEF AsksNext
<1>5. k.op = "save" => Follows(a, "refile") \/ Follows(a, "managers")
  BY <1>0, <1>r, ReadFollows DEF AsksNext
<1>6. k.op = "register" => Follows(a, "first")
  <2>1. SUFFICES ASSUME k.op = "register" PROVE Follows(a, "first")
    OBVIOUS
  <2>2. a = AskedFor("first", k.about, 0, k.flag)
    BY <2>1 DEF AsksNext
  <2>3. "first" \in Reads \cup Writes
    BY DEF Writes
  <2>4. Asks(a, "first", k.about, 0, k.flag, {}, 0)
    BY <1>0, <1>f, <2>2, <2>3, AskedForTyped
  <2> QED BY <2>1, <2>4 DEF Follows, Asks, Meant
<1>7. k.op = "erase" /\ k.rest # {} =>
        Follows(a, "erase") /\ a.about \in k.rest /\ a.rest \subseteq k.rest
  <2>1. SUFFICES ASSUME k.op = "erase", k.rest # {}
                 PROVE  Follows(a, "erase") /\ a.about \in k.rest /\ a.rest \subseteq k.rest
    OBVIOUS
  <2>2. a = AskedToErase(k.rest, k.filter)
    BY <2>1 DEF AsksNext
  <2>3. PICK id \in k.rest : Asks(a, "erase", id, 0, FALSE, k.rest \ {id}, k.filter)
    BY <1>f, <2>1, <2>2, AskedToEraseTyped
  <2> QED BY <1>f, <2>3 DEF Follows, Asks, Meant
<1>8. k.op \in {"login", "register", "create", "withdraw", "save", "join", "mark", "markAll",
                "erase", "update", "password", "switch", "reset"}
  BY DEF AsksNext
<1>a. \A op : Follows(a, op) => a.op = op /\ Follows(a, a.op)
  BY DEF Follows
<1>9. \/ k.op = "login" /\ a.op = "landing"
      \/ k.op = "register" /\ a.op = "first"
      \/ k.op \in {"create", "withdraw"} /\ a.op \in {"list", "relist"}
      \/ k.op \in {"save", "join"} /\ a.op \in {"refile", "managers", "joins"}
      \/ k.op \in {"mark", "markAll"} /\ a.op \in {"notes", "renotes"}
      \/ k.op \in {"erase", "update", "password"} /\ a.op \in {"erase", "reusers"}
      \/ k.op \in {"switch", "reset"} /\ a.op \in {"regrid", "defaults"}
  BY <1>1, <1>2, <1>3, <1>4, <1>5, <1>6, <1>7, <1>8, <1>a
<1>10. Follows(a, a.op)
  BY <1>1, <1>2, <1>3, <1>4, <1>5, <1>6, <1>7, <1>8, <1>a
<1>11. \A screen : k.op \in AsksOf(screen) => a.op \in AsksOf(screen)
  BY <1>9 DEF AsksOf
<1>12. \/ a.op \in Reads
       \/ a.op = "first"
       \/ a.op = "erase" /\ k.op = "erase" /\ a.about \in k.rest /\ a.rest \subseteq k.rest
  <2>1. k.op = "erase" => k.rest # {} \/ a.op = "reusers"
    BY <1>4, <1>a
  <2>2. CASE k.op = "erase"
    BY <2>1, <2>2, <1>7, <1>a, <1>r
  <2>3. CASE k.op \in {"update", "password"}
    BY <2>3, <1>4, <1>a, <1>r
  <2> QED BY <1>9, <1>r, <2>2, <2>3
<1> QED BY <1>10, <1>11, <1>12

LEMMA AsksAfterFailureSound ==
  ASSUME NEW k \in Asked, NEW a \in AsksAfterFailure(k)
  PROVE  Follows(a, "regrid") /\ a = AskedFor("regrid", 0, 0, FALSE) /\ k.op \in {"box", "switch"}
<1>1. a = AskedFor("regrid", 0, 0, FALSE) /\ k.op \in {"box", "switch"}
  BY DEF AsksAfterFailure
<1>2. "regrid" \in Reads \ {"lookup", "days"} /\ 0 \in Nat /\ FALSE \in BOOLEAN
  BY DEF Reads
<1> QED BY <1>1, <1>2, ReadFollows

-----------------------------------------------------------------------------
(***************************************************************************)
(* What the server keeps has its type.                                     *)
(***************************************************************************)

LEMMA MemberEffectTyped ==
  ASSUME ServiceTypeOK, NEW k \in Asked, Meant(k), MemberEffect(k)
  PROVE  ServiceTypeOK'
<1>1. CASE k.op \in {"login", "register", "change"}
  BY <1>1 DEF MemberEffect, service, ServiceTypeOK
<1>2. CASE k.op \in {"first", "save"}
  <2>1. PICK name \in Sends \cup {Nobody}, department \in {"none", "given"} :
          SaveProfile(k.about, name, department)
    BY <1>2 DEF MemberEffect, Meant
  <2>2. k.about \in Sends
    BY <1>2 DEF Meant
  <2>3. holder' \in Holder
    BY <2>1 DEF SaveProfile, ServiceTypeOK, Holder, Profile
  <2> QED BY <2>1, <2>2, <2>3 DEF SaveProfile, ServiceTypeOK
<1>3. CASE k.op = "create"
  <2>1. File(k.about, k.extra, k.flag) /\ k.about \in Sends /\ k.extra \in Dates /\ k.flag \in BOOLEAN
    BY <1>3 DEF MemberEffect, Meant, Asked
  <2>2. [date |-> k.extra, times |-> k.flag, status |-> "PENDING"] \in Request
    BY <2>1 DEF Request, Statuses
  <2>3. DOMAIN filed' \subseteq Sends /\ \A id \in DOMAIN filed' : filed'[id] \in Request
    BY <2>1, <2>2 DEF File, ServiceTypeOK
  <2> QED BY <2>1, <2>3 DEF File, ServiceTypeOK
<1>4. CASE k.op = "withdraw"
  <2>1. Withdraw(k.about)
    BY <1>4 DEF MemberEffect
  <2>2. DOMAIN filed' \subseteq Sends /\ \A id \in DOMAIN filed' : filed'[id] \in Request
    BY <2>1 DEF Withdraw, ServiceTypeOK, Request
  <2> QED BY <2>1, <2>2 DEF Withdraw, ServiceTypeOK
<1>5. CASE k.op = "join"
  <2>1. AskToJoin(k.about) /\ k.about \in Sends
    BY <1>5 DEF MemberEffect, Meant
  <2>2. holder' \in Holder
    BY <2>1 DEF AskToJoin, ServiceTypeOK, Holder
  <2> QED BY <2>1, <2>2 DEF AskToJoin, ServiceTypeOK
<1>6. CASE k.op \in {"mark", "markAll"}
  <2>1. PICK ids : Mark(ids)
    BY <1>6 DEF MemberEffect
  <2>2. notes' \subseteq [id : Sends, read : BOOLEAN]
    BY <2>1 DEF Mark, ServiceTypeOK
  <2> QED BY <2>1, <2>2 DEF Mark, ServiceTypeOK
<1> QED BY <1>1, <1>2, <1>3, <1>4, <1>5, <1>6 DEF MemberEffect

\* Erasing and changing accounts, whoever does it.
LEMMA AdminEffectTyped ==
  ASSUME SystemTypeOK, NEW k \in Asked, Meant(k), AdminEffect(k)
  PROVE  SystemTypeOK'
<1>1. CASE k.op = "erase"
  BY <1>1 DEF AdminEffect, EraseAccount, SystemTypeOK
<1>2. CASE k.op = "update"
  <2>1. UpdateAccount(k.about, RoleOrder[k.extra], k.flag)
    BY <1>2 DEF AdminEffect
  <2>2. RoleOrder[k.extra] \in ToSet(RoleOrder)
    BY <1>2 DEF Meant, ToSet
  <2>3. [role |-> RoleOrder[k.extra], active |-> k.flag] \in Account
    BY <2>2 DEF Account, Asked
  <2> QED BY <2>1, <2>3 DEF UpdateAccount, SystemTypeOK
<1>3. CASE k.op = "password"
  BY <1>3 DEF AdminEffect, SetPassword, system, SystemTypeOK
<1>4. CASE k.op = "box"
  <2>1. SetPermission(k.about, Actions[k.extra], k.flag) /\ crossed' = (crossed \/ k.by # "page")
    BY <1>4 DEF AdminEffect
  <2>2. k.about \in DOMAIN PermissionRows /\ Actions[k.extra] \in ToSet(Actions)
    BY <1>4 DEF Meant, Boxes, ToSet
  <2>3. granted' \in Grids
    BY <2>1, <2>2 DEF SetPermission, SystemTypeOK, Grids
  <2> QED BY <2>1, <2>3 DEF SetPermission, SystemTypeOK
<1>5. CASE k.op = "switch"
  BY <1>5 DEF AdminEffect, SetPolicy, SystemTypeOK, Asked
<1>6. CASE k.op = "reset"
  <2>1. DefaultPermissions \in Grids
    BY DEF DefaultPermissions, Grids, PermissionRows, ToSet, Actions
  <2> QED BY <1>6, <2>1 DEF AdminEffect, ResetPermissions, SystemTypeOK
<1> QED BY <1>1, <1>2, <1>3, <1>4, <1>5, <1>6 DEF AdminEffect

LEMMA ReviewingTyped == ServiceTypeOK /\ Reviewing => ServiceTypeOK'
<1> SUFFICES ASSUME ServiceTypeOK, NEW r \in Reviewers,
                    ReviewReads(r) \/ ReviewWrites(r) \/ ReviewCommits(r) \/ ReviewAborts(r)
             PROVE  ServiceTypeOK'
  BY DEF Reviewing
<1>0. reviews[r] \in Review
  BY DEF ServiceTypeOK
<1>1. CASE ReviewReads(r)
  <2>1. PICK id \in DOMAIN filed, approve \in BOOLEAN :
          Turns(r, [stage |-> "read", id |-> id, approve |-> approve])
    BY <1>1 DEF ReviewReads
  <2>2. [stage |-> "read", id |-> id, approve |-> approve] \in Review
    BY <2>1 DEF ServiceTypeOK, Review
  <2> QED BY <1>1, <2>1, <2>2 DEF ReviewReads, Turns, ServiceTypeOK
<1>2. CASE ReviewWrites(r)
  <2>1. [reviews[r] EXCEPT !.stage = "written"] \in Review
    BY <1>0, <1>2 DEF ReviewWrites, Review
  <2> QED BY <1>2, <2>1 DEF ReviewWrites, Turns, ServiceTypeOK
<1>3. CASE ReviewCommits(r)
  <2>1. reviews[r].id \in Sends
    BY <1>0, <1>3 DEF ReviewCommits, Review
  <2>2. [stage |-> "idle"] \in Review
    BY DEF Review
  <2>3. DOMAIN filed' \subseteq Sends /\ \A id \in DOMAIN filed' : filed'[id] \in Request
    BY <1>3 DEF ReviewCommits, ServiceTypeOK, Request, Statuses
  <2>4. applied' \subseteq Sends
    BY <1>3, <2>1 DEF ReviewCommits, ServiceTypeOK
  <2>5. notes' \subseteq [id : Sends, read : BOOLEAN]
    <3>1. [id |-> reviews[r].id, read |-> FALSE] \in [id : Sends, read : BOOLEAN]
      BY <2>1
    <3>2. notes' = {n \in notes : n.id # reviews[r].id}
                     \cup {[id |-> reviews[r].id, read |-> FALSE]}
      BY <1>3 DEF ReviewCommits
    <3> QED BY <3>1, <3>2 DEF ServiceTypeOK
  <2> QED BY <1>3, <2>2, <2>3, <2>4, <2>5 DEF ReviewCommits, Turns, ServiceTypeOK
<1>4. CASE ReviewAborts(r)
  BY <1>4 DEF ReviewAborts, Turns, ServiceTypeOK, Review
<1> QED BY <1>1, <1>2, <1>3, <1>4

LEMMA DecideJoinTyped == ServiceTypeOK /\ DecideJoin => ServiceTypeOK'
<1> SUFFICES ASSUME ServiceTypeOK, DecideJoin PROVE ServiceTypeOK'
  OBVIOUS
<1>1. holder \in Holder /\ holder.profile \in Profile
  BY DEF ServiceTypeOK, Holder
<1>2. [holder.profile EXCEPT !.department = "given"] \in Profile
  BY <1>1 DEF Profile
<1>3. CASE holder' = [holder EXCEPT !.manager = "has", !.profile.department = "given"]
  <2>1. holder' = [holder EXCEPT !.manager = "has",
                     !.profile = [holder.profile EXCEPT !.department = "given"]]
    BY <1>1, <1>3 DEF Holder
  <2> QED BY <1>1, <1>2, <2>1 DEF Holder, DecideJoin, ServiceTypeOK
<1>4. CASE holder' = [holder EXCEPT !.manager = "none"]
  BY <1>1, <1>4 DEF Holder, DecideJoin, ServiceTypeOK
<1> QED BY <1>3, <1>4 DEF DecideJoin

LEMMA OtherAdministersTyped == SystemTypeOK /\ OtherAdministers => SystemTypeOK'
  BY DEF OtherAdministers, SystemTypeOK, Account

LEMMA SpendTyped ==
  ASSUME left \in Bound, NEW what \in {"moves", "fills", "sends", "others", "signins"},
         Spend(what)
  PROVE  /\ left' \in Bound /\ left'.sends <= left.sends /\ left'.signins <= left.signins
         /\ left'.secrets = left.secrets
<1>1. left' = [left EXCEPT ![what] = left[what] - 1] /\ left[what] > 0
  BY DEF Spend
<1>2. /\ left.moves \in Nat /\ left.fills \in Nat /\ left.others \in Nat
      /\ left.sends \in Int /\ left.sends \in 0 .. MaxSends
      /\ left.signins \in Int /\ left.signins \in 0 .. 1
  BY MaxSendsAssumption DEF Bound
<1>3. left.sends <= left.sends /\ left.signins <= left.signins
  BY <1>2
<1>4. CASE what = "moves"
  <2>1. left' = [left EXCEPT !.moves = left.moves - 1] /\ left.moves > 0
    BY <1>1, <1>4
  <2>2. left.moves - 1 \in Nat /\ left.moves - 1 <= left.moves
    BY <1>2, <2>1, MaxSendsAssumption
  <2>3. left' \in Bound
    BY <2>1, <2>2 DEF Bound
  <2>4. /\ left'.sends \in {left.sends, left.sends - 1}
        /\ left'.signins \in {left.signins, left.signins - 1}
        /\ left'.secrets = left.secrets
    BY <2>1 DEF Bound
  <2> QED BY <1>2, <2>3, <2>4
<1>5. CASE what = "fills"
  <2>1. left' = [left EXCEPT !.fills = left.fills - 1] /\ left.fills > 0
    BY <1>1, <1>5
  <2>2. left.fills - 1 \in Nat /\ left.fills - 1 <= left.fills
    BY <1>2, <2>1, MaxSendsAssumption
  <2>3. left' \in Bound
    BY <2>1, <2>2 DEF Bound
  <2>4. /\ left'.sends \in {left.sends, left.sends - 1}
        /\ left'.signins \in {left.signins, left.signins - 1}
        /\ left'.secrets = left.secrets
    BY <2>1 DEF Bound
  <2> QED BY <1>2, <2>3, <2>4
<1>6. CASE what = "others"
  <2>1. left' = [left EXCEPT !.others = left.others - 1] /\ left.others > 0
    BY <1>1, <1>6
  <2>2. left.others - 1 \in Nat /\ left.others - 1 <= left.others
    BY <1>2, <2>1, MaxSendsAssumption
  <2>3. left' \in Bound
    BY <2>1, <2>2 DEF Bound
  <2>4. /\ left'.sends \in {left.sends, left.sends - 1}
        /\ left'.signins \in {left.signins, left.signins - 1}
        /\ left'.secrets = left.secrets
    BY <2>1 DEF Bound
  <2> QED BY <1>2, <2>3, <2>4
<1>7. CASE what = "sends"
  <2>1. left' = [left EXCEPT !.sends = left.sends - 1] /\ left.sends > 0
    BY <1>1, <1>7
  <2>2. left.sends - 1 \in 0 .. MaxSends /\ left.sends - 1 <= left.sends
    BY <1>2, <2>1, MaxSendsAssumption
  <2>3. left' \in Bound
    BY <2>1, <2>2 DEF Bound
  <2>4. /\ left'.sends \in {left.sends, left.sends - 1}
        /\ left'.signins \in {left.signins, left.signins - 1}
        /\ left'.secrets = left.secrets
    BY <2>1 DEF Bound
  <2> QED BY <1>2, <2>3, <2>4
<1>8. CASE what = "signins"
  <2>1. left' = [left EXCEPT !.signins = left.signins - 1] /\ left.signins > 0
    BY <1>1, <1>8
  <2>2. left.signins - 1 \in 0 .. 1 /\ left.signins - 1 <= left.signins
    BY <1>2, <2>1, MaxSendsAssumption
  <2>3. left' \in Bound
    BY <2>1, <2>2 DEF Bound
  <2>4. /\ left'.sends \in {left.sends, left.sends - 1}
        /\ left'.signins \in {left.signins, left.signins - 1}
        /\ left'.secrets = left.secrets
    BY <2>1 DEF Bound
  <2> QED BY <1>2, <2>3, <2>4
<1> QED BY <1>4, <1>5, <1>6, <1>7, <1>8

-----------------------------------------------------------------------------
(***************************************************************************)
(* What is on screen, and what is asked for, has its type: the answers.    *)
(***************************************************************************)

LEMMA HeardOnScreen ==
  ASSUME BrowserTyped, NEW k \in calls, k.by = "page"
  PROVE  /\ AfterOk(k) \in Pages /\ AfterOk(k).screen = page.screen
         /\ AfterNotOk(k) \in Pages /\ AfterNotOk(k).screen = page.screen
         /\ page.screen \in {"corrections", "profile"} =>
              Says(AfterOk(k), k) /\ AfterNotOk(k).said = page.said
         /\ page.screen = "users" =>
              /\ \/ AfterOk(k).removing = {}
                 \/ AfterOk(k).ticked = page.ticked /\ AfterOk(k).removing = page.removing
              /\ AfterNotOk(k).ticked = page.ticked /\ AfterNotOk(k).removing = page.removing
<1>0. /\ k \in Asked /\ Meant(k) /\ k.op \in {"screens"} \cup AsksOf(page.screen)
      /\ page \in Pages /\ ServiceTypeOK /\ SystemTypeOK /\ left \in Bound
  BY TypedParts DEF Screened, Sound, OfPage
<1>1. CASE page.screen = "login"
  <2>1. page \in SignInPages
    BY <1>0, <1>1, PageOfScreen
  <2>2. AfterOk(k) \in SignInPages /\ AfterNotOk(k) \in SignInPages
    BY <1>0, <1>1, <2>1, HeardAtSignIn
  <2> QED BY <1>1, <2>2 DEF Pages, SignInPages
<1>2. CASE page.screen = "password"
  <2>1. page \in PasswordPages
    BY <1>0, <1>2, PageOfScreen
  <2>2. AfterOk(k) \in PasswordPages /\ AfterNotOk(k) \in PasswordPages
    BY <1>0, <1>2, <2>1, HeardAtPassword
  <2> QED BY <1>2, <2>2 DEF Pages, PasswordPages
<1>3. CASE page.screen = "corrections"
  <2>1. page \in CorrectionsPages
    BY <1>0, <1>3, PageOfScreen
  <2>2. /\ AfterOk(k) \in CorrectionsPages /\ Says(AfterOk(k), k)
        /\ AfterNotOk(k) \in CorrectionsPages /\ AfterNotOk(k).said = page.said
    BY <1>0, <1>3, <2>1, HeardAtCorrections
  <2> QED BY <1>3, <2>2 DEF Pages, CorrectionsPages
<1>4. CASE page.screen = "history"
  <2>1. page \in HistoryPages
    BY <1>0, <1>4, PageOfScreen
  <2>2. AfterOk(k) \in HistoryPages /\ AfterNotOk(k) \in HistoryPages
    BY <1>0, <1>4, <2>1, HeardAtHistory
  <2> QED BY <1>4, <2>2 DEF Pages, HistoryPages
<1>5. CASE page.screen = "profile"
  <2>1. page \in ProfilePages
    BY <1>0, <1>5, PageOfScreen
  <2>2. /\ AfterOk(k) \in ProfilePages /\ Says(AfterOk(k), k)
        /\ AfterNotOk(k) \in ProfilePages /\ AfterNotOk(k).said = page.said
    BY <1>0, <1>5, <2>1, HeardAtProfile
  <2> QED BY <1>5, <2>2 DEF Pages, ProfilePages
<1>6. CASE page.screen = "notifications"
  <2>1. page \in NotificationsPages
    BY <1>0, <1>6, PageOfScreen
  <2>2. AfterOk(k) \in NotificationsPages /\ AfterNotOk(k) \in NotificationsPages
    BY <1>0, <1>6, <2>1, HeardAtNotifications
  <2> QED BY <1>6, <2>2 DEF Pages, NotificationsPages
<1>7. CASE page.screen = "users"
  <2>1. page \in UsersPages
    BY <1>0, <1>7, PageOfScreen
  <2>2. /\ AfterOk(k) \in UsersPages
        /\ \/ AfterOk(k).ticked = page.ticked /\ AfterOk(k).removing = page.removing
           \/ AfterOk(k).removing = {}
        /\ AfterNotOk(k) \in UsersPages
        /\ AfterNotOk(k).ticked = page.ticked /\ AfterNotOk(k).removing = page.removing
    BY <1>0, <1>7, <2>1, HeardAtUsers
  <2>3. AfterOk(k).screen = "users" /\ AfterNotOk(k).screen = "users"
    BY <2>2 DEF UsersPages
  <2> QED BY <1>7, <2>2, <2>3 DEF Pages
<1>8. CASE page.screen = "roles"
  <2>1. page \in RolesPages
    BY <1>0, <1>8, PageOfScreen
  <2>2. AfterOk(k) \in RolesPages /\ AfterNotOk(k) \in RolesPages
    BY <1>0, <1>8, <2>1, HeardAtRoles
  <2> QED BY <1>8, <2>2 DEF Pages, RolesPages
<1>9. CASE page.screen = "other"
  <2>1. k.op = "screens"
    BY <1>0, <1>9 DEF AsksOf
  <2>2. AfterOk(k) = page /\ AfterNotOk(k) = page
    BY <2>1 DEF AfterOk, AfterNotOk
  <2> QED BY <1>0, <1>9, <2>2
<1> QED BY <1>0, <1>1, <1>2, <1>3, <1>4, <1>5, <1>6, <1>7, <1>8, <1>9, PageOfScreen

LEMMA LeadsTyped ==
  ASSUME BrowserTyped, NEW k \in calls
  PROVE  Leads(k) \in Addresses
<1>1. frame.path \in Addresses /\ SignInPath \in Addresses /\ left.role \in Roles
  BY TypedParts DEF Screened, Frames, Addresses, Bound
<1>2. CASE k.op = "landing"
  BY <1>1, <1>2, LandingTyped DEF Leads
<1>3. CASE k.op = "first"
  BY <1>3, FirstPathTyped DEF Leads
<1>4. CASE k.op \notin {"landing", "first"}
  BY <1>1, <1>4 DEF Leads
<1> QED BY <1>2, <1>3, <1>4

LEMMA HearOkScreened ==
  ASSUME BrowserTyped, NEW k \in calls, HearOk(k)
  PROVE  Screened'
<1> DEFINE f == IF k.op # "screens" THEN Replaced(frame, Leads(k), Holds')
                ELSE IF k.by = "page" THEN AfterScreens(frame, left.allowed, left.role, Holds)
                ELSE frame
<1>1. /\ frame \in Frames /\ left.allowed \in SUBSET Keys /\ left.role \in Roles
      /\ k \in Asked /\ Meant(k) /\ Screened /\ OfPage(k, page.screen)
  BY TypedParts DEF Screened, Sound, Bound
<1>2. Holds \in BOOLEAN /\ Holds' \in BOOLEAN
  BY DEF Holds
<1>3. f \in Frames
  BY <1>1, <1>2, LeadsTyped, ReplacedTyped, AfterScreensTyped
<1>4. Heard(k, AfterOk(k), f, AsksNext(k))
  BY DEF HearOk
<1> HIDE DEF f
<1>5. ASSUME NEW a \in AsksNext(k)
      PROVE  /\ a \in Asked /\ Meant(a)
             /\ k.by = "page" => OfPage([a EXCEPT !.by = "page"], page.screen)
  <2>1. Follows(a, a.op) /\ \A screen : k.op \in AsksOf(screen) => a.op \in AsksOf(screen)
    BY <1>1, AsksNextSound
  <2>2. a \in Asked /\ Meant(a)
    BY <2>1 DEF Follows
  <2>3. k.op # "screens"
    BY DEF AsksNext
  <2>4. k.by = "page" => a.op \in AsksOf(page.screen)
    BY <1>1, <2>1, <2>3 DEF OfPage
  <2>5. [a EXCEPT !.by = "page"].op = a.op
    BY <2>2 DEF Asked
  <2> QED BY <2>2, <2>4, <2>5 DEF OfPage
<1> QED BY <1>1, <1>3, <1>4, <1>5, HeardOnScreen, HeardScreened

\* A box or a switch is of the page of the permissions.
LEMMA FailureOfPage ==
  ASSUME BrowserTyped, NEW k \in calls, NEW a \in AsksAfterFailure(k)
  PROVE  /\ a \in Asked /\ Meant(a)
         /\ k.by = "page" => OfPage([a EXCEPT !.by = "page"], page.screen)
<1>1. k \in Asked /\ OfPage(k, page.screen)
  BY TypedParts DEF Screened, Sound
<1>2. Follows(a, "regrid") /\ k.op \in {"box", "switch"}
  BY <1>1, AsksAfterFailureSound
<1>3. a \in Asked /\ Meant(a) /\ a.op = "regrid"
  BY <1>2 DEF Follows
<1>4. [a EXCEPT !.by = "page"].op = "regrid"
  BY <1>3 DEF Asked
<1>5. k.by = "page" => "regrid" \in AsksOf(page.screen)
  BY <1>1, <1>2 DEF OfPage, AsksOf
<1> QED BY <1>3, <1>4, <1>5 DEF OfPage

LEMMA HearFailedScreened ==
  ASSUME BrowserTyped, NEW k \in calls, HearFailed(k)
  PROVE  Screened'
<1> DEFINE f == IF k.op = "screens" /\ k.by = "page"
                THEN AfterNoScreens(frame, "failed", Holds) ELSE frame
           kept == {[l EXCEPT !.by = "lost"] :
                      l \in {m \in {k} : m.op \in Writes /\ m.answer = "none"}}
<1>1. frame \in Frames /\ k \in Asked /\ Meant(k) /\ Screened /\ OfPage(k, page.screen)
  BY TypedParts DEF Screened, Sound
<1>2. f \in Frames
  BY <1>1, AfterNoScreensTyped DEF Holds
<1>3. Heard(k, AfterNotOk(k), f, AsksAfterFailure(k) \cup kept)
  BY DEF HearFailed
<1>4. ASSUME NEW a \in kept
      PROVE  /\ a \in Asked /\ Meant(a)
             /\ k.by = "page" => OfPage([a EXCEPT !.by = "page"], page.screen)
  <2>1. a = [k EXCEPT !.by = "lost"]
    OBVIOUS
  <2>2. a \in Asked /\ Same(a, k) /\ Meant(a)
    BY <1>1, <2>1, WaitedForBy
  <2>3. [a EXCEPT !.by = "page"].op = k.op
    BY <2>2 DEF Asked, Same
  <2> QED BY <1>1, <2>2, <2>3 DEF OfPage
<1> HIDE DEF f, kept
<1> DEFINE all == AsksAfterFailure(k) \cup kept
<1>5. ASSUME NEW a \in all
      PROVE  /\ a \in Asked /\ Meant(a)
             /\ k.by = "page" => OfPage([a EXCEPT !.by = "page"], page.screen)
  BY <1>4, FailureOfPage
<1>6. Heard(k, AfterNotOk(k), f, all)
  BY <1>3
<1> HIDE DEF all
<1>7. k.by = "page" => AfterNotOk(k) \in Pages /\ AfterNotOk(k).screen = page.screen
  BY HeardOnScreen
<1> QED BY <1>1, <1>2, <1>5, <1>6, <1>7, HeardScreened

LEMMA HearUnauthorizedScreened ==
  ASSUME BrowserTyped, NEW k \in calls, HearUnauthorized(k)
  PROVE  Screened'
<1> DEFINE f == IF k.op \in {"screens", "days"}
                THEN AfterNoScreens(frame, "401", Holds) ELSE frame
<1>1. frame \in Frames /\ Screened
  BY TypedParts DEF Screened
<1>2. f \in Frames
  BY <1>1, AfterNoScreensTyped DEF Holds
<1>3. Heard(k, AfterNotOk(k), f, AsksAfterFailure(k))
  BY DEF HearUnauthorized
<1> HIDE DEF f
<1> QED BY <1>1, <1>2, <1>3, FailureOfPage, HeardOnScreen, HeardScreened

LEMMA LoadedScreened ==
  ASSUME Screened, NEW f \in Frames, NEW ended \in BOOLEAN, Loaded(f, ended)
  PROVE  Screened'
<1> DEFINE p == PageAt(f.path, ended)
<1>1. p \in Pages /\ (f.path = SignInPath => p.screen = "login")
  BY PageAtFresh DEF Fresh
<1>2. ASSUME NEW a \in calls' PROVE Sound(a, p.screen)
  <2>1. PICK l \in calls : a = [l EXCEPT !.by = "lost"]
    BY DEF Loaded
  <2>2. a \in Asked /\ a.by = "lost" /\ Meant(a)
    BY <2>1, WaitedForBy DEF Screened, Sound
  <2> QED BY <2>2 DEF Sound, OfPage
<1>3. frame' = f /\ page' = p
  BY DEF Loaded
<1> QED BY <1>1, <1>2, <1>3 DEF Screened, Sound, Meant, OfPage

LEMMA HearRevokedScreened ==
  ASSUME BrowserTyped, NEW k \in calls, HearRevoked(k)
  PROVE  Screened'
<1>1. frame \in Frames /\ Screened
  BY TypedParts DEF Screened
<1>2. CASE frame.path = SignInPath
  <2>1. Heard(k, AfterNotOk(k), frame, {})
    BY <1>2 DEF HearRevoked
  <2> QED BY <1>1, <2>1, HeardOnScreen, HeardScreened
<1>3. CASE frame.path # SignInPath
  <2>1. Loaded(Raised(SignInPath, FALSE), TRUE)
    BY <1>3 DEF HearRevoked
  <2>2. Raised(SignInPath, FALSE) \in Frames
    BY RaisedTyped DEF Addresses
  <2> QED BY <1>1, <2>1, <2>2, LoadedScreened
<1> QED BY <1>2, <1>3

\* The server answers.
LEMMA AnsweredTyped ==
  ASSUME NEW k \in Asked, Meant(k), NEW answer \in Answers
  PROVE  LET a == [k EXCEPT !.answer = answer] IN
         /\ a \in Asked /\ Meant(a) /\ a.by = k.by /\ a.answer = answer
         /\ a.op = k.op /\ a.about = k.about /\ a.extra = k.extra /\ a.rest = k.rest
         /\ (a.flag <=> k.flag)
<1> DEFINE a == [k EXCEPT !.answer = answer]
<1>1. /\ a \in Asked /\ a.by = k.by /\ a.answer = answer
      /\ a.op = k.op /\ a.about = k.about /\ a.extra = k.extra /\ a.rest = k.rest
      /\ (a.flag <=> k.flag)
  BY DEF Asked
<1> HIDE DEF a
<1>2. Meant(a)
  BY <1>1 DEF Meant
<1> QED BY <1>1, <1>2 DEF a

LEMMA AnsweredScreened ==
  ASSUME Screened, NEW k \in calls, NEW answer \in Answers, Answered(k, answer),
         UNCHANGED <<frame, page>>
  PROVE  Screened'
<1>1. k \in Asked /\ Meant(k) /\ OfPage(k, page.screen)
  BY DEF Screened, Sound
<1>2. ASSUME NEW a \in calls' PROVE Sound(a, page.screen)
  <2>1. a \in calls \/ a = [k EXCEPT !.answer = answer]
    BY DEF Answered
  <2>2. CASE a = [k EXCEPT !.answer = answer]
    <3>1. a \in Asked /\ Meant(a) /\ a.by = k.by /\ a.op = k.op
      BY <1>1, <2>2, AnsweredTyped
    <3> QED BY <1>1, <3>1 DEF Sound, OfPage
  <2> QED BY <2>1, <2>2 DEF Screened
<1> QED BY <1>2 DEF Screened, Sound, Meant, OfPage

-----------------------------------------------------------------------------
(***************************************************************************)
(* What the person does on a page: what it leaves of the page, and the     *)
(* one request it sends, if any.                                           *)
(***************************************************************************)
PageDid(p) ==
    /\ p \in Pages /\ p.screen = page.screen
    /\ p.screen \in {"corrections", "profile"} => p.said \in {page.said, Nobody}
    /\ p.screen = "users" /\ page.removing \subseteq page.ticked => p.removing \subseteq p.ticked

AskDid(a) ==
    /\ Sound(a, page.screen) /\ a.by = "page" /\ a.answer \in {"none", "401"}
    /\ a.op = "create" => a.about = NextSend /\ Spend("sends")
    /\ SigningIn(a) => Spend("signins")
    /\ a.op = "erase" => /\ a.about \in page.removing /\ a.rest \subseteq page.removing
                         /\ page.ticked \subseteq confirmed'

Did(p, asked) ==
    /\ PageDid(p)
    /\ \A a \in asked : AskDid(a)
    /\ \A a, b \in asked : a = b
    /\ Stays(p, calls \cup asked)

LEMMA DidScreened ==
  ASSUME Screened, NEW p, NEW asked, Did(p, asked)
  PROVE  Screened' /\ frame' = frame /\ page' = p /\ calls' = calls \cup asked
<1>1. Becomes(frame, p, calls \cup asked)
  BY DEF Did, Stays
<1>2. \A a \in calls \cup asked : Sound(a, page.screen)
  BY DEF Did, AskDid, Screened
<1>3. frame \in Frames /\ p \in Pages /\ p.screen = page.screen
  BY DEF Did, PageDid, Screened
<1>4. Screened'
  BY <1>1, <1>2, <1>3, BecomesScreened
<1> QED BY <1>1, <1>4 DEF Becomes

LEMMA DidNoAsk ==
  ASSUME NEW p, PageDid(p), Does(p, {})
  PROVE  \E asked : Did(p, asked)
<1>1. Did(p, {})
  BY DEF Did, Does
<1> QED BY <1>1

LEMMA DidOneAsk ==
  ASSUME NEW p, PageDid(p), NEW a, AskDid(a), Stays(p, calls \cup {a})
  PROVE  \E asked : Did(p, asked)
<1>1. Did(p, {a})
  BY DEF Did
<1> QED BY <1>1

\* A request the invariants say nothing of.
LEMMA PlainAsk ==
  ASSUME NEW op \in Reads \cup {"change", "withdraw", "mark", "markAll"},
         NEW about \in Nat, NEW flag \in BOOLEAN, op \in AsksOf(page.screen),
         op = "lookup" => about \in Codes, op = "days" => about \in Ranges
  PROVE  AskDid(AskedFor(op, about, 0, flag))
<1>1. op \in Reads \cup Writes /\ 0 \in Nat
  BY DEF Writes
<1>2. Asks(AskedFor(op, about, 0, flag), op, about, 0, flag, {}, 0)
  BY <1>1, AskedForTyped
<1>3. op \notin {"create", "save", "join", "register", "first", "erase", "update", "password",
                "box", "login"}
  BY DEF Reads
<1>4. Meant(AskedFor(op, about, 0, flag))
  BY <1>2, <1>3 DEF Asks, Meant
<1> QED BY <1>2, <1>3, <1>4 DEF Asks, AskDid, Sound, OfPage, SigningIn

LEMMA PasswordActsDid ==
  ASSUME BrowserTyped, PasswordActs
  PROVE  \E p, asked : Did(p, asked)
<1>1. page.screen = "password" /\ page \in PasswordPages
  BY TypedParts, PageOfScreen DEF PasswordActs, On, Screened
<1>2. PageDid(AfterUnlike(page)) /\ PageDid(AfterChangeSent(page))
  <2>1. AfterUnlike(page) \in PasswordPages /\ AfterChangeSent(page) \in PasswordPages
    BY <1>1 DEF AfterUnlike, AfterChangeSent, PasswordPages
  <2> QED BY <1>1, <2>1 DEF PageDid, Pages, PasswordPages
<1>3. CASE Does(AfterUnlike(page), {})
  BY <1>2, <1>3, DidNoAsk
<1>4. CASE Does(AfterChangeSent(page), {AskedFor("change", 0, 0, FALSE)})
  <2>1. AskDid(AskedFor("change", 0, 0, FALSE))
    BY <1>1, PlainAsk DEF AsksOf
  <2> QED BY <1>2, <1>4, <2>1, DidOneAsk DEF Does
<1> QED BY <1>3, <1>4 DEF PasswordActs

LEMMA HistoryActsDid ==
  ASSUME BrowserTyped, HistoryActs
  PROVE  \E p, asked : Did(p, asked)
<1>1. page.screen = "history" /\ page \in HistoryPages
  BY TypedParts, PageOfScreen DEF HistoryActs, On, Screened
<1>2. ASSUME NEW p \in HistoryPages PROVE PageDid(p)
  BY <1>1 DEF PageDid, Pages, HistoryPages
<1>3. ASSUME NEW range \in Ranges, Does(AfterRange(page, range), {AskedFor("days", range, 0, FALSE)})
      PROVE  \E p, asked : Did(p, asked)
  <2>1. AfterRange(page, range) \in HistoryPages
    BY <1>1 DEF AfterRange, HistoryPages
  <2>2. AskDid(AskedFor("days", range, 0, FALSE))
    BY <1>1, PlainAsk, RangesAssumption DEF AsksOf, Reads
  <2> QED BY <1>2, <1>3, <2>1, <2>2, DidOneAsk DEF Does
<1>4. ASSUME NEW date \in Dates, Does(AfterOpenDay(page, date), {AskedFor("day", date, 0, FALSE)})
      PROVE  \E p, asked : Did(p, asked)
  <2>e. <<>> \in Seq(Attempt)
    OBVIOUS
  <2>1. AfterOpenDay(page, date) \in HistoryPages
    BY <1>1, <2>e DEF AfterOpenDay, HistoryPages
  <2>2. AskDid(AskedFor("day", date, 0, FALSE))
    BY <1>1, PlainAsk, DatesAssumption DEF AsksOf, Reads
  <2> QED BY <1>2, <1>4, <2>1, <2>2, DidOneAsk DEF Does
<1>5. CASE Does(AfterCloseDay(page), {})
  <2>1. AfterCloseDay(page) \in HistoryPages
    BY <1>1 DEF AfterCloseDay, HistoryPages
  <2> QED BY <1>2, <1>5, <2>1, DidNoAsk
<1> QED BY <1>3, <1>4, <1>5 DEF HistoryActs

LEMMA NotificationActsDid ==
  ASSUME BrowserTyped, NotificationActs
  PROVE  \E p, asked : Did(p, asked)
<1>1. page.screen = "notifications" /\ page \in NotificationsPages
  BY TypedParts, PageOfScreen DEF NotificationActs, On, Screened
<1>2. ASSUME NEW p \in NotificationsPages PROVE PageDid(p)
  BY <1>1 DEF PageDid, Pages, NotificationsPages
<1>3. page.unreadOnly \in BOOLEAN /\ (~page.unreadOnly) \in BOOLEAN
  <2>1. page.unreadOnly \in BOOLEAN
    BY <1>1 DEF NotificationsPages
  <2> QED BY <2>1
<1>4. CASE Does(AfterFilter(page), {AskedFor("notes", 0, 0, ~page.unreadOnly)})
  <2>1. AfterFilter(page) \in NotificationsPages
    BY <1>1 DEF AfterFilter, NotificationsPages
  <2>2. \A flag \in BOOLEAN : AskDid(AskedFor("notes", 0, 0, flag))
    BY <1>1, PlainAsk DEF AsksOf, Reads
  <2>3. AskDid(AskedFor("notes", 0, 0, ~page.unreadOnly))
    BY <2>2, <1>3, Zenon
  <2> QED BY <1>2, <1>4, <2>1, <2>3, DidOneAsk DEF Does
<1>5. ASSUME NEW id \in MarkOffered(page), Does(page, {AskedFor("mark", id, 0, page.unreadOnly)})
      PROVE  \E p, asked : Did(p, asked)
  <2>1. id \in Nat
    BY <1>1 DEF MarkOffered, NotificationsPages, Sends
  <2>2. AskDid(AskedFor("mark", id, 0, page.unreadOnly))
    BY <1>1, <1>3, <2>1, PlainAsk DEF AsksOf
  <2> QED BY <1>1, <1>2, <1>5, <2>2, DidOneAsk DEF Does
<1>6. CASE Does(AfterMarkAllSent(page), {AskedFor("markAll", 0, 0, page.unreadOnly)})
  <2>1. AfterMarkAllSent(page) \in NotificationsPages
    BY <1>1 DEF AfterMarkAllSent, NotificationsPages
  <2>2. AskDid(AskedFor("markAll", 0, 0, page.unreadOnly))
    BY <1>1, <1>3, PlainAsk DEF AsksOf
  <2> QED BY <1>2, <1>6, <2>1, <2>2, DidOneAsk DEF Does
<1> QED BY <1>4, <1>5, <1>6, Zenon DEF NotificationActs

LEMMA SignInActsDid ==
  ASSUME BrowserTyped, SignInActs
  PROVE  \E p, asked : Did(p, asked)
<1>1. page.screen = "login" /\ page \in SignInPages
  BY TypedParts, PageOfScreen DEF SignInActs, On, Screened
<1>2. ASSUME NEW p \in SignInPages PROVE PageDid(p)
  BY <1>1 DEF PageDid, Pages, SignInPages
<1>3. ASSUME NEW mode \in {"login", "register"}, Does(AfterMode(page, mode), {})
      PROVE  \E p, asked : Did(p, asked)
  <2>1. AfterMode(page, mode) \in SignInPages
    BY <1>1 DEF AfterMode, SignInPages
  <2> QED BY <1>2, <1>3, <2>1, DidNoAsk
<1>4. ASSUME NEW role \in {"MEMBER", "MANAGER"}, Does([page EXCEPT !.role = role], {})
      PROVE  \E p, asked : Did(p, asked)
  <2>1. [page EXCEPT !.role = role] \in SignInPages
    BY <1>1 DEF SignInPages
  <2> QED BY <1>2, <1>4, <2>1, DidNoAsk
<1>5. ASSUME NEW code \in Codes,
             Does(AfterCode(page, code), {AskedFor("lookup", code, 0, FALSE)})
      PROVE  \E p, asked : Did(p, asked)
  <2>1. AfterCode(page, code) \in SignInPages
    BY <1>1 DEF AfterCode, SignInPages
  <2>2. AskDid(AskedFor("lookup", code, 0, FALSE))
    BY <1>1, PlainAsk, CodesAssumption DEF AsksOf, Reads
  <2> QED BY <1>2, <1>5, <2>1, <2>2, DidOneAsk DEF Does
<1>6. ASSUME NEW a \in {AskedFor("login", 0, 0, FALSE),
                        AskedFor("register", 1, 0, page.role = "MEMBER")},
             Spend("signins"), Does(AfterSubmit(page), {a})
      PROVE  \E p, asked : Did(p, asked)
  <2>1. AfterSubmit(page) \in SignInPages
    BY <1>1 DEF AfterSubmit, SignInPages
  <2>2. /\ {"login", "register"} \subseteq Reads \cup Writes /\ 0 \in Nat /\ 1 \in Nat
        /\ FALSE \in BOOLEAN /\ (page.role = "MEMBER") \in BOOLEAN
    BY DEF Writes
  <2>3. 1 \in Sends
    BY MaxSendsAssumption DEF Sends
  <2>4. \/ Asks(a, "login", 0, 0, FALSE, {}, 0)
        \/ Asks(a, "register", 1, 0, page.role = "MEMBER", {}, 0)
    BY <1>6, <2>2, AskedForTyped
  <2>5. a \in Asked /\ a.op \in {"login", "register"} /\ (a.op = "register" => a.about = 1)
          /\ a.by = "page" /\ a.answer \in {"none", "401"}
    BY <2>4 DEF Asks
  <2>6. Meant(a)
    BY <2>3, <2>5 DEF Meant
  <2>7. AskDid(a)
    BY <1>1, <1>6, <2>5, <2>6 DEF AskDid, Sound, OfPage, AsksOf
  <2> QED BY <1>2, <1>6, <2>1, <2>7, DidOneAsk DEF Does
<1> QED BY <1>3, <1>4, <1>5, <1>6 DEF SignInActs

\* What is sent about a number: the next one.
LEMMA NextSendTyped ==
  ASSUME left \in Bound, Spend("sends")
  PROVE  NextSend \in Sends /\ left.sends \in 1 .. MaxSends /\ left'.sends = left.sends - 1
  BY MaxSendsAssumption DEF NextSend, Sends, Spend, Bound

LEMMA CorrectionActsDid ==
  ASSUME BrowserTyped, CorrectionActs
  PROVE  \E p, asked : Did(p, asked)
<1>1. page.screen = "corrections" /\ page \in CorrectionsPages /\ left \in Bound
  BY TypedParts, PageOfScreen DEF CorrectionActs, On, Screened
<1>2. ASSUME NEW p \in CorrectionsPages, p.said \in {page.said, Nobody} PROVE PageDid(p)
  BY <1>1, <1>2 DEF PageDid, Pages, CorrectionsPages
<1>3. ASSUME NEW date \in Dates, NEW times \in BOOLEAN,
             Does([page EXCEPT !.date = date, !.times = times, !.reason = TRUE], {})
      PROVE  \E p, asked : Did(p, asked)
  <2> DEFINE p == [page EXCEPT !.date = date, !.times = times, !.reason = TRUE]
  <2>1. p \in CorrectionsPages /\ p.said = page.said
    BY <1>1 DEF CorrectionsPages
  <2> QED BY <1>2, <1>3, <2>1, DidNoAsk
<1>4. ASSUME Spend("sends"),
             Does(AfterSubmitRequest(page, NextSend),
                  {AskedFor("create", NextSend, page.date, page.times)})
      PROVE  \E p, asked : Did(p, asked)
  <2> DEFINE p == AfterSubmitRequest(page, NextSend)
             a == AskedFor("create", NextSend, page.date, page.times)
  <2>1. p \in CorrectionsPages /\ p.said = Nobody
    BY <1>1 DEF AfterSubmitRequest, CorrectionsPages
  <2>2. NextSend \in Sends
    BY <1>1, <1>4, NextSendTyped
  <2>3. /\ NextSend \in Nat /\ page.date \in Dates /\ page.date \in Nat
        /\ page.times \in BOOLEAN /\ "create" \in Reads \cup Writes
    <3>1. page.date \in Dates /\ page.times \in BOOLEAN
      BY <1>1 DEF CorrectionsPages
    <3>2. NextSend \in Nat
      BY <2>2, MaxSendsAssumption DEF Sends
    <3>3. "create" \in Reads \cup Writes
      BY DEF Writes
    <3> QED BY <3>1, <3>2, <3>3, DatesAssumption
  <2>4. Asks(a, "create", NextSend, page.date, page.times, {}, 0)
    BY <2>3, AskedForTyped
  <2>5. Meant(a)
    BY <2>2, <2>3, <2>4 DEF Asks, Meant
  <2>6. AskDid(a)
    BY <1>1, <1>4, <2>4, <2>5 DEF AskDid, Asks, Sound, OfPage, AsksOf, SigningIn
  <2> HIDE DEF p, a
  <2>7. Does(p, {a})
    BY <1>4 DEF p, a
  <2> QED BY <1>2, <2>1, <2>6, <2>7, DidOneAsk DEF Does
<1>5. ASSUME NEW id \in WithdrawOffered(page), Does(page, {AskedFor("withdraw", id, 0, FALSE)})
      PROVE  \E p, asked : Did(p, asked)
  <2>1. id \in Nat
    BY <1>1 DEF WithdrawOffered, CorrectionsPages, Sends
  <2>2. "withdraw" \in AsksOf(page.screen) /\ FALSE \in BOOLEAN
    BY <1>1 DEF AsksOf
  <2>3. AskDid(AskedFor("withdraw", id, 0, FALSE))
    BY <2>1, <2>2, PlainAsk
  <2> QED BY <1>1, <1>2, <1>5, <2>3, DidOneAsk DEF Does
<1> QED BY <1>3, <1>4, <1>5 DEF CorrectionActs

LEMMA ProfileActsDid ==
  ASSUME BrowserTyped, ProfileActs
  PROVE  \E p, asked : Did(p, asked)
<1>1. page.screen = "profile" /\ page \in ProfilePages /\ left \in Bound
  BY TypedParts, PageOfScreen DEF ProfileActs, On, Screened
<1>2. ASSUME NEW p \in ProfilePages, p.said = page.said PROVE PageDid(p)
  BY <1>1, <1>2 DEF PageDid, Pages, ProfilePages
<1>3. CASE NextSend \in Sends /\ Does(AfterEdit(page, NextSend), {})
  <2>1. AfterEdit(page, NextSend) \in ProfilePages /\ AfterEdit(page, NextSend).said = page.said
    BY <1>1, <1>3 DEF AfterEdit, ProfilePages
  <2> QED BY <1>2, <1>3, <2>1, DidNoAsk
<1>4. CASE Does([page EXCEPT !.code = TRUE], {})
  <2>1. [page EXCEPT !.code = TRUE] \in ProfilePages /\ [page EXCEPT !.code = TRUE].said = page.said
    BY <1>1 DEF ProfilePages
  <2> QED BY <1>2, <1>4, <2>1, DidNoAsk
<1>5. CASE Does([page EXCEPT !.editing = FALSE], {})
  <2>1. /\ [page EXCEPT !.editing = FALSE] \in ProfilePages
        /\ [page EXCEPT !.editing = FALSE].said = page.said
    BY <1>1 DEF ProfilePages
  <2> QED BY <1>2, <1>5, <2>1, DidNoAsk
<1>6. ASSUME Spend("sends"),
             Does(AfterSaveSent(page),
                  {AskedFor("save", NextSend, page.form, page.profile.department = "given")})
      PROVE  \E p, asked : Did(p, asked)
  <2> DEFINE p == AfterSaveSent(page)
             given == page.profile.department = "given"
             a == AskedFor("save", NextSend, page.form, given)
  <2>1. p \in ProfilePages /\ p.said = page.said
    BY <1>1 DEF AfterSaveSent, ProfilePages
  <2>2. NextSend \in Sends
    BY <1>1, <1>6, NextSendTyped
  <2>3. /\ NextSend \in Nat /\ page.form \in Sends \cup {Nobody} /\ page.form \in Nat
        /\ given \in BOOLEAN /\ "save" \in Reads \cup Writes
    BY <1>1, <2>2 DEF Sends, Nobody, ProfilePages, Writes
  <2>4. Asks(a, "save", NextSend, page.form, given, {}, 0)
    BY <2>3, AskedForTyped
  <2>5. Meant(a)
    BY <2>2, <2>3, <2>4 DEF Asks, Meant
  <2>6. AskDid(a)
    BY <1>1, <2>4, <2>5 DEF AskDid, Asks, Sound, OfPage, AsksOf, SigningIn
  <2> HIDE DEF p, a
  <2>7. Does(p, {a})
    BY <1>6 DEF p, a
  <2> QED BY <1>2, <2>1, <2>6, <2>7, DidOneAsk DEF Does
<1>7. ASSUME Spend("sends"),
             Does(AfterJoinSent(page), {AskedFor("join", NextSend, 0, FALSE)})
      PROVE  \E p, asked : Did(p, asked)
  <2> DEFINE p == AfterJoinSent(page)
             a == AskedFor("join", NextSend, 0, FALSE)
  <2>1. p \in ProfilePages /\ p.said = page.said
    BY <1>1 DEF AfterJoinSent, ProfilePages
  <2>2. NextSend \in Sends
    BY <1>1, <1>7, NextSendTyped
  <2>3. NextSend \in Nat /\ 0 \in Nat /\ FALSE \in BOOLEAN /\ "join" \in Reads \cup Writes
    BY <2>2 DEF Sends, Writes
  <2>4. Asks(a, "join", NextSend, 0, FALSE, {}, 0)
    BY <2>3, AskedForTyped
  <2>5. Meant(a)
    BY <2>2, <2>4 DEF Asks, Meant
  <2>6. AskDid(a)
    BY <1>1, <2>4, <2>5 DEF AskDid, Asks, Sound, OfPage, AsksOf, SigningIn
  <2> HIDE DEF p, a
  <2>7. Does(p, {a})
    BY <1>7 DEF p, a
  <2> QED BY <1>2, <2>1, <2>6, <2>7, DidOneAsk DEF Does
<1> QED BY <1>3, <1>4, <1>5, <1>6, <1>7 DEF ProfileActs

LEMMA UsersPagesAfter ==
  ASSUME page \in UsersPages, NEW p \in UsersPages,
         \/ p.removing = page.removing /\ p.ticked = page.ticked
         \/ p.removing \subseteq p.ticked
  PROVE  PageDid(p)
  BY DEF PageDid, Pages, UsersPages

LEMMA UsersActsDid ==
  ASSUME BrowserTyped, UsersActs
  PROVE  \E p, asked : Did(p, asked)
<1>1. page.screen = "users" /\ page \in UsersPages /\ Len(RoleOrder) = 3
  BY TypedParts, PageOfScreen DEF UsersActs, On, Screened, RoleOrder
<1>2. ASSUME NEW p, Does(p, {}), p \in UsersPages,
             \/ p.removing = page.removing /\ p.ticked = page.ticked
             \/ p.removing \subseteq p.ticked
      PROVE  \E q, asked : Did(q, asked)
  BY <1>1, <1>2, UsersPagesAfter, DidNoAsk
<1>3. ASSUME NEW f \in 0 .. Len(RoleOrder),
             Does(Reloading([page EXCEPT !.filter = f]), {AskedFor("users", f, 0, FALSE)})
      PROVE  \E p, asked : Did(p, asked)
  <2> DEFINE p == Reloading([page EXCEPT !.filter = f])
  <2>1. p \in UsersPages /\ p.removing = page.removing /\ p.ticked = page.ticked
    BY <1>1 DEF Reloading, UsersPages
  <2>2. f \in Nat /\ "users" \in Reads \ {"lookup", "days"} /\ "users" \in AsksOf(page.screen)
          /\ FALSE \in BOOLEAN
    BY <1>1 DEF Reads, AsksOf
  <2>3. AskDid(AskedFor("users", f, 0, FALSE))
    BY <2>2, PlainAsk
  <2> QED BY <1>1, <1>3, <2>1, <2>3, UsersPagesAfter, DidOneAsk DEF Does
<1>4. ASSUME NEW id \in OnScreen(page), Does(AfterTick(page, id), {})
      PROVE  \E p, asked : Did(p, asked)
  <2> DEFINE p == AfterTick(page, id)
  <2>1. id \in Accounts
    BY <1>1 DEF OnScreen, UsersPages, Row
  <2>2. p \in UsersPages /\ p.removing = page.removing /\ p.ticked = page.ticked
    BY <1>1, <2>1 DEF AfterTick, UsersPages
  <2> QED BY <1>2, <1>4, <2>2
<1>5. CASE Does(AfterTickAll(page), {})
  <2> DEFINE p == AfterTickAll(page)
  <2>1. OnScreen(page) \subseteq Accounts
    BY <1>1 DEF OnScreen, UsersPages, Row
  <2>2. p \in UsersPages /\ p.removing = page.removing /\ p.ticked = page.ticked
    BY <1>1, <2>1 DEF AfterTickAll, UsersPages
  <2> QED BY <1>2, <1>5, <2>2
<1>6. CASE Does(AfterRemovalAsked(page), {})
  <2> DEFINE p == AfterRemovalAsked(page)
             ticked == {id \in page.picked : id \in OnScreen(page)}
  <2>1. Chosen(page) \subseteq ticked /\ ticked \in SUBSET Accounts
          /\ Chosen(page) \in SUBSET Accounts
    BY <1>1 DEF Chosen, UsersPages
  <2>2. p = [page EXCEPT !.removing = Chosen(page), !.ticked = ticked, !.reason = FALSE,
               !.dialogError = FALSE]
    BY DEF AfterRemovalAsked
  <2> HIDE DEF ticked
  <2>3. p \in UsersPages /\ p.removing = Chosen(page) /\ p.ticked = ticked
    BY <1>1, <2>1, <2>2 DEF UsersPages
  <2> QED BY <1>2, <1>6, <2>1, <2>3
<1>7. CASE Does([page EXCEPT !.picked = {}], {})
  <2> DEFINE p == [page EXCEPT !.picked = {}]
  <2>1. p \in UsersPages /\ p.removing = page.removing /\ p.ticked = page.ticked
    BY <1>1 DEF UsersPages
  <2> QED BY <1>2, <1>7, <2>1
<1>8. ASSUME NEW row \in page.rows, Does(AfterOpenUser(page, row), {})
      PROVE  \E p, asked : Did(p, asked)
  <2> DEFINE p == AfterOpenUser(page, row)
  <2>1. row \in Row /\ row.role \in ToSet(RoleOrder) /\ row.active \in BOOLEAN
    BY <1>1 DEF UsersPages, Row
  <2>2. {row} \in {{}} \cup {{r} : r \in Row}
    BY <2>1
  <2>3. p \in UsersPages /\ p.removing = page.removing /\ p.ticked = page.ticked
    BY <1>1, <2>1, <2>2 DEF AfterOpenUser, UsersPages
  <2> QED BY <1>2, <1>8, <2>3
<1>9. CASE Does(AfterDialogClosed(page), {})
  <2> DEFINE q == AfterUserClosed(page)
             p == AfterDialogClosed(page)
  <2>1. "MEMBER" \in ToSet(RoleOrder)
    BY DEF ToSet, RoleOrder
  <2>2. q \in UsersPages
    BY <1>1, <2>1 DEF AfterUserClosed, UsersPages
  <2>3. p = [q EXCEPT !.removing = {}, !.ticked = {}, !.reason = FALSE]
    BY DEF AfterDialogClosed, AfterRemovalClosed
  <2> HIDE DEF q
  <2>4. p \in UsersPages /\ p.removing = {}
    BY <2>2, <2>3 DEF UsersPages
  <2> QED BY <1>2, <1>9, <2>4
<1>10. ASSUME NEW p \in {[page EXCEPT !.reason = TRUE], [page EXCEPT !.newActive = ~@],
                         [page EXCEPT !.password = TRUE]}
                        \cup {[page EXCEPT !.newRole = role] : role \in ToSet(RoleOrder)},
              Does(p, {})
       PROVE  \E q, asked : Did(q, asked)
  <2>1. ASSUME NEW flag \in BOOLEAN, NEW role \in ToSet(RoleOrder),
               p \in {[page EXCEPT !.reason = flag], [page EXCEPT !.newActive = flag],
                      [page EXCEPT !.password = flag], [page EXCEPT !.newRole = role]}
        PROVE  p \in UsersPages /\ p.removing = page.removing /\ p.ticked = page.ticked
    BY <1>1, <2>1 DEF UsersPages
  <2>2. page.newActive \in BOOLEAN /\ (~page.newActive) \in BOOLEAN
    <3>1. page.newActive \in BOOLEAN
      BY <1>1 DEF UsersPages
    <3> QED BY <3>1
  <2>3. page.newRole \in ToSet(RoleOrder)
    BY <1>1 DEF UsersPages
  <2>4. p \in UsersPages /\ p.removing = page.removing /\ p.ticked = page.ticked
    BY <1>10, <2>1, <2>2, <2>3
  <2> QED BY <1>2, <1>10, <2>4
<1>11. AfterUsersSent(page) \in UsersPages /\ PageDid(AfterUsersSent(page))
  <2> DEFINE p == AfterUsersSent(page)
  <2>1. p \in UsersPages /\ p.removing = page.removing /\ p.ticked = page.ticked
    BY <1>1 DEF AfterUsersSent, UsersPages
  <2> QED BY <1>1, <2>1, UsersPagesAfter
<1>12. ASSUME page.removing # {}, confirmed' = confirmed \cup page.ticked,
              Stays(AfterUsersSent(page), calls \cup {AskedToErase(page.removing, page.filter)})
       PROVE  \E p, asked : Did(p, asked)
  <2> DEFINE a == AskedToErase(page.removing, page.filter)
  <2>1. page.removing \in SUBSET Accounts /\ page.filter \in 0 .. Len(RoleOrder)
    BY <1>1 DEF UsersPages
  <2>2. PICK id \in page.removing :
          Asks(a, "erase", id, 0, FALSE, page.removing \ {id}, page.filter)
    BY <1>12, <2>1, AskedToEraseTyped
  <2> HIDE DEF a
  <2>3. AskDid(a)
    BY <1>1, <1>12, <2>1, <2>2 DEF AskDid, Asks, Sound, Meant, OfPage, AsksOf, SigningIn
  <2>4. Stays(AfterUsersSent(page), calls \cup {a})
    BY <1>12 DEF a
  <2> QED BY <1>11, <2>3, <2>4, DidOneAsk
<1>13. ASSUME NEW r \in page.selected, NEW n \in DOMAIN RoleOrder,
              NEW op \in {"update", "password"}, NEW extra \in {0, n}, NEW flag \in BOOLEAN,
              op = "update" => extra = n,
              Does(AfterUsersSent(page), {AskedOf(op, r.id, extra, flag, {}, page.filter)})
       PROVE  \E p, asked : Did(p, asked)
  <2> DEFINE a == AskedOf(op, r.id, extra, flag, {}, page.filter)
  <2>1. r.id \in Accounts /\ r.id \in Nat
    BY <1>1, AccountsAssumption DEF UsersPages, Row
  <2>2. page.filter \in 0 .. Len(RoleOrder)
    BY <1>1 DEF UsersPages
  <2>3. extra \in Nat /\ op \in Reads \cup Writes /\ {} \in SUBSET Accounts
    BY DEF RoleOrder, Writes
  <2>4. Asks(a, op, r.id, extra, flag, {}, page.filter)
    BY <2>1, <2>2, <2>3, AskedOfTyped
  <2> HIDE DEF a
  <2>5. Meant(a)
    BY <1>13, <2>1, <2>4 DEF Asks, Meant
  <2>6. AskDid(a)
    BY <1>1, <1>13, <2>4, <2>5 DEF AskDid, Asks, Sound, OfPage, AsksOf, SigningIn
  <2>7. Stays(AfterUsersSent(page), calls \cup {a})
    BY <1>13 DEF Does, a
  <2> QED BY <1>11, <2>6, <2>7, DidOneAsk
<1>14. page.newActive \in BOOLEAN
  BY <1>1 DEF UsersPages
<1>15. CASE \/ /\ ~DialogOpen(page)
               /\ \E f \in (0 .. Len(RoleOrder)) \ {page.filter} :
                    Does(Reloading([page EXCEPT !.filter = f]), {AskedFor("users", f, 0, FALSE)})
            \/ /\ ~DialogOpen(page)
               /\ \/ \E id \in OnScreen(page) : Does(AfterTick(page, id), {})
                  \/ OnScreen(page) # {} /\ Does(AfterTickAll(page), {})
            \/ /\ ~DialogOpen(page)
               /\ \/ Chosen(page) # {} /\ Does(AfterRemovalAsked(page), {})
                  \/ Chosen(page) # {} /\ Does([page EXCEPT !.picked = {}], {})
                  \/ \E row \in page.rows : Does(AfterOpenUser(page, row), {})
            \/ DialogOpen(page) /\ Does(AfterDialogClosed(page), {})
  BY <1>15, <1>3, <1>4, <1>5, <1>6, <1>7, <1>8, <1>9
<1>16. CASE \/ Does([page EXCEPT !.reason = TRUE], {})
            \/ \E role \in ToSet(RoleOrder) \ {page.newRole} : Does([page EXCEPT !.newRole = role], {})
            \/ Does([page EXCEPT !.newActive = ~@], {})
            \/ Does([page EXCEPT !.password = TRUE], {})
  BY <1>16, <1>10
<1>17. CASE \E r \in page.selected, n \in DOMAIN RoleOrder :
              \/ Does(AfterUsersSent(page),
                      {AskedOf("update", r.id, n, page.newActive, {}, page.filter)})
              \/ Does(AfterUsersSent(page),
                      {AskedOf("password", r.id, 0, FALSE, {}, page.filter)})
  BY <1>17, <1>13, <1>14
<1> QED BY <1>12, <1>15, <1>16, <1>17 DEF UsersActs, RemovalOffered

\* The page a box is ticked on, and what is asked for.
LEMMA BoxTyped ==
  ASSUME page \in RolesPages, NEW b \in Boxes
  PROVE  /\ b[1] \in DOMAIN PermissionRows /\ b[2] \in DOMAIN Actions
         /\ Actions[b[2]] \in ToSet(Actions)
         /\ AfterBox(page, b) \in RolesPages
         /\ AfterBox(page, b).many = page.many
         /\ AfterBox(page, b).loaded = page.loaded /\ AfterBox(page, b).behind = page.behind
         /\ AfterBox(page, b).grid =
              [page.grid EXCEPT ![b[1]] = Mirrored(page.grid[b[1]], Actions[b[2]],
                                                  Actions[b[2]] \notin page.grid[b[1]])]
<1> DEFINE ticks == page.grid[b[1]]
           next == Mirrored(ticks, Actions[b[2]], Actions[b[2]] \notin ticks)
           grid == [page.grid EXCEPT ![b[1]] = next]
<1>1. b[1] \in DOMAIN PermissionRows /\ b[2] \in DOMAIN Actions
  BY DEF Boxes
<1>2. Actions[b[2]] \in ToSet(Actions)
  BY <1>1 DEF ToSet
<1>3. page.grid \in [DOMAIN PermissionRows -> SUBSET ToSet(Actions)]
  BY DEF RolesPages, Grids
<1>4. next \in SUBSET ToSet(Actions)
  BY <1>1, <1>2, <1>3 DEF Mirrored
<1>5. AfterBox(page, b) = [page EXCEPT !.busy = b, !.grid = grid]
  <2>1. DOMAIN page = {"screen", "grid", "many", "loaded", "error", "busy", "resetting", "behind"}
    BY DEF RolesPages
  <2> QED BY <1>1, <1>3, <2>1 DEF AfterBox
<1>6. grid \in Grids
  BY <1>1, <1>3, <1>4 DEF Grids
<1> HIDE DEF grid
<1>7. /\ AfterBox(page, b) \in RolesPages /\ AfterBox(page, b).grid = grid
      /\ AfterBox(page, b).many = page.many
      /\ AfterBox(page, b).loaded = page.loaded /\ AfterBox(page, b).behind = page.behind
  BY <1>5, <1>6 DEF RolesPages
<1> QED BY <1>1, <1>2, <1>7 DEF grid

\* What it does to the permissions: the page draws what it asks for.
Draws(p, a) ==
    /\ p \in RolesPages /\ p.loaded = page.loaded /\ p.behind = page.behind
    /\ a.op \in {"box", "switch", "reset"}
    /\ a.op = "box" =>
         /\ p.many = page.many
         /\ p.grid = [page.grid EXCEPT ![a.about] =
                        Mirrored(page.grid[a.about], Actions[a.extra], a.flag)]
    /\ a.op = "reset" => p.grid = page.grid /\ p.many = page.many

LEMMA RolesActsDid ==
  ASSUME BrowserTyped, RolesActs
  PROVE  \E p, a : Draws(p, a) /\ Did(p, {a})
<1>1. page.screen = "roles" /\ page \in RolesPages
  BY TypedParts, PageOfScreen DEF RolesActs, On, Screened
<1>2. ASSUME NEW p \in RolesPages PROVE PageDid(p)
  BY <1>1 DEF PageDid, Pages, RolesPages
<1>3. ASSUME NEW p \in RolesPages, NEW a \in Asked, Draws(p, a), Meant(a),
             a.op \in {"box", "switch", "reset"}, a.by = "page", a.answer \in {"none", "401"},
             Stays(p, calls \cup {a})
      PROVE  \E q, b : Draws(q, b) /\ Did(q, {b})
  <2>1. AskDid(a)
    BY <1>1, <1>3 DEF AskDid, Sound, OfPage, AsksOf, SigningIn
  <2>2. Did(p, {a})
    BY <1>2, <1>3, <2>1 DEF Did
  <2> QED BY <1>3, <2>2
<1>4. {"box", "switch", "reset"} \subseteq Reads \cup Writes /\ 0 \in Nat /\ FALSE \in BOOLEAN
  BY DEF Writes
<1>5. ASSUME NEW b \in Boxes,
             Stays(AfterBox(page, b),
                   calls \cup {AskedFor("box", b[1], b[2], Actions[b[2]] \notin page.grid[b[1]])})
      PROVE  \E p, a : Draws(p, a) /\ Did(p, {a})
  <2> DEFINE flag == Actions[b[2]] \notin page.grid[b[1]]
             p == AfterBox(page, b)
             a == AskedFor("box", b[1], b[2], flag)
  <2>1. b[1] \in Nat /\ b[2] \in Nat /\ b = <<b[1], b[2]>>
    BY DEF Boxes, PermissionRows, Actions
  <2>2. flag \in BOOLEAN
    OBVIOUS
  <2>3. /\ p \in RolesPages /\ p.many = page.many
        /\ p.loaded = page.loaded /\ p.behind = page.behind
        /\ p.grid = [page.grid EXCEPT ![b[1]] = Mirrored(page.grid[b[1]], Actions[b[2]], flag)]
    BY <1>1, BoxTyped
  <2>4. Stays(p, calls \cup {a})
    BY <1>5
  <2> HIDE DEF flag, p
  <2>5. Asks(a, "box", b[1], b[2], flag, {}, 0)
    BY <1>4, <2>1, <2>2, AskedForTyped
  <2> HIDE DEF a
  <2>6. a.op = "box" /\ a.about = b[1] /\ a.extra = b[2] /\ (a.flag <=> flag)
    BY <2>5 DEF Asks
  <2>7. Mirrored(page.grid[b[1]], Actions[b[2]], flag) = Mirrored(page.grid[b[1]], Actions[b[2]], a.flag)
    BY <2>6 DEF Mirrored
  <2>8. Draws(p, a)
    BY <2>3, <2>6, <2>7 DEF Draws
  <2>9. a \in Asked /\ Meant(a) /\ a.op = "box" /\ a.by = "page" /\ a.answer \in {"none", "401"}
    BY <2>1, <2>5 DEF Asks, Meant
  <2> QED BY <1>3, <2>3, <2>4, <2>8, <2>9
<1>6. ASSUME NEW allow \in BOOLEAN,
             Stays(AfterSwitch(page, allow), calls \cup {AskedFor("switch", 0, 0, allow)})
      PROVE  \E p, a : Draws(p, a) /\ Did(p, {a})
  <2> DEFINE p == AfterSwitch(page, allow)
             a == AskedFor("switch", 0, 0, allow)
  <2>1. p \in RolesPages /\ p.loaded = page.loaded /\ p.behind = page.behind
    BY <1>1 DEF AfterSwitch, RolesPages
  <2>2. Asks(a, "switch", 0, 0, allow, {}, 0)
    BY <1>4, AskedForTyped
  <2>3. Draws(p, a)
    BY <2>1, <2>2 DEF Asks, Draws
  <2>4. Stays(p, calls \cup {a})
    BY <1>6
  <2> HIDE DEF p, a
  <2>5. /\ a \in Asked /\ Meant(a) /\ a.by = "page" /\ a.answer \in {"none", "401"}
        /\ a.op \in {"box", "switch", "reset"}
    BY <2>2 DEF Asks, Meant
  <2> QED BY <1>3, <2>1, <2>3, <2>4, <2>5
<1>7. ASSUME Stays(AfterReset(page), calls \cup {AskedFor("reset", 0, 0, FALSE)})
      PROVE  \E p, a : Draws(p, a) /\ Did(p, {a})
  <2> DEFINE p == AfterReset(page)
             a == AskedFor("reset", 0, 0, FALSE)
  <2>1. /\ p \in RolesPages /\ p.loaded = page.loaded /\ p.behind = page.behind
        /\ p.grid = page.grid /\ p.many = page.many
    BY <1>1 DEF AfterReset, RolesPages
  <2>2. Asks(a, "reset", 0, 0, FALSE, {}, 0)
    BY <1>4, AskedForTyped
  <2>3. Draws(p, a)
    BY <2>1, <2>2 DEF Asks, Draws
  <2>4. Stays(p, calls \cup {a})
    BY <1>7
  <2> HIDE DEF p, a
  <2>5. /\ a \in Asked /\ Meant(a) /\ a.by = "page" /\ a.answer \in {"none", "401"}
        /\ a.op \in {"box", "switch", "reset"}
    BY <2>2 DEF Asks, Meant
  <2> QED BY <1>3, <2>1, <2>3, <2>4, <2>5
<1> QED BY <1>5, <1>6, <1>7 DEF RolesActs, BoxesOffered

-----------------------------------------------------------------------------
(***************************************************************************)
(* What the person does on a page leaves the session and, but for the      *)
(* histories, the server as they were.                                     *)
(***************************************************************************)
Acts ==
    \/ SignInActs
    \/ PasswordActs
    \/ CorrectionActs
    \/ HistoryActs
    \/ ProfileActs
    \/ NotificationActs
    \/ UsersActs
    \/ RolesActs

Spends ==
    UNCHANGED left \/ \E what \in {"moves", "fills", "sends", "others", "signins"} : Spend(what)

LEMMA SpendsLess ==
  ASSUME left \in Bound, Spends
  PROVE  /\ left' \in Bound /\ left'.sends <= left.sends /\ left'.signins <= left.signins
         /\ left'.secrets = left.secrets
<1>1. left.sends \in Nat /\ left.signins \in Nat
  BY MaxSendsAssumption DEF Bound
<1> QED BY <1>1, SpendTyped DEF Spends

ActsKeep ==
    /\ UNCHANGED <<session, shared, store, call, leaving>>
    /\ UNCHANGED service /\ UNCHANGED <<accounts, granted, many, erased>>
    /\ \/ confirmed' = confirmed
       \/ page.screen = "users" /\ confirmed' = confirmed \cup page.ticked
    /\ Spends

LEMMA ActsAreKept ==
  ASSUME Acts
  PROVE  ActsKeep /\ (UNCHANGED crossed \/ (RolesActs /\ crossed' = (crossed \/ GridCalls # {})))
<1>1. CASE \E p, asked : Does(p, asked) /\ Spends
  BY <1>1 DEF Does, vars, server, system, ActsKeep
<1>2. CASE SignInActs
  BY <1>1, <1>2 DEF SignInActs, Spends
<1>3. CASE PasswordActs
  BY <1>1, <1>3 DEF PasswordActs, Spends
<1>4. CASE CorrectionActs
  BY <1>1, <1>4 DEF CorrectionActs, Spends
<1>5. CASE HistoryActs
  BY <1>1, <1>5 DEF HistoryActs, Spends
<1>6. CASE ProfileActs
  BY <1>1, <1>6 DEF ProfileActs, Spends
<1>7. CASE NotificationActs
  BY <1>1, <1>7 DEF NotificationActs, Spends
<1>8. CASE UsersActs
  <2>1. \/ \E p, asked : Does(p, asked) /\ Spends
        \/ /\ confirmed' = confirmed \cup page.ticked /\ Spend("sends") /\ On("users")
           /\ UNCHANGED <<vars, service, accounts, granted, many, erased, crossed>>
    BY <1>8 DEF UsersActs, Spends
  <2> QED BY <1>1, <2>1 DEF ActsKeep, Spends, vars, On
<1>9. CASE RolesActs
  <2>1. /\ Spend("sends") /\ crossed' = (crossed \/ GridCalls # {})
        /\ UNCHANGED <<vars, service, accounts, granted, many, erased, confirmed>>
    BY <1>9 DEF RolesActs
  <2> QED BY <1>9, <2>1 DEF ActsKeep, Spends, vars
<1> QED BY <1>2, <1>3, <1>4, <1>5, <1>6, <1>7, <1>8, <1>9 DEF Acts

LEMMA ActsDid ==
  ASSUME BrowserTyped, Acts
  PROVE  \E p, asked : Did(p, asked)
  BY SignInActsDid, PasswordActsDid, CorrectionActsDid, HistoryActsDid, ProfileActsDid,
     NotificationActsDid, UsersActsDid, RolesActsDid DEF Acts

LEMMA ActsTyped ==
  ASSUME BrowserTyped, Acts
  PROVE  BrowserTyped'
<1>1. /\ TypeOK /\ ServiceTypeOK /\ SystemTypeOK /\ left \in Bound /\ Screened
  BY TypedParts
<1>2. ActsKeep /\ crossed' \in BOOLEAN
  BY <1>1, ActsAreKept DEF SystemTypeOK
<1>3. Screened'
  BY <1>1, ActsDid, DidScreened
<1>4. left' \in Bound
  BY <1>1, <1>2, SpendsLess DEF ActsKeep
<1>5. TypeOK'
  BY <1>1, <1>2 DEF ActsKeep, TypeOK
<1>6. ServiceTypeOK'
  BY <1>1, <1>2 DEF ActsKeep, ServiceTypeOK, service
<1>7. SystemTypeOK'
  <2>1. confirmed' \subseteq Accounts
    <3>1. page.screen = "users" => page.ticked \subseteq Accounts
      BY <1>1, PageOfScreen DEF Screened, UsersPages
    <3>2. confirmed \subseteq Accounts
      BY <1>1 DEF SystemTypeOK
    <3>3. confirmed' = confirmed \/ (page.screen = "users" /\ confirmed' = confirmed \cup page.ticked)
      BY <1>2 DEF ActsKeep
    <3> QED BY <3>1, <3>2, <3>3
  <2>2. UNCHANGED <<accounts, granted, many, erased>>
    BY <1>2 DEF ActsKeep
  <2> QED BY <1>1, <1>2, <2>1, <2>2 DEF SystemTypeOK
<1> QED BY <1>3, <1>4, <1>5, <1>6, <1>7, TypedPartsNext

-----------------------------------------------------------------------------
(***************************************************************************)
(* Types: every step keeps them.                                           *)
(***************************************************************************)

\* What is asked for in the name of k leaves the server and the bounds alone.
LEMMA HearTyped ==
  ASSUME BrowserTyped, NEW k \in calls,
         HearOk(k) \/ HearFailed(k) \/ HearUnauthorized(k) \/ HearRevoked(k)
  PROVE  BrowserTyped'
<1>1. TypeOK /\ ServiceTypeOK /\ SystemTypeOK /\ left \in Bound
  BY TypedParts
<1>2. Screened'
  BY HearOkScreened, HearFailedScreened, HearUnauthorizedScreened, HearRevokedScreened
<1>3. UNCHANGED <<session, shared>> /\ UNCHANGED member
  BY DEF HearOk, HearFailed, HearUnauthorized, HearRevoked, vars
<1>4. store' \in Nat
  <2>1. store' \in {store, session.token, None}
    BY DEF HearOk, HearFailed, HearUnauthorized, HearRevoked, vars
  <2>2. store \in Nat /\ session.token \in Nat
    BY <1>1 DEF TypeOK, Session, Secrets
  <2> QED BY <2>1, <2>2 DEF None
<1>5. call' \in [Callers -> Call] /\ leaving' \in [Callers -> Leaving]
  <2>1. Quiet \in Call /\ Staying \in Leaving
    BY DEF Call, Leaving, Quiet, Staying
  <2> QED
    BY <1>1, <2>1 DEF HearOk, HearFailed, HearUnauthorized, HearRevoked, vars, TypeOK
<1>6. TypeOK'
  BY <1>1, <1>3, <1>4, <1>5 DEF TypeOK
<1>7. ServiceTypeOK' /\ SystemTypeOK' /\ left' \in Bound
  BY <1>1, <1>3 DEF member, server, service, system, ServiceTypeOK, SystemTypeOK
<1> QED BY <1>2, <1>6, <1>7, TypedPartsNext

LEMMA ServerTyped ==
  ASSUME BrowserTyped, NEW k \in calls, Serve(k) \/ Refuse(k) \/ Drop(k)
  PROVE  BrowserTyped'
<1>1. /\ TypeOK /\ ServiceTypeOK /\ SystemTypeOK /\ left \in Bound /\ Screened
      /\ k \in Asked /\ Meant(k)
  BY TypedParts DEF Screened, Sound
<1>2. left' \in Bound
  BY <1>1 DEF Serve, Refuse, Drop
<1>3. Screened'
  <2>1. "ok" \in Answers /\ "failed" \in Answers
    BY DEF Answers
  <2>2. CASE Drop(k)
    BY <1>1, <2>2 DEF Drop, Screened, Sound, Meant, OfPage
  <2> QED BY <1>1, <2>1, <2>2, AnsweredScreened DEF Serve, Refuse
<1>4. TypeOK'
  <2>1. [Next]_vars
    BY DEF Serve, Refuse, Drop, Next
  <2> QED BY <1>1, <2>1, SessionNextTyped
<1>5. ServiceTypeOK' /\ SystemTypeOK'
  <2>1. CASE Serve(k) /\ MemberEffect(k) /\ UNCHANGED system
    <3>1. ServiceTypeOK'
      BY <1>1, <2>1, MemberEffectTyped
    <3> QED BY <1>1, <2>1, <3>1 DEF system, SystemTypeOK
  <2>2. CASE Serve(k) /\ AdminEffect(k) /\ UNCHANGED service
    <3>1. SystemTypeOK'
      BY <1>1, <2>2, AdminEffectTyped
    <3> QED BY <1>1, <2>2, <3>1 DEF service, ServiceTypeOK
  <2>3. CASE UNCHANGED server
    BY <1>1, <2>3 DEF server, service, system, ServiceTypeOK, SystemTypeOK
  <2> QED BY <2>1, <2>2, <2>3 DEF Serve, Effect, Refuse, Drop
<1> QED BY <1>2, <1>3, <1>4, <1>5, TypedPartsNext

LEMMA OthersActTyped ==
  ASSUME BrowserTyped, OthersAct
  PROVE  BrowserTyped'
<1>1. TypeOK /\ ServiceTypeOK /\ SystemTypeOK /\ left \in Bound /\ Screened
  BY TypedParts
<1>2. TypeOK' /\ Screened'
  BY <1>1 DEF OthersAct, vars, browser, TypeOK, Screened, Sound, Meant, OfPage
<1>3. CASE (Reviewing \/ DecideJoin) /\ UNCHANGED system /\ UNCHANGED left
  <2>1. ServiceTypeOK'
    BY <1>1, <1>3, ReviewingTyped, DecideJoinTyped
  <2> QED BY <1>1, <1>2, <1>3, <2>1, TypedPartsNext DEF system, SystemTypeOK
<1>4. CASE OtherAdministers /\ Spend("others") /\ UNCHANGED service
  <2>1. SystemTypeOK' /\ left' \in Bound
    BY <1>1, <1>4, OtherAdministersTyped, SpendTyped
  <2> QED BY <1>1, <1>2, <1>4, <2>1, TypedPartsNext DEF service, ServiceTypeOK
<1> QED BY <1>3, <1>4 DEF OthersAct

\* Going somewhere, by a link, from a dialog or from the notice.
Moves ==
    \/ \E path \in left.paths : GoTo(path)
    \/ AskForCorrection
    \/ GiveUp

LEMMA MovesGo ==
  ASSUME BrowserTyped, Moves
  PROVE  \E f \in Frames :
           \/ Becomes(f, page, calls)
           \/ \E p : Fresh(p) /\ p.screen = PageAt(f.path, FALSE).screen /\ Goes(f, p, calls)
                       /\ Spend("moves")
<1>1. left \in Bound /\ frame \in Frames /\ page \in Pages
  BY TypedParts DEF Screened
<1>2. Holds \in BOOLEAN /\ Holds' \in BOOLEAN
  BY DEF Holds
<1>3. ASSUME NEW path \in left.paths, GoTo(path)
      PROVE  \E f \in Frames : Becomes(f, page, calls)
  <2>1. path \in Addresses
    BY <1>1 DEF Bound
  <2>2. Raised(path, Holds) \in Frames
    BY <1>2, <2>1, RaisedTyped
  <2> QED BY <1>3, <2>2 DEF GoTo
<1>4. CASE AskForCorrection
  <2> DEFINE f == Raised(<<"corrections">>, Holds)
             p == IF Holds THEN OpenedCorrections(page.day) ELSE PageAt(f.path, FALSE)
  <2>1. f \in Frames
    BY <1>2, ScreenPaths, RaisedTyped
  <2>2. Goes(f, p, calls) /\ Spend("moves") /\ page.screen = "history" /\ page.day # Nobody
    BY <1>4 DEF AskForCorrection
  <2>3. page.day \in Dates
    BY <1>1, <2>2, PageOfScreen DEF HistoryPages
  <2>4. Holds => f.path = <<"corrections">>
    BY DEF Raised
  <2>5. PageAt(<<"corrections">>, FALSE).screen = "corrections"
    BY DEF PageAt, SignInPath, ProfilePath, OpenedCorrections
  <2>6. OpenedCorrections(page.day).screen = "corrections" /\ Fresh(OpenedCorrections(page.day))
    BY <2>3, OpenedFresh DEF OpenedCorrections
  <2>7. Fresh(PageAt(f.path, FALSE))
    BY PageAtFresh
  <2> HIDE DEF f
  <2>8. Fresh(p) /\ p.screen = PageAt(f.path, FALSE).screen
    BY <2>4, <2>5, <2>6, <2>7
  <2> HIDE DEF p
  <2> QED BY <2>1, <2>2, <2>8
<1>5. CASE GiveUp
  <2>1. Replaced(frame, SignInPath, Holds) \in Frames
    BY <1>1, <1>2, ReplacedTyped DEF Addresses
  <2> QED BY <1>5, <2>1 DEF GiveUp
<1> QED BY <1>3, <1>4, <1>5 DEF Moves

LEMMA MovesScreened ==
  ASSUME BrowserTyped, Moves
  PROVE  Screened'
<1>1. PICK f \in Frames :
           \/ Becomes(f, page, calls)
           \/ \E p : Fresh(p) /\ p.screen = PageAt(f.path, FALSE).screen /\ Goes(f, p, calls)
                       /\ Spend("moves")
  BY MovesGo
<1>2. Screened /\ page \in Pages /\ (\A k \in calls : Sound(k, page.screen))
  BY TypedParts DEF Screened
<1>3. CASE Becomes(f, page, calls)
  BY <1>2, <1>3, BecomesScreened
<1>4. ASSUME NEW p, Fresh(p), p.screen = PageAt(f.path, FALSE).screen, Goes(f, p, calls)
      PROVE  Screened'
  <2>1. \A k \in calls : k \in Asked /\ Meant(k)
    BY <1>2 DEF Sound
  <2> QED BY <1>4, <2>1, GoesScreened
<1> QED BY <1>1, <1>3, <1>4

LEMMA MovesKeep ==
  ASSUME Moves
  PROVE  UNCHANGED <<session, shared, store, call, leaving>> /\ UNCHANGED server /\ Spends
  BY DEF Moves, GoTo, AskForCorrection, GiveUp, vars, member, Spends

LEMMA MovesTyped ==
  ASSUME BrowserTyped, Moves
  PROVE  BrowserTyped'
<1>1. TypeOK /\ ServiceTypeOK /\ SystemTypeOK /\ left \in Bound
  BY TypedParts
<1>2. TypeOK'
  BY <1>1, MovesKeep DEF TypeOK
<1>3. ServiceTypeOK' /\ SystemTypeOK'
  BY <1>1, MovesKeep DEF server, service, system, ServiceTypeOK, SystemTypeOK
<1>4. left' \in Bound
  BY <1>1, MovesKeep, SpendsLess
<1> QED BY <1>2, <1>3, <1>4, MovesScreened, TypedPartsNext

LEMMA SessionMovesTyped ==
  ASSUME BrowserTyped, SessionMoves
  PROVE  BrowserTyped'
<1>1. TypeOK /\ ServiceTypeOK /\ SystemTypeOK /\ left \in Bound /\ Screened
  BY TypedParts
<1>2. Next /\ UNCHANGED member
  BY DEF SessionMoves, Next, SignOutStep
<1>3. TypeOK'
  BY <1>1, <1>2, SessionNextTyped
<1>4. ServiceTypeOK' /\ SystemTypeOK' /\ left' \in Bound
  BY <1>1, <1>2 DEF member, server, service, system, ServiceTypeOK, SystemTypeOK
<1>5. ASSUME UNCHANGED browser PROVE Screened'
  BY <1>1, <1>5 DEF browser, Screened, Sound, Meant, OfPage
<1>6. ASSUME Becomes(Replaced(frame, SignInPath, FALSE), page, calls) PROVE Screened'
  <2>1. Replaced(frame, SignInPath, FALSE) \in Frames
    BY <1>1, ReplacedTyped DEF Screened, Addresses
  <2>2. page \in Pages /\ \A k \in calls : Sound(k, page.screen)
    BY <1>1 DEF Screened
  <2> QED BY <1>1, <1>6, <2>1, <2>2, BecomesScreened
<1>7. Screened'
  BY <1>5, <1>6 DEF SessionMoves
<1> QED BY <1>3, <1>4, <1>7, TypedPartsNext

LEMMA StutterTyped ==
  ASSUME BrowserTyped, UNCHANGED allVars
  PROVE  BrowserTyped'
<1>1. TypeOK /\ ServiceTypeOK /\ SystemTypeOK /\ left \in Bound /\ Screened
  BY TypedParts
<1>2. TypeOK' /\ left' \in Bound /\ Screened'
  BY <1>1 DEF allVars, vars, browser, member, TypeOK, Screened, Sound, Meant, OfPage
<1>3. ServiceTypeOK' /\ SystemTypeOK'
  BY <1>1 DEF allVars, member, server, service, system, ServiceTypeOK, SystemTypeOK
<1> QED BY <1>2, <1>3, TypedPartsNext

\* The steps there are.
LEMMA StepsOf ==
  ASSUME [BrowserNext]_allVars
  PROVE  \/ \E k \in calls : HearOk(k) \/ HearFailed(k) \/ HearUnauthorized(k) \/ HearRevoked(k)
         \/ \E k \in calls : Serve(k) \/ Refuse(k) \/ Drop(k)
         \/ OthersAct
         \/ Moves
         \/ Acts
         \/ SessionMoves
         \/ UNCHANGED allVars
  BY DEF BrowserNext, Requests, PersonActs, Moves, Acts

LEMMA TypedNext == BrowserTyped /\ [BrowserNext]_allVars => BrowserTyped'
  BY StepsOf, HearTyped, ServerTyped, OthersActTyped, MovesTyped, ActsTyped,
     SessionMovesTyped, StutterTyped

LEMMA TypedInit == BrowserInit => BrowserTyped
<1> SUFFICES ASSUME BrowserInit PROVE BrowserTyped
  OBVIOUS
<1>1. left \in Bound
  BY BoundsAssumption DEF BrowserInit
<1>2. left.start \in Addresses /\ left.role \in Roles /\ left.told \subseteq Sends
  BY <1>1 DEF Bound
<1>3. Holds \in BOOLEAN
  BY DEF Holds
<1>4. TypeOK
  BY DEF BrowserInit, TypeOK, Session, Call, Quiet, Leaving, Staying, None, Secrets
<1>5. ServiceTypeOK
  <2>1. holder \in Holder
    BY DEF BrowserInit, ServiceInit, Holder, Profile
  <2>2. notes \subseteq [id : Sends, read : BOOLEAN]
    BY <1>2 DEF BrowserInit, ServiceInit
  <2>3. reviews \in [Reviewers -> Review]
    BY DEF BrowserInit, ServiceInit, Review
  <2>4. filed = <<>> /\ DOMAIN filed = {} /\ applied = {} /\ taken = {}
    BY DEF BrowserInit, ServiceInit
  <2> QED BY <2>1, <2>2, <2>3, <2>4 DEF ServiceTypeOK
<1>6. SystemTypeOK
  <2>1. Roles = ToSet(RoleOrder)
    BY DEF Roles, GroupOrder, ToSet, RoleOrder
  <2>2. ASSUME NEW id \in Accounts PROVE RoleOrder[1 + (id % 2)] \in ToSet(RoleOrder)
    <3>1. id \in Nat
      BY AccountsAssumption
    <3>2. 1 + (id % 2) \in 1 .. 2
      BY <3>1
    <3> QED BY <3>2 DEF ToSet, RoleOrder
  <2>3. DOMAIN accounts \subseteq Accounts
    BY AccountsAssumption DEF BrowserInit, SystemInit
  <2>4. \A id \in DOMAIN accounts : accounts[id] \in Account
    BY <1>2, <2>1, <2>2, <2>3 DEF BrowserInit, SystemInit, Account
  <2>5. DefaultPermissions \in Grids
    BY DEF DefaultPermissions, Grids, PermissionRows, ToSet, Actions
  <2> QED BY <2>3, <2>4, <2>5 DEF BrowserInit, SystemInit, SystemTypeOK
<1>7. Screened
  <2>1. frame = Raised(left.start, Holds) /\ page = PageAt(frame.path, FALSE)
          /\ calls = FirstReads(frame, Holds)
    BY DEF BrowserInit
  <2>2. frame \in Frames
    BY <1>2, <1>3, <2>1, RaisedTyped
  <2>3. page \in Pages /\ (frame.path = SignInPath => page.screen = "login")
    BY <2>1, PageAtFresh DEF Fresh
  <2>4. \A k \in calls : Sound(k, page.screen)
    BY <1>3, <2>1, FirstReadsSound
  <2> QED BY <2>2, <2>3, <2>4 DEF Screened
<1> QED BY <1>1, <1>4, <1>5, <1>6, <1>7, TypedParts

(***************************************************************************)
(* The session, what is on screen, the requests under way and what the     *)
(* server keeps have their types, for whatever account, page and faults:   *)
(* no answer that comes late is taken by a page of another kind, as the    *)
(* frame every page brings takes its handlers with it (Shell.tsx).         *)
(***************************************************************************)
THEOREM BrowserTypesHold == BrowserSpec => [](TypeOK /\ BrowserTypeOK)
<1>1. BrowserTyped => TypeOK /\ BrowserTypeOK
  BY DEF BrowserTyped
<1> QED BY TypedInit, TypedNext, <1>1, PTL DEF BrowserSpec

LEMMA TypedAlways == BrowserSpec => []BrowserTyped
  BY TypedInit, TypedNext, PTL DEF BrowserSpec

-----------------------------------------------------------------------------
(***************************************************************************)
(* Where the requests under way come from, when the server does nothing    *)
(* and the person sends nothing: each was there before, though others may  *)
(* wait for it now, or it reads, or it follows one that was answered.      *)
(***************************************************************************)
GoesOn(c, k) ==
    c.op = "erase" /\ k.op = "erase" /\ c.about \in k.rest /\ c.rest \subseteq k.rest

Carried ==
    \E g : \A c \in calls' :
        \/ c.op \in Reads \cup {"first"}
        \/ \E k \in calls : GoesOn(c, k)
        \/ \E l \in calls : c = g[l] /\ Same(c, l)

LEMMA GoesCarries ==
  ASSUME NEW f, NEW p, NEW asked \in SUBSET Asked, Goes(f, p, asked)
  PROVE  \E h : \A c \in calls' : c.op \in Reads \/ \E l \in asked : c = h[l] /\ Same(c, l)
<1> DEFINE h == [l \in asked |-> [l EXCEPT !.by = IF l.by = "lost" THEN "lost" ELSE "past"]]
<1>1. ASSUME NEW c \in calls'
      PROVE  c.op \in Reads \/ \E l \in asked : c = h[l] /\ Same(c, l)
  <2>1. c \in Past(asked) \/ c \in FirstReads(f, Holds')
    BY DEF Goes
  <2>2. CASE c \in Past(asked)
    <3>1. PICK l \in asked :
            c = [l EXCEPT !.by = IF l.by = "lost" THEN "lost" ELSE "past"] /\ Same(c, l)
      BY <2>2, PastOf
    <3> QED BY <3>1
  <2>3. CASE c \in FirstReads(f, Holds')
    BY <2>3, FirstReadsSound DEF Holds
  <2> QED BY <2>1, <2>2, <2>3
<1> QED BY <1>1

LEMMA BecomesCarries ==
  ASSUME NEW f, NEW p, NEW asked \in SUBSET Asked, Becomes(f, p, asked)
  PROVE  /\ \E h : \A c \in calls' : c.op \in Reads \/ \E l \in asked : c = h[l] /\ Same(c, l)
         /\ page' = p \/ Fresh(page')
<1>1. CASE f.path # frame.path
  <2>1. Goes(f, PageAt(f.path, FALSE), asked)
    BY <1>1 DEF Becomes
  <2>2. Fresh(PageAt(f.path, FALSE))
    BY PageAtFresh
  <2>3. page' = PageAt(f.path, FALSE)
    BY <2>1 DEF Goes
  <2>4. Fresh(page')
    BY <2>2, <2>3 DEF Fresh
  <2> QED BY <2>1, <2>4, GoesCarries
<1>2. CASE f.path = frame.path
  <2>1. page' = p /\ calls' = asked
    BY <1>2 DEF Becomes
  <2> DEFINE h == [l \in asked |-> l]
  <2>2. \A c \in calls' : \E l \in asked : c = h[l] /\ Same(c, l)
    BY <2>1 DEF Same
  <2> QED BY <2>1, <2>2
<1> QED BY <1>1, <1>2

\* What k hands on.
HandsOn(k, asked) ==
    \A a \in asked : \/ a.op \in Reads \cup {"first"}
                     \/ GoesOn(a, k)
                     \/ a = [k EXCEPT !.by = "lost"]

LEMMA HeardCarries ==
  ASSUME Screened, NEW k \in calls, NEW f, NEW p, NEW asked \in SUBSET Asked,
         HandsOn(k, asked), Heard(k, p, f, asked)
  PROVE  /\ Carried
         /\ page' = (IF k.by = "page" THEN p ELSE page) \/ Fresh(page')
<1> DEFINE all == (calls \ {k}) \cup Passed(k, asked)
           q == IF k.by = "page" THEN p ELSE page
           lost == [k EXCEPT !.by = "lost"]
<1>1. calls \subseteq Asked /\ k \in Asked /\ k.by \in {"page", "past", "lost"}
  BY DEF Screened, Sound, Asked
<1>2. ASSUME NEW l \in Passed(k, asked)
      PROVE  l \in Asked /\ (\/ l.op \in Reads \cup {"first"}
                             \/ GoesOn(l, k)
                             \/ l = lost /\ Same(l, k))
  <2>1. PICK a \in asked : l = [a EXCEPT !.by = IF a.by = "lost" THEN "lost" ELSE k.by]
    BY DEF Passed
  <2>2. l \in Asked /\ Same(l, a)
    BY <1>1, <2>1, WaitedForBy
  <2>3. CASE a.op \in Reads \cup {"first"} \/ GoesOn(a, k)
    BY <2>2, <2>3 DEF Same, GoesOn
  <2>4. CASE a = lost
    <3>1. a \in Asked /\ a.by = "lost" /\ Same(a, k)
      BY <1>1, <2>4, WaitedForBy
    <3>2. l = a
      BY <2>1, <3>1 DEF Asked
    <3> QED BY <2>4, <3>1, <3>2
  <2> QED BY <2>2, <2>3, <2>4 DEF HandsOn
<1>3. all \in SUBSET Asked
  BY <1>1, <1>2
<1>4. Becomes(f, q, all)
  BY DEF Heard, Passed
<1> HIDE DEF all, q
<1>5. /\ \E h : \A c \in calls' : c.op \in Reads \/ \E l \in all : c = h[l] /\ Same(c, l)
      /\ page' = q \/ Fresh(page')
  BY <1>3, <1>4, BecomesCarries
<1>6. PICK h : \A c \in calls' : c.op \in Reads \/ \E l \in all : c = h[l] /\ Same(c, l)
  BY <1>5
<1> DEFINE g == [l \in calls |-> IF l = k THEN h[lost] ELSE h[l]]
<1> HIDE DEF lost
<1>7. ASSUME NEW c \in calls'
      PROVE  \/ c.op \in Reads \cup {"first"}
             \/ GoesOn(c, k)
             \/ \E l \in calls : c = g[l] /\ Same(c, l)
  <2>1. CASE c.op \in Reads
    BY <2>1
  <2>2. CASE \E l \in all : c = h[l] /\ Same(c, l)
    <3>1. PICK l \in all : c = h[l] /\ Same(c, l)
      BY <2>2
    <3>2. CASE l \in calls \ {k}
      BY <3>1, <3>2
    <3>3. CASE l \in Passed(k, asked)
      <4>1. CASE l.op \in Reads \cup {"first"} \/ GoesOn(l, k)
        BY <3>1, <4>1 DEF Same, GoesOn
      <4>2. CASE l = lost /\ Same(l, k)
        <5>1. c = g[k] /\ Same(c, k)
          BY <3>1, <4>2 DEF Same
        <5> QED BY <5>1
      <4> QED BY <1>2, <3>3, <4>1, <4>2
    <3> QED BY <3>1, <3>2, <3>3 DEF all
  <2> QED BY <1>6, <2>1, <2>2
<1> HIDE DEF g
<1>8. Carried
  BY <1>7 DEF Carried
<1> QED BY <1>5, <1>8 DEF q

\* The page that is left: the one there was, one that has just come up, or what
\* its handler made of an answer.
PageGoesOn ==
    \/ page' = page
    \/ Fresh(page')
    \/ \E k \in calls :
         /\ k.by = "page"
         /\ \/ page' = AfterNotOk(k)
            \/ HearOk(k) /\ page' = AfterOk(k)

LEMMA HearOkCarries ==
  ASSUME BrowserTyped, NEW k \in calls, HearOk(k)
  PROVE  Carried /\ PageGoesOn
<1>1. k \in Asked /\ Meant(k) /\ Screened
  BY TypedParts DEF Screened, Sound
<1>2. PICK f : Heard(k, AfterOk(k), f, AsksNext(k))
  BY DEF HearOk
<1>3. \A a \in AsksNext(k) : Follows(a, a.op) /\ (\/ a.op \in Reads
                                                  \/ a.op = "first"
                                                  \/ GoesOn(a, k))
  BY <1>1, AsksNextSound DEF GoesOn
<1>4. AsksNext(k) \in SUBSET Asked /\ HandsOn(k, AsksNext(k))
  BY <1>3 DEF Follows, HandsOn
<1>5. Carried /\ (page' = (IF k.by = "page" THEN AfterOk(k) ELSE page) \/ Fresh(page'))
  BY <1>1, <1>2, <1>4, HeardCarries
<1> QED BY <1>5 DEF PageGoesOn

\* Whatever the handler of a request that failed asks for.
LEMMA FailureHandsOn ==
  ASSUME NEW k \in Asked, NEW kept, kept \subseteq {[k EXCEPT !.by = "lost"]}
  PROVE  /\ AsksAfterFailure(k) \cup kept \in SUBSET Asked
         /\ HandsOn(k, AsksAfterFailure(k) \cup kept)
<1>1. ASSUME NEW a \in AsksAfterFailure(k) PROVE a \in Asked /\ a.op \in Reads
  <2>1. Follows(a, "regrid") /\ "regrid" \in Reads
    BY AsksAfterFailureSound DEF Reads
  <2> QED BY <2>1 DEF Follows
<1>2. [k EXCEPT !.by = "lost"] \in Asked
  BY WaitedForBy
<1> QED BY <1>1, <1>2 DEF HandsOn

LEMMA HearNotOkCarries ==
  ASSUME BrowserTyped, NEW k \in calls,
         HearFailed(k) \/ HearUnauthorized(k) \/ HearRevoked(k)
  PROVE  Carried /\ PageGoesOn
<1>1. k \in Asked /\ Screened
  BY TypedParts DEF Screened, Sound
<1>2. ASSUME NEW f, NEW asked \in SUBSET Asked, HandsOn(k, asked), Heard(k, AfterNotOk(k), f, asked)
      PROVE  Carried /\ PageGoesOn
  <2>1. Carried /\ (page' = (IF k.by = "page" THEN AfterNotOk(k) ELSE page) \/ Fresh(page'))
    BY <1>1, <1>2, HeardCarries
  <2> QED BY <2>1 DEF PageGoesOn
<1>3. CASE HearFailed(k)
  <2> DEFINE kept == {[l EXCEPT !.by = "lost"] :
                        l \in {m \in {k} : m.op \in Writes /\ m.answer = "none"}}
  <2>1. PICK f : Heard(k, AfterNotOk(k), f, AsksAfterFailure(k) \cup kept)
    BY <1>3 DEF HearFailed
  <2>2. kept \subseteq {[k EXCEPT !.by = "lost"]}
    OBVIOUS
  <2> HIDE DEF kept
  <2> QED BY <1>1, <1>2, <2>1, <2>2, FailureHandsOn
<1>4. CASE HearUnauthorized(k)
  <2>1. PICK f : Heard(k, AfterNotOk(k), f, AsksAfterFailure(k))
    BY <1>4 DEF HearUnauthorized
  <2>2. AsksAfterFailure(k) \cup {} = AsksAfterFailure(k)
    OBVIOUS
  <2> QED BY <1>1, <1>2, <2>1, <2>2, FailureHandsOn
<1>5. CASE HearRevoked(k) /\ Heard(k, AfterNotOk(k), frame, {})
  <2>1. {} \in SUBSET Asked /\ HandsOn(k, {})
    BY DEF HandsOn
  <2> QED BY <1>2, <1>5, <2>1
<1>6. CASE Loaded(Raised(SignInPath, FALSE), TRUE)
  <2> DEFINE g == [l \in calls |-> [l EXCEPT !.by = "lost"]]
  <2>1. ASSUME NEW c \in calls' PROVE \E l \in calls : c = g[l] /\ Same(c, l)
    <3>1. PICK l \in calls : c = [l EXCEPT !.by = "lost"]
      BY <1>6 DEF Loaded
    <3>2. Same(c, l)
      BY <1>1, <3>1, WaitedForBy DEF Screened, Sound
    <3> QED BY <3>1, <3>2
  <2> HIDE DEF g
  <2>2. page' = PageAt(Raised(SignInPath, FALSE).path, TRUE)
    BY <1>6 DEF Loaded
  <2>3. Fresh(page')
    BY <2>2, PageAtFresh DEF Fresh
  <2> QED BY <2>1, <2>3 DEF Carried, PageGoesOn
<1> QED BY <1>3, <1>4, <1>5, <1>6 DEF HearRevoked

LEMMA MovesCarry ==
  ASSUME BrowserTyped, Moves
  PROVE  Carried /\ (page' = page \/ Fresh(page'))
<1>1. calls \in SUBSET Asked
  BY TypedParts DEF Screened, Sound
<1>2. PICK f \in Frames :
           \/ Becomes(f, page, calls)
           \/ \E p : Fresh(p) /\ p.screen = PageAt(f.path, FALSE).screen /\ Goes(f, p, calls)
                       /\ Spend("moves")
  BY MovesGo
<1>3. CASE Becomes(f, page, calls)
  BY <1>1, <1>3, BecomesCarries DEF Carried
<1>4. ASSUME NEW p, Fresh(p), Goes(f, p, calls)
      PROVE  Carried /\ (page' = page \/ Fresh(page'))
  <2>1. page' = p
    BY <1>4 DEF Goes
  <2> QED BY <1>1, <1>4, <2>1, GoesCarries DEF Carried, Fresh
<1> QED BY <1>2, <1>3, <1>4

LEMMA StaysCarries ==
  ASSUME BrowserTyped, UNCHANGED browser
  PROVE  Carried /\ page' = page
<1> DEFINE g == [l \in calls |-> l]
<1>1. \A c \in calls' : \E l \in calls : c = g[l] /\ Same(c, l)
  BY DEF browser, Same
<1> QED BY <1>1 DEF Carried, browser

LEMMA SessionMovesCarry ==
  ASSUME BrowserTyped, SessionMoves
  PROVE  Carried /\ (page' = page \/ Fresh(page'))
<1>1. calls \in SUBSET Asked
  BY TypedParts DEF Screened, Sound
<1>2. CASE UNCHANGED browser
  BY <1>2, StaysCarries
<1>3. CASE Becomes(Replaced(frame, SignInPath, FALSE), page, calls)
  BY <1>1, <1>3, BecomesCarries DEF Carried
<1> QED BY <1>2, <1>3 DEF SessionMoves

\* Nothing is served, and nothing is sent.
Carries ==
    \/ \E k \in calls : HearOk(k) \/ HearFailed(k) \/ HearUnauthorized(k) \/ HearRevoked(k)
    \/ OthersAct
    \/ Moves
    \/ SessionMoves
    \/ UNCHANGED allVars

LEMMA CarriesOn ==
  ASSUME BrowserTyped, Carries
  PROVE  Carried /\ PageGoesOn
<1>1. OthersAct \/ UNCHANGED allVars => UNCHANGED browser
  BY DEF OthersAct, allVars, browser
<1> QED
  BY <1>1, HearOkCarries, HearNotOkCarries, MovesCarry, SessionMovesCarry, StaysCarries
     DEF Carries, PageGoesOn

LEMMA StepKinds ==
  ASSUME [BrowserNext]_allVars
  PROVE  Carries \/ Acts \/ \E k \in calls : Serve(k) \/ Refuse(k) \/ Drop(k)
  BY StepsOf DEF Carries

-----------------------------------------------------------------------------
(***************************************************************************)
(* An administrator erases what was shown.                                 *)
(***************************************************************************)
LEMMA ErasuresInit == BrowserInit => ErasuresConfirmed
<1> SUFFICES ASSUME BrowserInit PROVE ErasuresConfirmed
  OBVIOUS
<1>1. page = PageAt(frame.path, FALSE) /\ calls = FirstReads(frame, Holds)
  BY DEF BrowserInit
<1>2. page.screen = "users" => page.removing = {}
  BY <1>1, PageAtFresh DEF Fresh
<1>3. \A k \in calls : k.op \in Reads
  BY <1>1, FirstReadsSound DEF Holds
<1>4. erased = {}
  BY DEF BrowserInit, SystemInit
<1> QED BY <1>2, <1>3, <1>4 DEF ErasuresConfirmed, Reads

LEMMA ErasuresCarried ==
  ASSUME BrowserTyped, ErasuresConfirmed, Carries
  PROVE  ErasuresConfirmed'
<1>1. UNCHANGED <<erased, confirmed>>
  BY DEF Carries, HearOk, HearFailed, HearUnauthorized, HearRevoked, OthersAct, Moves, GoTo,
     AskForCorrection, GiveUp, SessionMoves, allVars, member, server, system, OtherAdministers
<1>2. Carried /\ PageGoesOn
  BY CarriesOn
<1>3. page'.screen = "users" => page'.removing \subseteq page'.ticked
  <2>1. CASE Fresh(page')
    BY <2>1 DEF Fresh
  <2>2. ASSUME NEW k \in calls, k.by = "page", page' \in {AfterOk(k), AfterNotOk(k)},
               page'.screen = "users"
        PROVE  page'.removing \subseteq page'.ticked
    <3>1. page.screen = "users"
      BY <2>2, HeardOnScreen
    <3>2. /\ \/ AfterOk(k).removing = {}
             \/ AfterOk(k).ticked = page.ticked /\ AfterOk(k).removing = page.removing
          /\ AfterNotOk(k).ticked = page.ticked /\ AfterNotOk(k).removing = page.removing
      BY <2>2, <3>1, HeardOnScreen
    <3>3. page.removing \subseteq page.ticked
      BY <3>1 DEF ErasuresConfirmed
    <3> QED BY <2>2, <3>2, <3>3
  <2>3. CASE page' = page
    BY <2>3 DEF ErasuresConfirmed
  <2> QED BY <1>2, <2>1, <2>2, <2>3 DEF PageGoesOn
<1>4. ASSUME NEW c \in calls', c.op = "erase"
      PROVE  c.about \in confirmed /\ c.rest \subseteq confirmed
  <2>1. PICK g : \A d \in calls' :
                   \/ d.op \in Reads \cup {"first"}
                   \/ \E k \in calls : GoesOn(d, k)
                   \/ \E l \in calls : d = g[l] /\ Same(d, l)
    BY <1>2 DEF Carried
  <2>2. (\E k \in calls : GoesOn(c, k)) \/ (\E l \in calls : Same(c, l))
    BY <1>4, <2>1 DEF Reads
  <2> QED BY <1>4, <2>2 DEF GoesOn, Same, ErasuresConfirmed
<1> QED BY <1>1, <1>3, <1>4 DEF ErasuresConfirmed

LEMMA ErasuresServed ==
  ASSUME BrowserTyped, ErasuresConfirmed, NEW k \in calls, Serve(k) \/ Refuse(k) \/ Drop(k)
  PROVE  ErasuresConfirmed'
<1>1. k \in Asked /\ Meant(k)
  BY TypedParts DEF Screened, Sound
<1>2. ASSUME NEW c \in calls' PROVE \E l \in calls : Same(c, l) \/ (c.op = l.op /\ c.about = l.about /\ c.rest = l.rest)
  <2>1. CASE c \in calls
    BY <2>1 DEF Same
  <2>2. CASE c \in {[k EXCEPT !.answer = "ok"], [k EXCEPT !.answer = "failed"]}
    BY <1>1, <2>2 DEF Asked
  <2> QED BY <2>1, <2>2 DEF Serve, Refuse, Drop, Answered
<1>3. \A c \in calls' : c.op = "erase" => c.about \in confirmed /\ c.rest \subseteq confirmed
  BY <1>2 DEF Same, ErasuresConfirmed
<1>4. UNCHANGED <<page, confirmed>>
  BY DEF Serve, Effect, MemberEffect, AdminEffect, EraseAccount, UpdateAccount, SetPassword,
     SetPermission, SetPolicy, ResetPermissions, Refuse, Drop, server, system
<1>5. erased' = erased \/ (k.op = "erase" /\ erased' = erased \cup {k.about})
  BY DEF Serve, Effect, MemberEffect, AdminEffect, EraseAccount, UpdateAccount, SetPassword,
     SetPermission, SetPolicy, ResetPermissions, Refuse, Drop, server, system
<1>6. erased' \subseteq confirmed
  BY <1>5 DEF ErasuresConfirmed
<1> QED BY <1>3, <1>4, <1>6 DEF ErasuresConfirmed

LEMMA ErasuresActed ==
  ASSUME BrowserTyped, ErasuresConfirmed, Acts
  PROVE  ErasuresConfirmed'
<1>1. PICK p, asked : Did(p, asked)
  BY ActsDid
<1>2. page' = p /\ calls' = calls \cup asked
  BY <1>1, DidScreened, TypedParts
<1>3. UNCHANGED erased /\ confirmed \subseteq confirmed'
  BY ActsAreKept DEF ActsKeep
<1>4. /\ p.screen = page.screen
      /\ p.screen = "users" /\ page.removing \subseteq page.ticked => p.removing \subseteq p.ticked
  BY <1>1 DEF Did, PageDid
<1>5. page'.screen = "users" => page'.removing \subseteq page'.ticked
  BY <1>2, <1>4 DEF ErasuresConfirmed
<1>6. ASSUME NEW c \in calls', c.op = "erase"
      PROVE  c.about \in confirmed' /\ c.rest \subseteq confirmed'
  <2>1. CASE c \in calls
    BY <1>3, <1>6, <2>1 DEF ErasuresConfirmed
  <2>2. CASE c \in asked
    <3>1. /\ c.about \in page.removing /\ c.rest \subseteq page.removing
          /\ page.ticked \subseteq confirmed' /\ Sound(c, page.screen) /\ c.by = "page"
      BY <1>1, <1>6, <2>2 DEF Did, AskDid
    <3>2. page.screen = "users"
      BY <1>6, <3>1 DEF Sound, OfPage, AsksOf
    <3> QED BY <3>1, <3>2 DEF ErasuresConfirmed
  <2> QED BY <1>2, <2>1, <2>2
<1>7. erased' \subseteq confirmed'
  BY <1>3 DEF ErasuresConfirmed
<1> QED BY <1>5, <1>6, <1>7 DEF ErasuresConfirmed

LEMMA ErasuresNext == BrowserTyped /\ ErasuresConfirmed /\ [BrowserNext]_allVars => ErasuresConfirmed'
  BY StepKinds, ErasuresCarried, ErasuresServed, ErasuresActed

(***************************************************************************)
(* Whatever becomes of the list, the ticks, the filter and the dialog      *)
(* while accounts are erased one by one, an administrator erases only what *)
(* was ticked on screen when the dialog was opened (users/page.tsx         *)
(* removeAccounts).                                                        *)
(***************************************************************************)
THEOREM ErasesShown == BrowserSpec => []ErasesWhatWasShown
<1>1. ErasuresConfirmed => ErasesWhatWasShown
  BY DEF ErasuresConfirmed, ErasesWhatWasShown
<1> QED BY TypedAlways, ErasuresInit, ErasuresNext, <1>1, PTL DEF BrowserSpec

-----------------------------------------------------------------------------
(***************************************************************************)
(* A member is told what was taken.                                        *)
(***************************************************************************)
Told == YesIsTaken /\ SaysWhatWasTaken

LEMMA ToldInit == BrowserInit => Told
<1> SUFFICES ASSUME BrowserInit PROVE Told
  OBVIOUS
<1>1. page = PageAt(frame.path, FALSE) /\ calls = FirstReads(frame, Holds)
  BY DEF BrowserInit
<1>2. page.screen \in {"corrections", "profile"} => page.said = Nobody
  BY <1>1, PageAtFresh DEF Fresh
<1>3. \A k \in calls : k.op \in Reads
  BY <1>1, FirstReadsSound DEF Holds
<1> QED BY <1>2, <1>3 DEF Told, YesIsTaken, SaysWhatWasTaken, Reads

LEMMA ToldCarried ==
  ASSUME BrowserTyped, Told, Carries
  PROVE  Told'
<1>1. UNCHANGED taken
  <2>1. Carries => UNCHANGED taken \/ OthersAct
    BY DEF Carries, HearOk, HearFailed, HearUnauthorized, HearRevoked, Moves, GoTo,
       AskForCorrection, GiveUp, SessionMoves, allVars, member, server, service
  <2>2. OthersAct => UNCHANGED taken
    BY DEF OthersAct, service, Reviewing, ReviewReads, ReviewWrites, ReviewCommits,
       ReviewAborts, DecideJoin
  <2> QED BY <2>1, <2>2
<1>2. Carried /\ PageGoesOn
  BY CarriesOn
<1>3. YesIsTaken'
  <2>1. PICK g : \A d \in calls' :
                   \/ d.op \in Reads \cup {"first"}
                   \/ \E k \in calls : GoesOn(d, k)
                   \/ \E l \in calls : d = g[l] /\ Same(d, l)
    BY <1>2 DEF Carried
  <2>2. ASSUME NEW c \in calls', c.op \in {"create", "save", "join"}, c.answer = "ok"
        PROVE  c.about \in taken
    <3>1. PICK l \in calls : Same(c, l)
      BY <2>1, <2>2 DEF Reads, GoesOn
    <3> QED BY <2>2, <3>1 DEF Same, Told, YesIsTaken
  <2> QED BY <1>1, <2>2 DEF YesIsTaken
<1>4. page'.screen \in {"corrections", "profile"} => page'.said \in taken \cup {Nobody}
  <2>1. CASE Fresh(page')
    BY <2>1 DEF Fresh
  <2>2. ASSUME NEW k \in calls, k.by = "page", page'.screen \in {"corrections", "profile"},
               page' = AfterNotOk(k)
        PROVE  page'.said \in taken \cup {Nobody}
    <3>1. page.screen = page'.screen /\ page'.said = page.said
      BY <2>2, HeardOnScreen
    <3> QED BY <2>2, <3>1 DEF Told, SaysWhatWasTaken
  <2>3. ASSUME NEW k \in calls, k.by = "page", page'.screen \in {"corrections", "profile"},
               page' = AfterOk(k), HearOk(k)
        PROVE  page'.said \in taken \cup {Nobody}
    <3>1. page.screen = page'.screen /\ Says(page', k)
      BY <2>3, HeardOnScreen
    <3>2. page.said \in taken \cup {Nobody}
      BY <2>3, <3>1 DEF Told, SaysWhatWasTaken
    <3>3. k.op \in {"create", "save", "join"} => k.about \in taken
      BY <2>3 DEF HearOk, Writes, Told, YesIsTaken
    <3> QED BY <3>1, <3>2, <3>3 DEF Says
  <2>4. CASE page' = page
    BY <2>4 DEF Told, SaysWhatWasTaken
  <2> QED BY <1>2, <2>1, <2>2, <2>3, <2>4 DEF PageGoesOn
<1>5. SaysWhatWasTaken'
  BY <1>1, <1>4 DEF SaysWhatWasTaken
<1> QED BY <1>3, <1>5 DEF Told

LEMMA ToldServed ==
  ASSUME BrowserTyped, Told, NEW k \in calls, Serve(k) \/ Refuse(k) \/ Drop(k)
  PROVE  Told'
<1>1. k \in Asked
  BY TypedParts DEF Screened, Sound
<1>2. UNCHANGED page /\ taken \subseteq taken'
  BY DEF Serve, Effect, MemberEffect, File, Withdraw, SaveProfile, AskToJoin, Mark, Refuse,
     Drop, server, service
<1>3. Serve(k) /\ k.op \in {"create", "save", "join"} => k.about \in taken'
  BY DEF Serve, Effect, MemberEffect, AdminEffect, File, SaveProfile, AskToJoin
<1>4. ASSUME NEW c \in calls', c.op \in {"create", "save", "join"}, c.answer = "ok"
      PROVE  c.about \in taken'
  <2>1. CASE c \in calls
    BY <1>2, <1>4, <2>1 DEF Told, YesIsTaken
  <2>2. CASE c = [k EXCEPT !.answer = "ok"] /\ Serve(k)
    BY <1>1, <1>3, <1>4, <2>2 DEF Asked
  <2>3. CASE c = [k EXCEPT !.answer = "failed"]
    BY <1>1, <1>4, <2>3 DEF Asked
  <2> QED BY <2>1, <2>2, <2>3 DEF Serve, Refuse, Drop, Answered
<1>5. YesIsTaken'
  BY <1>4 DEF YesIsTaken
<1>6. SaysWhatWasTaken'
  BY <1>2 DEF Told, SaysWhatWasTaken
<1> QED BY <1>5, <1>6 DEF Told

LEMMA ToldActed ==
  ASSUME BrowserTyped, Told, Acts
  PROVE  Told'
<1>1. PICK p, asked : Did(p, asked)
  BY ActsDid
<1>2. page' = p /\ calls' = calls \cup asked
  BY <1>1, DidScreened, TypedParts
<1>3. UNCHANGED taken
  BY ActsAreKept DEF ActsKeep, service
<1>4. YesIsTaken'
  BY <1>1, <1>2, <1>3 DEF Did, AskDid, Told, YesIsTaken
<1>5. SaysWhatWasTaken'
  BY <1>1, <1>2, <1>3 DEF Did, PageDid, Told, SaysWhatWasTaken
<1> QED BY <1>4, <1>5 DEF Told

LEMMA ToldNext == BrowserTyped /\ Told /\ [BrowserNext]_allVars => Told'
  BY StepKinds, ToldCarried, ToldServed, ToldActed

(***************************************************************************)
(* Whatever answers come late, are lost, or belong to a page that was      *)
(* left, a member is told that a request for a correction, a save or a     *)
(* request to join was sent only when the server took that very one        *)
(* (corrections/page.tsx submit, profile/page.tsx save and joinTeam).      *)
(***************************************************************************)
THEOREM SaysTaken == BrowserSpec => []SaysWhatWasTaken
<1>1. Told => SaysWhatWasTaken
  BY DEF Told
<1> QED BY TypedAlways, ToldInit, ToldNext, <1>1, PTL DEF BrowserSpec

-----------------------------------------------------------------------------
(***************************************************************************)
(* Numbers are fresh, and a withdrawn request is not applied.              *)
(***************************************************************************)
LEMMA FreshInit == BrowserInit => NumbersAreFresh
<1> SUFFICES ASSUME BrowserInit PROVE NumbersAreFresh
  OBVIOUS
<1>1. \A k \in calls : k.op \in Reads
  BY FirstReadsSound DEF BrowserInit, Holds
<1>2. filed = <<>> /\ DOMAIN filed = {}
  BY DEF BrowserInit, ServiceInit
<1> QED BY <1>1, <1>2 DEF NumbersAreFresh, Creates, Reads

\* Sizes, for the arithmetic.
LEMMA NumbersTyped ==
  ASSUME BrowserTyped
  PROVE  /\ left \in Bound /\ left.sends \in Nat /\ MaxSends \in Nat
         /\ DOMAIN filed \subseteq Nat
         /\ \A k \in calls : k \in Asked /\ k.about \in Nat
<1>1. ServiceTypeOK /\ left \in Bound /\ \A k \in calls : k \in Asked
  BY TypedParts DEF Screened, Sound
<1>2. left.sends \in Nat
  BY <1>1, MaxSendsAssumption DEF Bound
<1>3. DOMAIN filed \subseteq Nat
  BY <1>1, MaxSendsAssumption DEF ServiceTypeOK, Sends
<1> QED BY <1>1, <1>2, <1>3, MaxSendsAssumption DEF Asked

LEMMA FreshCarried ==
  ASSUME BrowserTyped, NumbersAreFresh, Carries
  PROVE  NumbersAreFresh'
<1>1. DOMAIN filed' = DOMAIN filed
  <2>1. Carries => UNCHANGED filed \/ Reviewing
    BY DEF Carries, HearOk, HearFailed, HearUnauthorized, HearRevoked, Moves, GoTo, OthersAct,
       AskForCorrection, GiveUp, SessionMoves, allVars, member, server, service, DecideJoin
  <2>2. Reviewing => DOMAIN filed' = DOMAIN filed
    BY DEF Reviewing, ReviewReads, ReviewWrites, ReviewCommits, ReviewAborts
  <2> QED BY <2>1, <2>2
<1>2. /\ left \in Bound /\ left.sends \in Nat /\ MaxSends \in Nat /\ DOMAIN filed \subseteq Nat
      /\ \A k \in calls : k \in Asked /\ k.about \in Nat
  BY NumbersTyped
<1>3. left'.sends \in Nat /\ left'.sends <= left.sends
  <2>1. Carries => Spends
    BY DEF Carries, HearOk, HearFailed, HearUnauthorized, HearRevoked, OthersAct, Moves, GoTo,
       AskForCorrection, GiveUp, SessionMoves, allVars, member, Spends
  <2>2. left' \in Bound /\ left'.sends <= left.sends
    BY <1>2, <2>1, SpendsLess
  <2> QED BY <2>2, MaxSendsAssumption DEF Bound
<1>4. PICK g : \A c \in calls' :
                 \/ c.op \in Reads \cup {"first"}
                 \/ \E k \in calls : GoesOn(c, k)
                 \/ \E l \in calls : c = g[l] /\ Same(c, l)
  BY CarriesOn DEF Carried
<1>5. ASSUME NEW c \in calls', Creates(c)
      PROVE  \E l \in calls : c = g[l] /\ Same(c, l) /\ Creates(l)
  BY <1>4, <1>5 DEF Creates, Reads, GoesOn, Same
<1>6. \A id \in DOMAIN filed' : id + left'.sends <= MaxSends
  BY <1>1, <1>2, <1>3 DEF NumbersAreFresh
<1>7. ASSUME NEW c \in calls', Creates(c)
      PROVE  c.about + left'.sends <= MaxSends /\ (c.answer = "none" => c.about \notin DOMAIN filed')
  <2>1. PICK l \in calls : Same(c, l) /\ Creates(l)
    BY <1>5, <1>7
  <2>2. Unused(l)
    BY <2>1 DEF NumbersAreFresh
  <2> QED BY <1>1, <1>2, <1>3, <2>1, <2>2 DEF Same, Unused
<1>8. ASSUME NEW c \in calls', NEW d \in calls', Creates(c), Creates(d), c.about = d.about
      PROVE  c = d
  <2>1. PICK l \in calls : c = g[l] /\ Same(c, l) /\ Creates(l)
    BY <1>5, <1>8
  <2>2. PICK m \in calls : d = g[m] /\ Same(d, m) /\ Creates(m)
    BY <1>5, <1>8
  <2>3. l = m
    BY <1>8, <2>1, <2>2 DEF Same, NumbersAreFresh
  <2> QED BY <2>1, <2>2, <2>3
<1> QED BY <1>6, <1>7, <1>8 DEF NumbersAreFresh, Unused, Creates

LEMMA FreshServed ==
  ASSUME BrowserTyped, NumbersAreFresh, NEW k \in calls, Serve(k) \/ Refuse(k) \/ Drop(k)
  PROVE  NumbersAreFresh'
<1>1. /\ left.sends \in Nat /\ MaxSends \in Nat /\ DOMAIN filed \subseteq Nat
      /\ \A l \in calls : l \in Asked /\ l.about \in Nat
      /\ UNCHANGED left
  BY NumbersTyped DEF Serve, Refuse, Drop
<1>2. \/ DOMAIN filed' = DOMAIN filed
      \/ Serve(k) /\ Creates(k) /\ DOMAIN filed' = DOMAIN filed \cup {k.about}
  BY DEF Serve, Effect, MemberEffect, File, Withdraw, SaveProfile, AskToJoin, Mark, Refuse,
     Drop, server, service, Creates
<1> DEFINE From(c, l) == /\ c.op = l.op /\ c.about = l.about
                         /\ c = l \/ (l = k /\ c.answer # "none")
<1>3. ASSUME NEW c \in calls'
      PROVE  \/ c \in calls \ {k}
             \/ /\ c.op = k.op /\ c.about = k.about /\ c.answer # "none"
                /\ c = (IF Serve(k) THEN [k EXCEPT !.answer = "ok"] ELSE [k EXCEPT !.answer = "failed"])
  <2>1. CASE c = [k EXCEPT !.answer = "ok"] /\ Serve(k)
    BY <1>1, <2>1 DEF Asked
  <2>2. CASE c = [k EXCEPT !.answer = "failed"] /\ ~Serve(k)
    BY <1>1, <2>2 DEF Asked
  <2> QED BY <2>1, <2>2 DEF Serve, Refuse, Drop, Answered
<1>4. \A id \in DOMAIN filed' : id + left'.sends <= MaxSends
  <2>1. Creates(k) => k.about + left.sends <= MaxSends
    BY DEF NumbersAreFresh, Unused
  <2> QED BY <1>1, <1>2, <2>1 DEF NumbersAreFresh
<1>5. ASSUME NEW c \in calls', Creates(c)
      PROVE  c.about + left'.sends <= MaxSends /\ (c.answer = "none" => c.about \notin DOMAIN filed')
  <2>1. CASE c \in calls \ {k}
    <3>1. Unused(c) /\ (Creates(k) => c.about # k.about)
      BY <1>5, <2>1 DEF NumbersAreFresh
    <3> QED BY <1>1, <1>2, <3>1 DEF Unused
  <2>2. CASE c.op = k.op /\ c.about = k.about /\ c.answer # "none"
    <3>1. Unused(k)
      BY <1>5, <2>2 DEF NumbersAreFresh, Creates
    <3> QED BY <1>1, <2>2, <3>1 DEF Unused
  <2> QED BY <1>3, <2>1, <2>2
<1>6. ASSUME NEW c \in calls', NEW d \in calls', Creates(c), Creates(d), c.about = d.about
      PROVE  c = d
  <2>1. CASE c \in calls \ {k} /\ d \in calls \ {k}
    BY <1>6, <2>1 DEF NumbersAreFresh
  <2>2. \A l \in calls \ {k} : ~(Creates(l) /\ Creates(k) /\ l.about = k.about)
    BY DEF NumbersAreFresh
  <2> QED BY <1>3, <1>6, <2>1, <2>2 DEF Creates
<1> QED BY <1>4, <1>5, <1>6 DEF NumbersAreFresh, Unused, Creates

LEMMA FreshActed ==
  ASSUME BrowserTyped, NumbersAreFresh, Acts
  PROVE  NumbersAreFresh'
<1>1. /\ left \in Bound /\ left.sends \in Nat /\ MaxSends \in Nat /\ DOMAIN filed \subseteq Nat
      /\ \A l \in calls : l \in Asked /\ l.about \in Nat
  BY NumbersTyped
<1>2. PICK p, asked : Did(p, asked)
  BY ActsDid
<1>3. calls' = calls \cup asked
  BY <1>2, DidScreened, TypedParts
<1>4. UNCHANGED filed /\ left'.sends \in Nat /\ left'.sends <= left.sends
  <2>1. ActsKeep
    BY ActsAreKept
  <2>2. left' \in Bound /\ left'.sends <= left.sends
    BY <1>1, <2>1, SpendsLess DEF ActsKeep
  <2> QED BY <2>1, <2>2, MaxSendsAssumption DEF ActsKeep, service, Bound
<1>5. ASSUME NEW a \in asked, Creates(a)
      PROVE  a.about + left'.sends <= MaxSends /\ a.about + left.sends > MaxSends
  <2>1. a.about = NextSend /\ Spend("sends")
    BY <1>2, <1>5 DEF Did, AskDid, Creates
  <2>2. left'.sends = left.sends - 1
    BY <1>1, <2>1, NextSendTyped
  <2> QED BY <1>1, <2>1, <2>2 DEF NextSend
<1>6. \A id \in DOMAIN filed' : id + left'.sends <= MaxSends
  BY <1>1, <1>4 DEF NumbersAreFresh
<1>7. ASSUME NEW c \in calls', Creates(c)
      PROVE  c.about + left'.sends <= MaxSends /\ (c.answer = "none" => c.about \notin DOMAIN filed')
  <2>1. CASE c \in calls
    <3>1. Unused(c)
      BY <1>7, <2>1 DEF NumbersAreFresh
    <3> QED BY <1>1, <1>4, <2>1, <3>1 DEF Unused
  <2>2. CASE c \in asked
    <3>1. \A id \in DOMAIN filed : id + left.sends <= MaxSends
      BY DEF NumbersAreFresh
    <3> QED BY <1>1, <1>4, <1>5, <1>7, <2>2, <3>1
  <2> QED BY <1>3, <2>1, <2>2
<1>8. ASSUME NEW c \in calls', NEW d \in calls', Creates(c), Creates(d), c.about = d.about
      PROVE  c = d
  <2>1. \A l \in calls : Creates(l) => l.about + left.sends <= MaxSends
    BY DEF NumbersAreFresh, Unused
  <2>2. CASE c \in calls /\ d \in calls
    BY <1>8, <2>2 DEF NumbersAreFresh
  <2>3. CASE c \in asked /\ d \in asked
    BY <1>2, <2>3 DEF Did
  <2>4. CASE c \in calls /\ d \in asked
    BY <1>5, <1>8, <1>1, <2>1, <2>4
  <2>5. CASE c \in asked /\ d \in calls
    BY <1>5, <1>8, <1>1, <2>1, <2>5
  <2> QED BY <1>3, <2>2, <2>3, <2>4, <2>5
<1> QED BY <1>6, <1>7, <1>8 DEF NumbersAreFresh, Unused, Creates

LEMMA FreshNext == BrowserTyped /\ NumbersAreFresh /\ [BrowserNext]_allVars => NumbersAreFresh'
  BY StepKinds, FreshCarried, FreshServed, FreshActed

LEMMA ReviewsInit == BrowserInit => ReviewsSound
<1> SUFFICES ASSUME BrowserInit PROVE ReviewsSound
  OBVIOUS
<1>1. /\ reviews = [r \in Reviewers |-> [stage |-> "idle"]]
      /\ applied = {} /\ filed = <<>>
  BY DEF BrowserInit, ServiceInit
<1>2. \A r \in Reviewers : reviews[r].stage = "idle"
  BY <1>1
<1> QED BY <1>1, <1>2 DEF ReviewsSound, Held

LEMMA ReviewsKept ==
  ASSUME ReviewsSound, UNCHANGED <<filed, applied, reviews>>
  PROVE  ReviewsSound'
  BY DEF ReviewsSound, Held

LEMMA FileSound ==
  ASSUME ReviewsSound, ServiceTypeOK, NEW id, NEW date, NEW times, File(id, date, times),
         id \notin DOMAIN filed
  PROVE  ReviewsSound'
<1>1. /\ DOMAIN filed' = DOMAIN filed \cup {id} /\ UNCHANGED <<applied, reviews>>
      /\ \A i \in DOMAIN filed : filed'[i] = filed[i]
      /\ filed'[id].status = "PENDING"
  BY DEF File
<1>2. \A r \in Reviewers : reviews[r].stage # "idle" => reviews[r].id \in DOMAIN filed
  BY DEF ReviewsSound
<1>3. \A i \in DOMAIN filed : Held(i)' <=> Held(i)
  BY <1>1 DEF Held
<1>4. \A i \in DOMAIN filed' : Held(i)' => filed'[i].status # "WITHDRAWN"
  BY <1>1, <1>3 DEF ReviewsSound
<1>5. \A i \in applied' : i \in DOMAIN filed' /\ filed'[i].status \in {"APPROVED", "REJECTED"}
  BY <1>1 DEF ReviewsSound
<1> QED BY <1>1, <1>2, <1>4, <1>5 DEF ReviewsSound

LEMMA WithdrawSound ==
  ASSUME ReviewsSound, ServiceTypeOK, NEW id, Withdraw(id)
  PROVE  ReviewsSound'
<1>1. /\ DOMAIN filed' = DOMAIN filed /\ UNCHANGED <<applied, reviews>>
      /\ \A i \in DOMAIN filed \ {id} : filed'[i] = filed[i]
      /\ id \in DOMAIN filed /\ filed[id].status = "PENDING" /\ ~Held(id)
      /\ filed'[id].times = filed[id].times
  BY DEF Withdraw, ServiceTypeOK, Request
<1>2. id \notin applied
  BY <1>1 DEF ReviewsSound
<1>3. \A i \in DOMAIN filed : Held(i)' <=> Held(i)
  BY <1>1 DEF Held
<1>4. \A i \in DOMAIN filed' : Held(i)' => filed'[i].status # "WITHDRAWN"
  BY <1>1, <1>3 DEF ReviewsSound
<1>5. \A i \in applied' : i \in DOMAIN filed' /\ filed'[i].status \in {"APPROVED", "REJECTED"}
  BY <1>1, <1>2 DEF ReviewsSound
<1> QED BY <1>1, <1>4, <1>5 DEF ReviewsSound

LEMMA ReviewingSound ==
  ASSUME ReviewsSound, ServiceTypeOK, Reviewing
  PROVE  ReviewsSound'
<1>1. PICK r \in Reviewers : ReviewReads(r) \/ ReviewWrites(r) \/ ReviewCommits(r) \/ ReviewAborts(r)
  BY DEF Reviewing
<1>2. /\ reviews \in [Reviewers -> Review]
      /\ \A id \in DOMAIN filed : filed[id] \in Request
      /\ \A q \in Reviewers : reviews[q].stage # "idle" => reviews[q].id \in DOMAIN filed
  BY DEF ServiceTypeOK, ReviewsSound
<1>3. CASE ReviewReads(r)
  <2>1. PICK id \in DOMAIN filed, approve \in BOOLEAN :
               Turns(r, [stage |-> "read", id |-> id, approve |-> approve])
    BY <1>3 DEF ReviewReads
  <2>2. /\ reviews'[r].stage = "read" /\ reviews'[r].id \in DOMAIN filed
        /\ \A q \in Reviewers \ {r} : reviews'[q] = reviews[q]
        /\ UNCHANGED <<filed, applied>>
    BY <1>2, <1>3, <2>1 DEF Turns, ReviewReads
  <2>3. \A i \in DOMAIN filed : Held(i)' => Held(i)
    BY <2>2 DEF Held
  <2> QED BY <1>2, <2>2, <2>3 DEF ReviewsSound
<1>4. CASE ReviewAborts(r)
  <2>2. /\ reviews'[r].stage = "idle"
        /\ \A q \in Reviewers \ {r} : reviews'[q] = reviews[q]
        /\ UNCHANGED <<filed, applied>>
    BY <1>2, <1>4 DEF Turns, ReviewAborts
  <2>3. \A id \in DOMAIN filed : Held(id)' => Held(id)
    BY <2>2 DEF Held
  <2> QED BY <1>2, <2>2, <2>3 DEF ReviewsSound
<1>5. CASE ReviewWrites(r)
  <2>1. reviews[r].stage = "read" /\ reviews[r] \in Review
    BY <1>2, <1>5 DEF ReviewWrites
  <2>2. /\ reviews'[r].stage = "written" /\ reviews'[r].id = reviews[r].id
        /\ reviews'[r].approve = reviews[r].approve
        /\ \A q \in Reviewers \ {r} : reviews'[q] = reviews[q]
        /\ UNCHANGED <<filed, applied>>
        /\ reviews[r].approve => filed[reviews[r].id].status # "WITHDRAWN"
    BY <1>2, <1>5, <2>1 DEF Turns, ReviewWrites, Review
  <2>3. \A id \in DOMAIN filed : Held(id)' => Held(id) \/ (id = reviews[r].id /\ reviews[r].approve)
    BY <2>2 DEF Held
  <2>4. \A id \in DOMAIN filed : Held(id)' => filed[id].status # "WITHDRAWN"
    BY <2>2, <2>3 DEF ReviewsSound
  <2>5. reviews[r].id \in DOMAIN filed
    BY <1>2, <2>1
  <2> QED BY <1>2, <2>2, <2>4, <2>5 DEF ReviewsSound
<1>6. CASE ReviewCommits(r)
  <2> DEFINE id == reviews[r].id
  <2>1. reviews[r].stage = "written" /\ id \in DOMAIN filed
    BY <1>2, <1>6 DEF ReviewCommits
  <2>2. /\ filed' = IF filed[id].status = "WITHDRAWN" THEN filed
                    ELSE [filed EXCEPT ![id].status =
                            IF reviews[r].approve THEN "APPROVED" ELSE "REJECTED"]
        /\ applied' = IF reviews[r].approve /\ filed[id].times THEN applied \cup {id} ELSE applied
        /\ reviews' = [reviews EXCEPT ![r] = [stage |-> "idle"]]
    BY <1>6 DEF ReviewCommits, Turns
  <2>3. /\ reviews'[r].stage = "idle"
        /\ \A q \in Reviewers \ {r} : reviews'[q] = reviews[q]
    BY <1>2, <2>2
  <2> HIDE DEF id
  <2>4. /\ DOMAIN filed' = DOMAIN filed
        /\ \A i \in DOMAIN filed \ {id} : filed'[i] = filed[i]
        /\ filed'[id].times = filed[id].times
        /\ filed[id].status = "WITHDRAWN" => filed'[id] = filed[id]
        /\ filed[id].status # "WITHDRAWN" => filed'[id].status \in {"APPROVED", "REJECTED"}
    BY <1>2, <2>1, <2>2 DEF Request
  <2>5. \A i \in DOMAIN filed : Held(i)' => Held(i)
    BY <2>3, <2>4 DEF Held
  <2>6. \A i \in DOMAIN filed' : Held(i)' => filed'[i].status # "WITHDRAWN"
    BY <2>4, <2>5 DEF ReviewsSound
  <2>7. reviews[r].approve /\ filed[id].times => filed[id].status # "WITHDRAWN"
    BY <2>1 DEF ReviewsSound, Held, id
  <2>8. \A i \in applied' : i \in DOMAIN filed' /\ filed'[i].status \in {"APPROVED", "REJECTED"}
    <3>1. \A i \in applied : i \in DOMAIN filed /\ filed[i].status \in {"APPROVED", "REJECTED"}
      BY DEF ReviewsSound
    <3> QED BY <2>1, <2>2, <2>4, <2>7, <3>1
  <2>9. \A q \in Reviewers : reviews'[q].stage # "idle" => reviews'[q].id \in DOMAIN filed'
    BY <1>2, <2>3, <2>4
  <2> QED BY <2>6, <2>8, <2>9 DEF ReviewsSound
<1> QED BY <1>1, <1>3, <1>4, <1>5, <1>6

LEMMA ReviewsNext ==
  ASSUME BrowserTyped, NumbersAreFresh, ReviewsSound, [BrowserNext]_allVars
  PROVE  ReviewsSound'
<1>1. ServiceTypeOK
  BY TypedParts
<1>2. CASE Carries
  <2>1. UNCHANGED <<filed, applied, reviews>> \/ Reviewing
    BY <1>2 DEF Carries, HearOk, HearFailed, HearUnauthorized, HearRevoked, Moves, GoTo, OthersAct,
       AskForCorrection, GiveUp, SessionMoves, allVars, member, server, service, DecideJoin
  <2> QED BY <1>1, <2>1, ReviewsKept, ReviewingSound
<1>3. CASE Acts
  BY <1>3, ActsAreKept, ReviewsKept DEF ActsKeep, service
<1>4. ASSUME NEW k \in calls, Serve(k) \/ Refuse(k) \/ Drop(k)
      PROVE  ReviewsSound'
  <2>1. \/ UNCHANGED <<filed, applied, reviews>>
        \/ Creates(k) /\ k.answer = "none" /\ File(k.about, k.extra, k.flag)
        \/ Withdraw(k.about)
    BY <1>4 DEF Serve, Unserved, Effect, MemberEffect, SaveProfile, AskToJoin, Mark, Refuse,
       Drop, server, service, Creates
  <2>2. Creates(k) /\ k.answer = "none" => k.about \notin DOMAIN filed
    BY DEF NumbersAreFresh, Unused
  <2> QED BY <1>1, <2>1, <2>2, ReviewsKept, FileSound, WithdrawSound
<1> QED BY <1>2, <1>3, <1>4, StepKinds

(***************************************************************************)
(* No attendance row is written for a request that its member withdrew,    *)
(* though a review reads the request without locking it: the rows that     *)
(* refer to it hold the withdrawal up until the review is over             *)
(* (member_portal.py review_correction, _apply_correction and              *)
(* cancel_correction).                                                     *)
(***************************************************************************)
THEOREM WithdrawnStays == BrowserSpec => []WithdrawnIsNotApplied
<1>1. ReviewsSound => WithdrawnIsNotApplied
  BY DEF ReviewsSound, WithdrawnIsNotApplied
<1> QED
  BY TypedAlways, FreshInit, FreshNext, ReviewsInit, ReviewsNext, <1>1, PTL DEF BrowserSpec

-----------------------------------------------------------------------------
(***************************************************************************)
(* The grid of the permissions: while requests go one by one, it is the    *)
(* server's.                                                               *)
(***************************************************************************)

\* A page that has just come up waits for the grid at most.
LEMMA GridFresh ==
  ASSUME Fresh(page'), \A k, l \in calls' : OfGrid(k) /\ OfGrid(l) => k = l
  PROVE  OneByOne'
  BY DEF OneByOne, OfGrid, Fresh

LEMMA GridGoes ==
  ASSUME NEW f, NEW p, Fresh(p), NEW asked \in SUBSET Asked, Goes(f, p, asked)
  PROVE  OneByOne'
<1>1. Holds' \in BOOLEAN
  BY DEF Holds
<1>2. \A k, l \in FirstReads(f, Holds') : OfGrid(k) /\ OfGrid(l) => k = l
  BY <1>1, FirstReadsSound
<1>3. \A k \in Past(asked) : ~OfGrid(k)
  BY PastOf DEF OfGrid
<1>4. page' = p /\ calls' = Past(asked) \cup FirstReads(f, Holds')
  BY DEF Goes
<1>5. Fresh(page')
  BY <1>4 DEF Fresh
<1> QED BY <1>2, <1>3, <1>4, <1>5, GridFresh

LEMMA GridStays ==
  ASSUME OneByOne, UNCHANGED <<page, granted, many, crossed>>,
         \A k : OfGrid(k) => (k \in calls' <=> k \in calls)
  PROVE  OneByOne'
<1> SUFFICES ASSUME page.screen = "roles", ~crossed
    PROVE  /\ \A k, l \in calls' : OfGrid(k) /\ OfGrid(l) => k = l
           /\ page.loaded /\ ~page.behind =>
                /\ (\A k \in calls' : ~OfGrid(k)) => Agrees
                /\ \A k \in calls' : OfGrid(k) => Expected(k)
  BY DEF OneByOne, OfGrid, Expected, Agrees, WillAgree
<1> QED BY DEF OneByOne

LEMMA GridBecomes ==
  ASSUME OneByOne, UNCHANGED <<granted, many, crossed>>, NEW f, calls \in SUBSET Asked,
         Becomes(f, page, calls)
  PROVE  OneByOne'
<1>1. CASE f.path # frame.path
  <2>1. Goes(f, PageAt(f.path, FALSE), calls)
    BY <1>1 DEF Becomes
  <2>2. Fresh(PageAt(f.path, FALSE))
    BY PageAtFresh
  <2> QED BY <2>1, <2>2, GridGoes
<1>2. CASE f.path = frame.path
  BY <1>2, GridStays DEF Becomes
<1> QED BY <1>1, <1>2

\* The one request that is waited for is answered, or gives way to another.
LEMMA GridAnswered ==
  ASSUME OneByOne, page.screen = "roles", ~crossed,
         NEW k \in calls, OfGrid(k), NEW new, calls' = (calls \ {k}) \cup new,
         \A a, b \in new : OfGrid(a) /\ OfGrid(b) => a = b,
         page'.loaded /\ ~page'.behind =>
           /\ (\A a \in new : ~OfGrid(a)) => Agrees'
           /\ \A a \in new : OfGrid(a) => Expected(a)'
  PROVE  OneByOne'
<1>1. \A l \in calls \ {k} : ~OfGrid(l)
  BY DEF OneByOne
<1>2. \A a \in calls' : OfGrid(a) => a \in new
  BY <1>1
<1>3. \A a, b \in calls' : OfGrid(a) /\ OfGrid(b) => a = b
  BY <1>2
<1>4. (\A a \in calls' : ~OfGrid(a)) => \A a \in new : ~OfGrid(a)
  OBVIOUS
<1>5. page'.loaded /\ ~page'.behind =>
        /\ (\A a \in calls' : ~OfGrid(a)) => Agrees'
        /\ \A a \in calls' : OfGrid(a) => Expected(a)'
  BY <1>2, <1>4
<1> QED BY <1>3, <1>5 DEF OneByOne, OfGrid

LEMMA GridInit == BrowserInit => OneByOne
<1> SUFFICES ASSUME BrowserInit PROVE OneByOne
  OBVIOUS
<1>1. page = PageAt(frame.path, FALSE) /\ calls = FirstReads(frame, Holds) /\ Holds \in BOOLEAN
  BY DEF BrowserInit, Holds
<1>2. page.screen = "roles" => ~page.loaded
  BY <1>1, PageAtFresh DEF Fresh
<1>3. \A k, l \in calls : OfGrid(k) /\ OfGrid(l) => k = l
  BY <1>1, FirstReadsSound
<1> QED BY <1>2, <1>3 DEF OneByOne

\* What an answer leaves of the page of the permissions, and asks for: nothing;
\* a grid that is right, or behind; or one more read.
GridAfter(k, p, asked) ==
    \/ /\ ~OfGrid(k) /\ p = page
       /\ \A a \in asked : a.by = "lost"
    \/ /\ OfGrid(k)
       /\ \A a \in asked : a.by = "lost"
       /\ p.loaded /\ ~p.behind => p.grid = granted /\ p.many = many
    \/ /\ OfGrid(k)
       /\ \E a \in asked : /\ a.by = "page" /\ a.op \in {"regrid", "defaults"}
                           /\ \A b \in asked : b = a \/ b.by = "lost"

LEMMA GridHeard ==
  ASSUME BrowserTyped, OneByOne, UNCHANGED <<granted, many, crossed>>, NEW k \in calls, NEW f,
         NEW p, NEW asked \in SUBSET Asked, Heard(k, p, f, asked),
         k.by = "page" => p.screen = page.screen,
         k.by = "page" /\ page.screen = "roles" /\ ~crossed => GridAfter(k, p, asked)
  PROVE  OneByOne'
<1> DEFINE all == (calls \ {k}) \cup Passed(k, asked)
           q == IF k.by = "page" THEN p ELSE page
<1>1. calls \subseteq Asked /\ k \in Asked /\ k.by \in {"page", "past", "lost"}
  BY TypedParts DEF Screened, Sound, Asked
<1>2. ASSUME NEW a \in asked
      PROVE  LET b == [a EXCEPT !.by = IF a.by = "lost" THEN "lost" ELSE k.by]
             IN  b \in Asked /\ Same(b, a) /\ b.by = (IF a.by = "lost" THEN "lost" ELSE k.by)
  BY <1>1, WaitedForBy
<1>3. Passed(k, asked) \subseteq Asked
  <2>1. SUFFICES ASSUME NEW b \in Passed(k, asked) PROVE b \in Asked
    OBVIOUS
  <2>2. PICK a \in asked : b = [a EXCEPT !.by = IF a.by = "lost" THEN "lost" ELSE k.by]
    BY <2>1 DEF Passed
  <2> QED BY <1>2, <2>2
<1>4. Becomes(f, q, all)
  BY DEF Heard, Passed
<1>5. CASE f.path # frame.path
  <2>1. Goes(f, PageAt(f.path, FALSE), all)
    BY <1>4, <1>5 DEF Becomes
  <2>2. Fresh(PageAt(f.path, FALSE))
    BY PageAtFresh
  <2>3. all \in SUBSET Asked
    BY <1>1, <1>3
  <2> HIDE DEF all
  <2> QED BY <2>1, <2>2, <2>3, GridGoes
<1>6. ASSUME f.path = frame.path PROVE page' = q /\ calls' = all
  BY <1>4, <1>6 DEF Becomes
<1>7. ASSUME f.path = frame.path, page' = page, ~OfGrid(k), \A a \in Passed(k, asked) : ~OfGrid(a)
      PROVE  OneByOne'
  <2>1. \A a : OfGrid(a) => (a \in calls' <=> a \in calls)
    BY <1>6, <1>7
  <2> QED BY <1>7, <2>1, GridStays
<1>8. CASE f.path = frame.path /\ k.by # "page"
  <2>1. page' = page
    BY <1>6, <1>8
  <2>2. \A a \in Passed(k, asked) : a.by # "page"
    BY <1>2, <1>8 DEF Passed
  <2> QED BY <1>7, <1>8, <2>1, <2>2 DEF OfGrid
<1>9. CASE f.path = frame.path /\ k.by = "page" /\ (page.screen # "roles" \/ crossed)
  <2>1. page' = p
    BY <1>6, <1>9
  <2>2. page'.screen = page.screen
    BY <1>9, <2>1
  <2> QED BY <1>9, <2>2 DEF OneByOne
<1>10. CASE f.path = frame.path /\ k.by = "page" /\ page.screen = "roles" /\ ~crossed
  <2>1. page' = p /\ calls' = (calls \ {k}) \cup Passed(k, asked) /\ GridAfter(k, p, asked)
    BY <1>6, <1>10
  <2>2. ASSUME \A a \in asked : a.by = "lost" PROVE \A a \in Passed(k, asked) : ~OfGrid(a)
    <3>1. \A a \in Passed(k, asked) : a.by = "lost"
      BY <1>2, <2>2 DEF Passed
    <3> QED BY <3>1 DEF OfGrid
  <2>3. CASE ~OfGrid(k) /\ p = page /\ \A a \in asked : a.by = "lost"
    BY <1>7, <1>10, <2>1, <2>2, <2>3
  <2>4. CASE /\ OfGrid(k) /\ \A a \in asked : a.by = "lost"
             /\ p.loaded /\ ~p.behind => p.grid = granted /\ p.many = many
    <3>1. \A a \in Passed(k, asked) : ~OfGrid(a)
      BY <2>2, <2>4
    <3>2. page'.loaded /\ ~page'.behind => Agrees'
      BY <2>1, <2>4 DEF Agrees
    <3> QED BY <1>10, <2>1, <2>4, <3>1, <3>2, GridAnswered
  <2>5. ASSUME OfGrid(k), NEW a \in asked, a.by = "page", a.op \in {"regrid", "defaults"},
               \A b \in asked : b = a \/ b.by = "lost"
        PROVE  OneByOne'
    <3> DEFINE c == [a EXCEPT !.by = IF a.by = "lost" THEN "lost" ELSE k.by]
    <3>1. c \in Passed(k, asked) /\ c.op = a.op /\ c.by = "page"
      BY <1>2, <1>10, <2>5 DEF Passed, Same
    <3>2. \A b \in Passed(k, asked) : b = c \/ b.by = "lost"
      BY <1>2, <2>5 DEF Passed
    <3> HIDE DEF c
    <3>3. OfGrid(c) /\ Expected(c)'
      BY <2>5, <3>1 DEF OfGrid, Expected
    <3>4. \A b \in Passed(k, asked) : OfGrid(b) => b = c
      BY <3>2 DEF OfGrid
    <3> QED BY <1>10, <2>1, <2>5, <3>1, <3>3, <3>4, GridAnswered
  <2> QED BY <2>1, <2>3, <2>4, <2>5 DEF GridAfter
<1> QED BY <1>5, <1>8, <1>9, <1>10

LEMMA GridAfterOk ==
  ASSUME BrowserTyped, OneByOne, NEW k \in calls, k.by = "page", page.screen = "roles", ~crossed,
         HearOk(k)
  PROVE  GridAfter(k, AfterOk(k), AsksNext(k))
<1>1. /\ page \in RolesPages /\ k \in Asked
      /\ k.op \in {"screens", "grid", "regrid", "defaults", "box", "switch", "reset"}
  BY TypedParts, PageOfScreen DEF Screened, Sound, OfPage, AsksOf
<1>2. CASE k.op = "screens"
  BY <1>2 DEF GridAfter, OfGrid, AfterOk, AsksNext
<1>3. CASE k.op \in {"grid", "regrid", "defaults"}
  <2>1. OfGrid(k) /\ AsksNext(k) = {}
    BY <1>3 DEF OfGrid, AsksNext
  <2>2. AfterGrid(page, granted, many).grid = granted /\ AfterGrid(page, granted, many).many = many
    BY <1>1 DEF AfterGrid, RolesPages
  <2> DEFINE g == AfterGrid(page, granted, many)
  <2>3. AfterOk(k) \in {g, BoxReleased(g), AfterDefaults(g)}
    BY <1>3 DEF AfterOk
  <2>4. /\ BoxReleased(g).grid = g.grid /\ BoxReleased(g).many = g.many
        /\ AfterDefaults(g).grid = g.grid /\ AfterDefaults(g).many = g.many
    BY <1>1 DEF AfterGrid, BoxReleased, AfterDefaults, RolesPages
  <2> QED BY <2>1, <2>2, <2>3, <2>4 DEF GridAfter
<1>4. CASE k.op = "box"
  <2>1. OfGrid(k) /\ AsksNext(k) = {} /\ AfterOk(k) = AfterBoxSaved(page)
    BY <1>4 DEF OfGrid, AsksNext, AfterOk
  <2>2. /\ AfterBoxSaved(page).grid = page.grid /\ AfterBoxSaved(page).many = page.many
        /\ AfterBoxSaved(page).loaded = page.loaded /\ AfterBoxSaved(page).behind = page.behind
    BY <1>1 DEF AfterBoxSaved, RolesPages
  <2>3. k.answer = "ok"
    BY <1>4 DEF HearOk, Writes
  <2>4. page.loaded /\ ~page.behind => Agrees
    BY <1>4, <2>1, <2>3 DEF OneByOne, Expected
  <2> QED BY <2>1, <2>2, <2>4 DEF GridAfter, Agrees
<1>5. CASE k.op \in {"switch", "reset"}
  <2>1. OfGrid(k)
    BY <1>5 DEF OfGrid
  <2>2. /\ 0 \in Nat /\ FALSE \in BOOLEAN
        /\ "regrid" \in Reads \cup Writes /\ "defaults" \in Reads \cup Writes
    BY DEF Reads
  <2>3. \/ AsksNext(k) = {AskedFor("regrid", 0, 0, FALSE)}
        \/ AsksNext(k) = {AskedFor("defaults", 0, 0, FALSE)}
    BY <1>5 DEF AsksNext
  <2>4. /\ Asks(AskedFor("regrid", 0, 0, FALSE), "regrid", 0, 0, FALSE, {}, 0)
        /\ Asks(AskedFor("defaults", 0, 0, FALSE), "defaults", 0, 0, FALSE, {}, 0)
    BY <2>2, AskedForTyped
  <2>5. \E a \in AsksNext(k) : /\ a.by = "page" /\ a.op \in {"regrid", "defaults"}
                               /\ \A b \in AsksNext(k) : b = a \/ b.by = "lost"
    BY <2>3, <2>4 DEF Asks
  <2> QED BY <2>1, <2>5 DEF GridAfter
<1> QED BY <1>1, <1>2, <1>3, <1>4, <1>5

LEMMA GridAfterNotOk ==
  ASSUME BrowserTyped, OneByOne, NEW k \in calls, k.by = "page", page.screen = "roles", ~crossed,
         NEW kept, kept \subseteq {[l EXCEPT !.by = "lost"] : l \in {m \in {k} : m.op \in Writes}}
  PROVE  GridAfter(k, AfterNotOk(k), AsksAfterFailure(k) \cup kept)
<1>1. /\ page \in RolesPages /\ k \in Asked
      /\ k.op \in {"screens", "grid", "regrid", "defaults", "box", "switch", "reset"}
  BY TypedParts, PageOfScreen DEF Screened, Sound, OfPage, AsksOf
<1>2. \A b \in kept : b.by = "lost"
  BY <1>1 DEF Asked
<1>3. CASE k.op = "screens"
  BY <1>2, <1>3 DEF GridAfter, OfGrid, AfterNotOk, AsksAfterFailure
<1>4. CASE k.op \in {"grid", "regrid", "defaults"}
  <2>1. OfGrid(k) /\ AsksAfterFailure(k) = {}
    BY <1>4 DEF OfGrid, AsksAfterFailure
  <2>2. AfterNotOk(k).behind
    BY <1>1, <1>4 DEF AfterNotOk, AfterNoGrid, BoxReleased, AfterDefaults, RolesPages
  <2> QED BY <1>2, <2>1, <2>2 DEF GridAfter
<1>6. CASE k.op = "reset"
  <2> DEFINE p == AfterNoDefaults(page, k.answer = "ok")
  <2>1. OfGrid(k) /\ AsksAfterFailure(k) = {} /\ AfterNotOk(k) = p
    BY <1>6 DEF OfGrid, AsksAfterFailure, AfterNotOk
  <2>2. /\ p.grid = page.grid /\ p.many = page.many /\ p.loaded = page.loaded
        /\ p.behind = (page.behind \/ k.answer = "ok")
    BY <1>1 DEF AfterNoDefaults, RolesPages
  <2>3. p.loaded /\ ~p.behind => p.grid = granted /\ p.many = many
    BY <1>6, <2>1, <2>2 DEF OneByOne, Expected, Agrees
  <2> QED BY <1>2, <2>1, <2>3 DEF GridAfter
<1>5. CASE k.op \in {"box", "switch"}
  <2>1. OfGrid(k)
    BY <1>5 DEF OfGrid
  <2>2. 0 \in Nat /\ FALSE \in BOOLEAN /\ "regrid" \in Reads \cup Writes
    BY DEF Reads
  <2>3. AsksAfterFailure(k) = {AskedFor("regrid", 0, 0, FALSE)}
    BY <1>5 DEF AsksAfterFailure
  <2>4. Asks(AskedFor("regrid", 0, 0, FALSE), "regrid", 0, 0, FALSE, {}, 0)
    BY <2>2, AskedForTyped
  <2> QED BY <1>2, <2>1, <2>3, <2>4 DEF GridAfter, Asks
<1> QED BY <1>1, <1>3, <1>4, <1>5, <1>6

LEMMA GridCarried ==
  ASSUME BrowserTyped, OneByOne, Carries
  PROVE  OneByOne'
<1>1. UNCHANGED <<granted, many, crossed>>
  BY DEF Carries, HearOk, HearFailed, HearUnauthorized, HearRevoked, OthersAct, Moves, GoTo,
     AskForCorrection, GiveUp, SessionMoves, allVars, member, server, system, OtherAdministers
<1>2. calls \in SUBSET Asked /\ Screened
  BY TypedParts DEF Screened, Sound
<1>3. ASSUME NEW k \in calls, HearOk(k) PROVE OneByOne'
  <2>1. PICK f : Heard(k, AfterOk(k), f, AsksNext(k))
    BY <1>3 DEF HearOk
  <2>2. \A a \in AsksNext(k) : Follows(a, a.op)
    BY <1>2, <1>3, AsksNextSound DEF Screened, Sound
  <2>3. AsksNext(k) \in SUBSET Asked
    BY <2>2 DEF Follows
  <2>4. k.by = "page" => AfterOk(k).screen = page.screen
    BY <1>3, HeardOnScreen
  <2>5. k.by = "page" /\ page.screen = "roles" /\ ~crossed => GridAfter(k, AfterOk(k), AsksNext(k))
    BY <1>3, GridAfterOk
  <2> QED BY <1>1, <2>1, <2>3, <2>4, <2>5, GridHeard
<1>4. ASSUME NEW k \in calls, NEW f, NEW kept,
             kept \subseteq {[l EXCEPT !.by = "lost"] : l \in {m \in {k} : m.op \in Writes}},
             Heard(k, AfterNotOk(k), f, AsksAfterFailure(k) \cup kept)
      PROVE  OneByOne'
  <2>1. kept \subseteq {[k EXCEPT !.by = "lost"]} /\ k \in Asked
    BY <1>2, <1>4
  <2>2. AsksAfterFailure(k) \cup kept \in SUBSET Asked
    BY <2>1, FailureHandsOn
  <2>3. k.by = "page" => AfterNotOk(k).screen = page.screen
    BY <1>4, HeardOnScreen
  <2>4. k.by = "page" /\ page.screen = "roles" /\ ~crossed
          => GridAfter(k, AfterNotOk(k), AsksAfterFailure(k) \cup kept)
    BY <1>4, GridAfterNotOk
  <2> QED BY <1>1, <1>4, <2>2, <2>3, <2>4, GridHeard
<1>5. ASSUME NEW k \in calls, HearFailed(k) PROVE OneByOne'
  <2> DEFINE kept == {[l EXCEPT !.by = "lost"] :
                        l \in {m \in {k} : m.op \in Writes /\ m.answer = "none"}}
  <2>1. PICK f : Heard(k, AfterNotOk(k), f, AsksAfterFailure(k) \cup kept)
    BY <1>5 DEF HearFailed
  <2>2. kept \subseteq {[l EXCEPT !.by = "lost"] : l \in {m \in {k} : m.op \in Writes}}
    OBVIOUS
  <2> HIDE DEF kept
  <2> QED BY <1>4, <2>1, <2>2
<1>6. ASSUME NEW k \in calls, HearUnauthorized(k) PROVE OneByOne'
  <2>1. PICK f : Heard(k, AfterNotOk(k), f, AsksAfterFailure(k))
    BY <1>6 DEF HearUnauthorized
  <2>2. AsksAfterFailure(k) \cup {} = AsksAfterFailure(k)
    OBVIOUS
  <2>3. PICK kept : kept = {}
    OBVIOUS
  <2>4. /\ Heard(k, AfterNotOk(k), f, AsksAfterFailure(k) \cup kept)
        /\ kept \subseteq {[l EXCEPT !.by = "lost"] : l \in {m \in {k} : m.op \in Writes}}
    BY <2>1, <2>2, <2>3
  <2> QED BY <1>4, <2>4
<1>7. ASSUME NEW k \in calls, HearRevoked(k) PROVE OneByOne'
  <2>1. CASE frame.path = SignInPath /\ Heard(k, AfterNotOk(k), frame, {})
    <3>1. page.screen = "login"
      BY <1>2, <2>1 DEF Screened
    <3>2. k.by = "page" => AfterNotOk(k).screen = page.screen
      BY <1>7, HeardOnScreen
    <3> QED BY <1>1, <1>7, <2>1, <3>1, <3>2, GridHeard
  <2>2. CASE Loaded(Raised(SignInPath, FALSE), TRUE)
    <3>1. page' = PageAt(Raised(SignInPath, FALSE).path, TRUE)
      BY <2>2 DEF Loaded
    <3>2. Fresh(page')
      BY <3>1, PageAtFresh DEF Fresh
    <3>3. \A c \in calls' : c.by = "lost"
      BY <1>2, <2>2 DEF Loaded, Asked
    <3> QED BY <3>2, <3>3, GridFresh DEF OfGrid
  <2> QED BY <1>7, <2>1, <2>2 DEF HearRevoked
<1>8. CASE UNCHANGED browser
  BY <1>1, <1>8, GridStays DEF browser
<1>9. CASE Moves
  <2>1. PICK f \in Frames :
               \/ Becomes(f, page, calls)
               \/ \E p : Fresh(p) /\ p.screen = PageAt(f.path, FALSE).screen /\ Goes(f, p, calls)
                           /\ Spend("moves")
    BY <1>9, MovesGo
  <2> QED BY <1>1, <1>2, <2>1, GridBecomes, GridGoes
<1>10. CASE Becomes(Replaced(frame, SignInPath, FALSE), page, calls)
  BY <1>1, <1>2, <1>10, GridBecomes
<1> QED
  BY <1>3, <1>5, <1>6, <1>7, <1>8, <1>9, <1>10 DEF Carries, OthersAct, SessionMoves, allVars, browser

\* The page draws a box as the server will have it.
LEMMA BoxDrawn ==
  ASSUME BrowserTyped, NEW k \in calls, k.op = "box", WillAgree(k),
         SetPermission(k.about, Actions[k.extra], k.flag), UNCHANGED page
  PROVE  Agrees'
<1>1. /\ granted \in Grids /\ k.about \in DOMAIN PermissionRows
  BY TypedParts DEF Screened, Sound, Meant, Boxes, SystemTypeOK
<1>2. granted' = [granted EXCEPT ![k.about] = Mirrored(@, Actions[k.extra], k.flag)]
  BY <1>1 DEF SetPermission, Mirrored
<1>3. many' = many
  BY DEF SetPermission
<1> QED BY <1>2, <1>3 DEF WillAgree, Agrees

LEMMA GridServed ==
  ASSUME BrowserTyped, OneByOne, NEW k \in calls, Serve(k) \/ Refuse(k) \/ Drop(k)
  PROVE  OneByOne'
<1>1. k \in Asked /\ UNCHANGED page /\ OfPage(k, page.screen)
  BY TypedParts DEF Screened, Sound, Serve, Refuse, Drop
<1>2. ASSUME NEW answer, Answered(k, answer), ~OfGrid(k), UNCHANGED <<granted, many, crossed>>
      PROVE  OneByOne'
  <2>1. ~OfGrid([k EXCEPT !.answer = answer])
    BY <1>1, <1>2 DEF OfGrid, Asked
  <2>2. \A a : OfGrid(a) => (a \in calls' <=> a \in calls)
    BY <1>2, <2>1 DEF Answered
  <2> QED BY <1>1, <1>2, <2>2, GridStays
<1>3. ASSUME NEW answer, Answered(k, answer), OfGrid(k), crossed' = crossed,
             answer # "none",
             page.screen = "roles" /\ page.loaded /\ ~page.behind /\ ~crossed =>
               /\ k.op = "box" /\ answer = "ok" => Agrees'
               /\ k.op = "reset" /\ answer # "ok" => Agrees'
      PROVE  OneByOne'
  <2> DEFINE a == [k EXCEPT !.answer = answer]
  <2>1. a.by = "page" /\ a.op = k.op /\ a.answer = answer
    BY <1>1, <1>3 DEF OfGrid, Asked
  <2>2. calls' = (calls \ {k}) \cup {a}
    BY <1>3, <2>1 DEF Answered
  <2> HIDE DEF a
  <2>3. CASE page.screen # "roles" \/ crossed
    BY <1>1, <1>3, <2>3 DEF OneByOne
  <2>4. CASE page.screen = "roles" /\ ~crossed
    <3>1. OfGrid(a)
      BY <1>3, <2>1 DEF OfGrid
    <3>2. page'.loaded /\ ~page'.behind => Expected(a)'
      BY <1>1, <1>3, <2>1, <2>4 DEF Expected
    <3> QED BY <1>3, <2>2, <2>4, <3>1, <3>2, GridAnswered
  <2> QED BY <2>3, <2>4
<1>4. CASE Drop(k)
  <2>1. k.by = "lost" /\ calls' = calls \ {k} /\ UNCHANGED <<page, granted, many, crossed>>
    BY <1>4 DEF Drop, server, system
  <2> QED BY <2>1, GridStays DEF OfGrid
<1>5. CASE Refuse(k)
  <2>1. Answered(k, "failed") /\ k.answer = "none" /\ UNCHANGED <<granted, many, crossed>>
    BY <1>5 DEF Refuse, Unserved, server, system
  <2>2. page.screen = "roles" /\ page.loaded /\ ~page.behind /\ ~crossed /\ OfGrid(k)
          /\ k.op = "reset" => Agrees'
    BY <1>1, <2>1 DEF OneByOne, Expected, Agrees
  <2> QED BY <1>2, <1>3, <2>1, <2>2
<1>6. CASE Serve(k)
  <2>1. Answered(k, "ok") /\ Effect(k) /\ k.answer = "none" /\ k.op \in Writes
    BY <1>6 DEF Serve, Unserved
  <2>2. CASE UNCHANGED <<granted, many, crossed>> /\ ~OfGrid(k)
    BY <1>2, <2>1, <2>2
  <2>3. CASE /\ k.op \in {"box", "switch", "reset"} /\ AdminEffect(k)
             /\ crossed' = (crossed \/ k.by # "page")
    <3>1. CASE k.by # "page"
      BY <2>3, <3>1 DEF OneByOne
    <3>2. CASE k.by = "page"
      <4>1. OfGrid(k)
        BY <2>3, <3>2 DEF OfGrid
      <4>2. crossed' = crossed
        <5>1. crossed \in BOOLEAN
          BY TypedParts DEF SystemTypeOK
        <5> QED BY <2>3, <3>2, <5>1
      <4>3. ASSUME page.screen = "roles", page.loaded, ~page.behind, k.op = "box", ~crossed
            PROVE  Agrees'
        <5>1. WillAgree(k)
          BY <2>1, <4>1, <4>3 DEF OneByOne, Expected
        <5>2. SetPermission(k.about, Actions[k.extra], k.flag)
          BY <2>3, <4>3 DEF AdminEffect
        <5> QED BY <1>1, <4>3, <5>1, <5>2, BoxDrawn
      <4> QED BY <1>3, <2>1, <4>1, <4>2, <4>3
    <3> QED BY <3>1, <3>2
  <2>4. \/ UNCHANGED <<granted, many, crossed>> /\ k.op \notin {"box", "switch", "reset"}
        \/ /\ k.op \in {"box", "switch", "reset"} /\ AdminEffect(k)
           /\ crossed' = (crossed \/ k.by # "page")
    BY <2>1 DEF Effect, MemberEffect, AdminEffect, EraseAccount, UpdateAccount, SetPassword, system
  <2>5. k.op \notin {"box", "switch", "reset"} => ~OfGrid(k)
    BY <2>1 DEF OfGrid, Writes
  <2> QED BY <2>2, <2>3, <2>4, <2>5
<1> QED BY <1>4, <1>5, <1>6

LEMMA GridActed ==
  ASSUME BrowserTyped, OneByOne, Acts
  PROVE  OneByOne'
<1>1. CASE ~RolesActs
  <2>1. page.screen # "roles"
    BY <1>1 DEF Acts, SignInActs, PasswordActs, CorrectionActs, HistoryActs, ProfileActs,
       NotificationActs, UsersActs, On
  <2>2. page'.screen = page.screen
    BY ActsDid, DidScreened, TypedParts DEF Did, PageDid
  <2> QED BY <2>1, <2>2 DEF OneByOne
<1>2. CASE RolesActs
  <2>1. PICK p, a : Draws(p, a) /\ Did(p, {a})
    BY <1>2, RolesActsDid
  <2>2. page' = p /\ calls' = calls \cup {a}
    BY <2>1, DidScreened, TypedParts
  <2>3. page.screen = "roles" /\ crossed' = (crossed \/ GridCalls # {}) /\ UNCHANGED <<granted, many>>
    BY <1>2 DEF RolesActs, On
  <2>4. a.by = "page" /\ a.answer \in {"none", "401"} /\ OfGrid(a)
    BY <2>1 DEF Did, AskDid, Draws, OfGrid
  <2>5. SUFFICES ASSUME ~crossed, GridCalls = {} PROVE OneByOne'
    BY <2>3 DEF OneByOne
  <2>6. \A k \in calls : ~OfGrid(k)
    BY <2>5 DEF GridCalls, OfGrid
  <2>7. \A k \in calls' : OfGrid(k) <=> k = a
    BY <2>2, <2>4, <2>6
  <2>8. page.loaded /\ ~page.behind => Agrees
    BY <2>3, <2>5, <2>6 DEF OneByOne
  <2>9. page'.loaded /\ ~page'.behind => Expected(a)'
    <3>1. SUFFICES ASSUME page'.loaded, ~page'.behind PROVE Expected(a)'
      OBVIOUS
    <3>2. page.grid = granted /\ page.many = many
      BY <2>1, <2>2, <2>8, <3>1 DEF Draws, Agrees
    <3>3. CASE a.op = "box"
      <4>1. /\ p.many = page.many
            /\ p.grid = [page.grid EXCEPT ![a.about] =
                           Mirrored(page.grid[a.about], Actions[a.extra], a.flag)]
        BY <2>1, <3>3 DEF Draws
      <4>2. WillAgree(a)'
        BY <2>2, <2>3, <3>2, <4>1 DEF WillAgree
      <4> QED BY <2>4, <3>3, <4>2 DEF Expected
    <3>4. CASE a.op = "reset"
      <4>1. Agrees'
        BY <2>1, <2>2, <2>3, <3>2, <3>4 DEF Draws, Agrees
      <4> QED BY <3>4, <4>1 DEF Expected
    <3> QED BY <3>3, <3>4 DEF Expected
  <2>10. a \in calls'
    BY <2>2
  <2> QED BY <2>4, <2>7, <2>9, <2>10 DEF OneByOne, OfGrid
<1> QED BY <1>1, <1>2

LEMMA GridNext == BrowserTyped /\ OneByOne /\ [BrowserNext]_allVars => OneByOne'
  BY StepKinds, GridCarried, GridServed, GridActed

(***************************************************************************)
(* When nothing is under way, the page shows the permissions and the rule  *)
(* on devices as the server holds them, though each tick is drawn before   *)
(* it is sent, may be refused, and takes others with it (roles/page.tsx    *)
(* toggle, setDevicePolicy, restoreDefaults) - unless requests overlapped, *)
(* or one given up on was served late (crossed); a reset was done and its  *)
(* answer lost, or a reading of the grid failed (behind).                  *)
(***************************************************************************)
THEOREM GridRight == BrowserSpec => []GridIsHeld
<1>1. OneByOne => GridIsHeld
  BY DEF OneByOne, GridIsHeld, GridCalls, OfGrid, Agrees
<1> QED BY TypedAlways, GridInit, GridNext, <1>1, PTL DEF BrowserSpec

-----------------------------------------------------------------------------
(***************************************************************************)
(* The attempts of a day, as sessions.                                     *)
(***************************************************************************)
Pairs(n) == [in : 0 .. n, out : 0 .. n, rejected : SUBSET (1 .. n)]

Attempts(pair) == ({pair.in, pair.out} \ {Nobody}) \cup pair.rejected

\* No counted attempt lies between two.
Clear(events, i, j) == \A n \in i + 1 .. j - 1 : ~events[n].counted

PairRight(events, pair) ==
    pair.in # Nobody =>
        /\ pair.out # Nobody => Clear(events, pair.in, pair.out)
        /\ \A i \in pair.rejected :
             /\ pair.in < i /\ Clear(events, pair.in, i)
             /\ pair.out # Nobody => i < pair.out

OpenRight(events, n, pair) ==
    pair.in # Nobody /\ pair.out = Nobody /\ Clear(events, pair.in, n + 1)

\* What was read of the first n attempts.
ReadRight(events, n, read) ==
    /\ read \in [pairs : Seq(Pairs(n)), open : BOOLEAN]
    /\ \A i \in 1 .. n : \E m \in DOMAIN read.pairs : i \in Attempts(read.pairs[m])
    /\ \A m, k \in DOMAIN read.pairs :
         m < k => \A i \in Attempts(read.pairs[m]), j \in Attempts(read.pairs[k]) : i < j
    /\ \A m \in DOMAIN read.pairs : PairRight(events, read.pairs[m])
    /\ read.open => /\ Len(read.pairs) # 0
                    /\ OpenRight(events, n, read.pairs[Len(read.pairs)])

LEMMA AttemptsOfPairs ==
  ASSUME NEW n \in Nat, NEW pair \in Pairs(n)
  PROVE  Attempts(pair) \subseteq 1 .. n /\ pair \in Pairs(n + 1)
  BY DEF Attempts, Pairs, Nobody

LEMMA ReadAppended ==
  ASSUME NEW events, NEW n \in Nat, NEW read, ReadRight(events, n, read),
         NEW pair \in Pairs(n + 1), NEW open \in BOOLEAN,
         Attempts(pair) = {n + 1}, PairRight(events, pair),
         open => OpenRight(events, n + 1, pair)
  PROVE  ReadRight(events, n + 1, [pairs |-> Append(read.pairs, pair), open |-> open])
<1> DEFINE P == read.pairs
           Q == Append(P, pair)
           q == [pairs |-> Q, open |-> open]
<1>1. P \in Seq(Pairs(n)) /\ \A m \in DOMAIN P : P[m] \in Pairs(n)
  BY DEF ReadRight
<1>2. \A m \in DOMAIN P : Attempts(P[m]) \subseteq 1 .. n /\ P[m] \in Pairs(n + 1)
  BY <1>1, AttemptsOfPairs
<1>3. P \in Seq(Pairs(n + 1))
  BY <1>1, <1>2
<1>4. /\ Q \in Seq(Pairs(n + 1)) /\ Len(Q) = Len(P) + 1 /\ Len(P) \in Nat
      /\ DOMAIN P = 1 .. Len(P) /\ DOMAIN Q = 1 .. Len(P) + 1
      /\ \A m \in DOMAIN P : Q[m] = P[m]
      /\ Q[Len(P) + 1] = pair
  BY <1>3
<1>5. /\ \A i \in 1 .. n : \E m \in DOMAIN P : i \in Attempts(P[m])
      /\ \A m, k \in DOMAIN P : m < k => \A i \in Attempts(P[m]), j \in Attempts(P[k]) : i < j
      /\ \A m \in DOMAIN P : PairRight(events, P[m])
  BY DEF ReadRight
<1> HIDE DEF P, Q
<1>6. \A m \in DOMAIN Q : m \in DOMAIN P \/ m = Len(P) + 1
  BY <1>4
<1>7. \A i \in 1 .. n + 1 : \E m \in DOMAIN Q : i \in Attempts(Q[m])
  <2>1. ASSUME NEW i \in 1 .. n PROVE \E m \in DOMAIN Q : i \in Attempts(Q[m])
    BY <1>4, <1>5
  <2>2. \E m \in DOMAIN Q : n + 1 \in Attempts(Q[m])
    BY <1>4
  <2> QED BY <2>1, <2>2
<1>8. ASSUME NEW m \in DOMAIN Q, NEW k \in DOMAIN Q, m < k,
             NEW i \in Attempts(Q[m]), NEW j \in Attempts(Q[k])
      PROVE  i < j
  <2>1. m \in DOMAIN P /\ Q[m] = P[m] /\ i \in 1 .. n
    BY <1>2, <1>4, <1>6, <1>8
  <2>2. CASE k \in DOMAIN P
    BY <1>4, <1>5, <1>8, <2>1, <2>2
  <2>3. CASE k = Len(P) + 1
    BY <1>4, <1>8, <2>1, <2>3
  <2> QED BY <1>6, <2>2, <2>3
<1>9. \A m \in DOMAIN Q : PairRight(events, Q[m])
  BY <1>4, <1>5, <1>6
<1>10. ReadRight(events, n + 1, q)
  <2>1. q.pairs = Q /\ q.open = open /\ q \in [pairs : Seq(Pairs(n + 1)), open : BOOLEAN]
    BY <1>4
  <2>2. open => Len(Q) # 0 /\ OpenRight(events, n + 1, Q[Len(Q)])
    BY <1>4
  <2> HIDE DEF q
  <2> QED BY <1>7, <1>8, <1>9, <2>1, <2>2 DEF ReadRight
<1> QED BY <1>10 DEF P, Q

LEMMA ReadExtended ==
  ASSUME NEW events, NEW n \in Nat, NEW read, ReadRight(events, n, read), read.open,
         NEW pair \in Pairs(n + 1), NEW open \in BOOLEAN,
         Attempts(pair) = Attempts(read.pairs[Len(read.pairs)]) \cup {n + 1},
         PairRight(events, pair),
         open => OpenRight(events, n + 1, pair)
  PROVE  ReadRight(events, n + 1,
                   [pairs |-> [read.pairs EXCEPT ![Len(read.pairs)] = pair], open |-> open])
<1> DEFINE P == read.pairs
           last == Len(P)
           Q == [P EXCEPT ![last] = pair]
           q == [pairs |-> Q, open |-> open]
<1>1. P \in Seq(Pairs(n)) /\ \A m \in DOMAIN P : P[m] \in Pairs(n)
  BY DEF ReadRight
<1>2. \A m \in DOMAIN P : Attempts(P[m]) \subseteq 1 .. n /\ P[m] \in Pairs(n + 1)
  BY <1>1, AttemptsOfPairs
<1>3. P \in Seq(Pairs(n + 1))
  BY <1>1, <1>2
<1>4. /\ last \in DOMAIN P /\ DOMAIN P = 1 .. last /\ last \in Nat
  BY <1>1 DEF ReadRight
<1>5. /\ Q \in Seq(Pairs(n + 1)) /\ DOMAIN Q = DOMAIN P /\ Len(Q) = last
      /\ \A m \in DOMAIN P \ {last} : Q[m] = P[m]
      /\ Q[last] = pair
  BY <1>3, <1>4
<1>6. /\ \A i \in 1 .. n : \E m \in DOMAIN P : i \in Attempts(P[m])
      /\ \A m, k \in DOMAIN P : m < k => \A i \in Attempts(P[m]), j \in Attempts(P[k]) : i < j
      /\ \A m \in DOMAIN P : PairRight(events, P[m])
      /\ Attempts(pair) = Attempts(P[last]) \cup {n + 1}
  BY DEF ReadRight
<1> HIDE DEF P, Q, last
<1>7. \A i \in 1 .. n + 1 : \E m \in DOMAIN Q : i \in Attempts(Q[m])
  <2>1. ASSUME NEW i \in 1 .. n PROVE \E m \in DOMAIN Q : i \in Attempts(Q[m])
    <3>1. PICK m \in DOMAIN P : i \in Attempts(P[m])
      BY <1>6
    <3>2. i \in Attempts(Q[m])
      BY <1>5, <1>6, <3>1
    <3> QED BY <1>5, <3>2
  <2>2. \E m \in DOMAIN Q : n + 1 \in Attempts(Q[m])
    BY <1>4, <1>5, <1>6
  <2> QED BY <2>1, <2>2
<1>8. ASSUME NEW m \in DOMAIN Q, NEW k \in DOMAIN Q, m < k,
             NEW i \in Attempts(Q[m]), NEW j \in Attempts(Q[k])
      PROVE  i < j
  <2>1. m \in DOMAIN P /\ k \in DOMAIN P /\ m # last
    BY <1>4, <1>5, <1>8
  <2>2. Q[m] = P[m] /\ i \in Attempts(P[m]) /\ i \in 1 .. n
    BY <1>2, <1>5, <1>8, <2>1
  <2>3. j \in Attempts(P[k]) \/ j = n + 1
    BY <1>5, <1>6, <1>8, <2>1
  <2>4. CASE j \in Attempts(P[k])
    BY <1>6, <1>8, <2>1, <2>2, <2>4
  <2>5. CASE j = n + 1
    BY <2>2, <2>5
  <2> QED BY <2>3, <2>4, <2>5
<1>9. \A m \in DOMAIN Q : PairRight(events, Q[m])
  BY <1>5, <1>6
<1>10. ReadRight(events, n + 1, q)
  <2>1. q.pairs = Q /\ q.open = open /\ q \in [pairs : Seq(Pairs(n + 1)), open : BOOLEAN]
    BY <1>5
  <2>2. open => Len(Q) # 0 /\ OpenRight(events, n + 1, Q[Len(Q)])
    BY <1>4, <1>5
  <2> HIDE DEF q
  <2> QED BY <1>7, <1>8, <1>9, <2>1, <2>2 DEF ReadRight
<1> QED BY <1>10 DEF P, Q, last

LEMMA ReadStep ==
  ASSUME NEW events, NEW n \in Nat, NEW read, ReadRight(events, n, read),
         events[n + 1] \in Attempt
  PROVE  ReadRight(events, n + 1, Paired(read, n + 1, events[n + 1]))
<1> DEFINE P == read.pairs
           last == Len(P)
           e == events[n + 1]
           old == P[last]
<1>1. /\ read \in [pairs : Seq(Pairs(n)), open : BOOLEAN]
      /\ read = [pairs |-> P, open |-> read.open]
      /\ e.counted \in BOOLEAN /\ e.type \in {"CHECK_IN", "CHECK_OUT"}
  BY DEF ReadRight, Attempt
<1>2. ASSUME read.open
      PROVE  /\ old \in Pairs(n) /\ last \in DOMAIN P /\ OpenRight(events, n, old)
             /\ PairRight(events, old)
             /\ old.in \in 1 .. n /\ old.out = Nobody /\ old.rejected \subseteq 1 .. n
  <2>1. last \in DOMAIN P
    BY <1>1, <1>2 DEF ReadRight
  <2>2. old \in Pairs(n) /\ OpenRight(events, n, old) /\ PairRight(events, old)
    BY <1>1, <1>2, <2>1 DEF ReadRight
  <2> HIDE DEF old
  <2>3. old.in \in 1 .. n /\ old.out = Nobody /\ old.rejected \subseteq 1 .. n
    BY <2>2 DEF OpenRight, Pairs, Nobody
  <2> QED BY <2>1, <2>2, <2>3
<1>3. ASSUME NEW pair, pair \in {Pair(Nobody, Nobody, {n + 1}), Pair(Nobody, n + 1, {})}
      PROVE  pair \in Pairs(n + 1) /\ Attempts(pair) = {n + 1} /\ PairRight(events, pair)
  BY <1>3 DEF Pair, Pairs, Attempts, PairRight, Nobody
<1>4. CASE ~e.counted /\ read.open
  <2> DEFINE pair == [old EXCEPT !.rejected = old.rejected \cup {n + 1}]
  <2>1. /\ pair \in Pairs(n + 1) /\ pair.in = old.in /\ pair.out = Nobody
        /\ pair.rejected = old.rejected \cup {n + 1}
    BY <1>2, <1>4 DEF Pairs
  <2>2. Paired(read, n + 1, e) = [pairs |-> [P EXCEPT ![last] = pair], open |-> TRUE]
    <3>1. Paired(read, n + 1, e) = [read EXCEPT !.pairs[last].rejected = @ \cup {n + 1}]
      BY <1>4 DEF Paired
    <3> QED BY <1>1, <1>2, <1>4, <3>1
  <2> HIDE DEF pair, P, last, e, old
  <2>3. Attempts(pair) = Attempts(old) \cup {n + 1}
    BY <1>2, <1>4, <2>1 DEF Attempts
  <2>4. Clear(events, old.in, n + 1) /\ Clear(events, old.in, n + 2)
    <3>1. Clear(events, old.in, n + 1)
      BY <1>2, <1>4 DEF OpenRight
    <3>2. ~events[n + 1].counted
      BY <1>4 DEF e
    <3> QED BY <1>2, <1>4, <3>1, <3>2 DEF Clear
  <2>5. PairRight(events, pair)
    <3>1. \A i \in old.rejected : old.in < i /\ Clear(events, old.in, i)
      BY <1>2, <1>4 DEF PairRight, OpenRight
    <3>2. \A i \in pair.rejected : pair.in < i /\ Clear(events, pair.in, i)
      BY <1>2, <1>4, <2>1, <2>4, <3>1
    <3> QED BY <2>1, <3>2 DEF PairRight
  <2>6. OpenRight(events, n + 1, pair)
    <3>1. (n + 1) + 1 = n + 2
      OBVIOUS
    <3> QED BY <1>2, <1>4, <2>1, <2>4, <3>1 DEF OpenRight
  <2>7. PICK open \in BOOLEAN : open = TRUE
    OBVIOUS
  <2>8. ReadRight(events, n + 1, [pairs |-> [P EXCEPT ![last] = pair], open |-> open])
    BY <1>4, <2>1, <2>3, <2>5, <2>6, ReadExtended DEF P, last, old
  <2> QED BY <2>2, <2>7, <2>8 DEF e
<1>5. CASE ~e.counted /\ ~read.open
  <2>1. Paired(read, n + 1, e) = [pairs |-> Append(P, Pair(Nobody, Nobody, {n + 1})), open |-> FALSE]
    <3>1. Paired(read, n + 1, e) = [read EXCEPT !.pairs = Append(P, Pair(Nobody, Nobody, {n + 1}))]
      BY <1>5 DEF Paired
    <3>2. read.open = FALSE
      BY <1>1, <1>5
    <3> QED BY <1>1, <3>1, <3>2
  <2> QED BY <1>3, <2>1, ReadAppended
<1>6. CASE e.counted /\ e.type = "CHECK_IN"
  <2> DEFINE pair == Pair(n + 1, Nobody, {})
  <2>1. Paired(read, n + 1, e) = [pairs |-> Append(P, pair), open |-> TRUE]
    BY <1>6 DEF Paired
  <2>2. pair \in Pairs(n + 1) /\ Attempts(pair) = {n + 1}
    BY DEF Pair, Pairs, Attempts, Nobody
  <2>3. PairRight(events, pair) /\ OpenRight(events, n + 1, pair)
    BY DEF Pair, PairRight, OpenRight, Clear, Nobody
  <2> QED BY <2>1, <2>2, <2>3, ReadAppended
<1>7. CASE e.counted /\ e.type # "CHECK_IN" /\ read.open
  <2> DEFINE pair == [old EXCEPT !.out = n + 1]
  <2>1. /\ pair \in Pairs(n + 1) /\ pair.in = old.in /\ pair.out = n + 1
        /\ pair.rejected = old.rejected
    BY <1>2, <1>7 DEF Pairs
  <2>2. Paired(read, n + 1, e) = [pairs |-> [P EXCEPT ![last] = pair], open |-> FALSE]
    <3>1. Paired(read, n + 1, e) = [pairs |-> [P EXCEPT ![last].out = n + 1], open |-> FALSE]
      BY <1>7 DEF Paired
    <3> QED BY <1>1, <1>2, <1>7, <3>1
  <2> HIDE DEF pair, P, last, e, old
  <2>3. Attempts(pair) = Attempts(old) \cup {n + 1}
    BY <1>2, <1>7, <2>1 DEF Attempts, Nobody
  <2>4. Clear(events, old.in, n + 1)
    BY <1>2, <1>7 DEF OpenRight
  <2>5. PairRight(events, pair)
    <3>1. \A i \in old.rejected : old.in < i /\ Clear(events, old.in, i)
      BY <1>2, <1>7 DEF PairRight, OpenRight
    <3>2. \A i \in pair.rejected : i < n + 1
      BY <1>2, <1>7, <2>1
    <3> QED BY <2>1, <2>4, <3>1, <3>2 DEF PairRight
  <2>6. PICK open \in BOOLEAN : open = FALSE
    OBVIOUS
  <2>7. ReadRight(events, n + 1, [pairs |-> [P EXCEPT ![last] = pair], open |-> open])
    BY <1>7, <2>1, <2>3, <2>5, <2>6, ReadExtended DEF P, last, old
  <2> QED BY <2>2, <2>6, <2>7 DEF e
<1>8. CASE e.counted /\ e.type # "CHECK_IN" /\ ~read.open
  <2>1. Paired(read, n + 1, e) = [pairs |-> Append(P, Pair(Nobody, n + 1, {})), open |-> FALSE]
    <3>1. Paired(read, n + 1, e) = [read EXCEPT !.pairs = Append(P, Pair(Nobody, n + 1, {}))]
      BY <1>8 DEF Paired
    <3>2. read.open = FALSE
      BY <1>1, <1>8
    <3> QED BY <1>1, <3>1, <3>2
  <2> QED BY <1>3, <2>1, ReadAppended
<1> QED BY <1>1, <1>4, <1>5, <1>6, <1>7, <1>8

\* The function that reads them exists.
LEMMA ReadExists ==
  ASSUME NEW events, NEW n \in Nat
  PROVE  \E read : read = [i \in 0 .. n |->
                             IF i = 0 THEN [pairs |-> <<>>, open |-> FALSE]
                             ELSE Paired(read[i - 1], i, events[i])]
<1> DEFINE ReadBy(read, m) ==
             read = [i \in 0 .. m |-> IF i = 0 THEN [pairs |-> <<>>, open |-> FALSE]
                                      ELSE Paired(read[i - 1], i, events[i])]
           T == {m \in Nat : \E read : ReadBy(read, m)}
<1>1. 0 \in T
  <2>1. ReadBy([i \in 0 .. 0 |-> [pairs |-> <<>>, open |-> FALSE]], 0)
    OBVIOUS
  <2> QED BY <2>1
<1>2. ASSUME NEW m \in Nat, m \in T PROVE m + 1 \in T
  <2>1. PICK read : ReadBy(read, m)
    BY <1>2
  <2> DEFINE more == [i \in 0 .. m + 1 |-> IF i = m + 1 THEN Paired(read[m], m + 1, events[m + 1])
                                            ELSE read[i]]
  <2>2. \A i \in 0 .. m : more[i] = read[i]
    OBVIOUS
  <2>3. more[m + 1] = Paired(more[m], m + 1, events[m + 1])
    BY <2>2
  <2>4. \A i \in 0 .. m : read[i] = IF i = 0 THEN [pairs |-> <<>>, open |-> FALSE]
                                    ELSE Paired(read[i - 1], i, events[i])
    BY <2>1
  <2>5. \A i \in 0 .. m + 1 : more[i] = IF i = 0 THEN [pairs |-> <<>>, open |-> FALSE]
                                        ELSE Paired(more[i - 1], i, events[i])
    <3>1. ASSUME NEW i \in 1 .. m PROVE more[i] = Paired(more[i - 1], i, events[i])
      <4>1. i - 1 \in 0 .. m /\ i \in 0 .. m /\ i # 0
        OBVIOUS
      <4>2. more[i] = read[i] /\ more[i - 1] = read[i - 1]
        BY <2>2, <4>1
      <4> QED BY <2>4, <4>1, <4>2
    <3>2. more[0] = [pairs |-> <<>>, open |-> FALSE]
      BY <2>2, <2>4
    <3>3. (m + 1) - 1 = m /\ m + 1 # 0
      OBVIOUS
    <3> HIDE DEF more
    <3>4. ASSUME NEW i \in 0 .. m + 1 PROVE i = 0 \/ i \in 1 .. m \/ i = m + 1
      OBVIOUS
    <3>5. ASSUME NEW i \in 0 .. m + 1
          PROVE  more[i] = IF i = 0 THEN [pairs |-> <<>>, open |-> FALSE]
                           ELSE Paired(more[i - 1], i, events[i])
      BY <2>3, <3>1, <3>2, <3>3, <3>4
    <3> QED BY <3>5
  <2>6. more = [i \in 0 .. m + 1 |-> more[i]]
    OBVIOUS
  <2> HIDE DEF more
  <2>7. ReadBy(more, m + 1)
    BY <2>5, <2>6
  <2> QED BY <2>7
<1> HIDE DEF T
<1>3. n \in T
  BY <1>1, <1>2, Induction
<1> QED BY <1>3 DEF T

LEMMA PairSessionsRight ==
  ASSUME NEW events \in Seq(Attempt)
  PROVE  \E open \in BOOLEAN :
           ReadRight(events, Len(events), [pairs |-> PairSessions(events), open |-> open])
<1> DEFINE n == Len(events)
           nothing == [pairs |-> <<>>, open |-> FALSE]
           IsRead(f) == f = [i \in 0 .. n |-> IF i = 0 THEN nothing
                                              ELSE Paired(f[i - 1], i, events[i])]
           read == CHOOSE f : IsRead(f)
           T == {i \in Nat : i <= n => ReadRight(events, i, read[i])}
<1>1. n \in Nat /\ \A i \in 1 .. n : events[i] \in Attempt
  OBVIOUS
<1>2. IsRead(read)
  <2>1. \E f : IsRead(f)
    BY <1>1, ReadExists
  <2> HIDE DEF IsRead
  <2> QED BY <2>1
<1>3. PairSessions(events) = read[n].pairs
  BY DEF PairSessions
<1> HIDE DEF read, n
<1>4. read[0] = nothing /\ \A i \in 1 .. n : read[i] = Paired(read[i - 1], i, events[i])
  <2>1. \A i \in 0 .. n : read[i] = IF i = 0 THEN nothing ELSE Paired(read[i - 1], i, events[i])
    BY <1>2
  <2>2. 0 \in 0 .. n /\ \A i \in 1 .. n : i \in 0 .. n /\ i # 0
    BY <1>1
  <2> HIDE DEF nothing
  <2>3. read[0] = nothing
    BY <2>1, <2>2
  <2>4. \A i \in 1 .. n : read[i] = Paired(read[i - 1], i, events[i])
    BY <2>1, <2>2
  <2> QED BY <2>3, <2>4
<1>5. 0 \in T
  <2>1. nothing \in [pairs : Seq(Pairs(0)), open : BOOLEAN]
    OBVIOUS
  <2>2. ReadRight(events, 0, nothing)
    BY <2>1 DEF ReadRight
  <2> QED BY <1>4, <2>2
<1>6. ASSUME NEW i \in Nat, i \in T PROVE i + 1 \in T
  <2>1. CASE i + 1 <= n
    <3>1. ReadRight(events, i, read[i]) /\ i + 1 \in 1 .. n /\ (i + 1) - 1 = i
      BY <1>1, <1>6, <2>1
    <3>2. ReadRight(events, i + 1, Paired(read[i], i + 1, events[i + 1]))
      BY <1>1, <3>1, ReadStep
    <3> QED BY <1>4, <3>1, <3>2
  <2> QED BY <2>1
<1> HIDE DEF T
<1>7. n \in T
  BY <1>1, <1>5, <1>6, Induction
<1>8. ReadRight(events, n, read[n])
  BY <1>1, <1>7 DEF T
<1>9. read[n].open \in BOOLEAN /\ read[n] = [pairs |-> read[n].pairs, open |-> read[n].open]
  BY <1>8 DEF ReadRight
<1> QED BY <1>3, <1>8, <1>9 DEF n

(***************************************************************************)
(* For every day of any length: the dialog shows every attempt once, in    *)
(* order of time, and puts together an arrival with the departure that     *)
(* ended it, and with the attempts refused between them (lib/member.ts     *)
(* pairSessions).                                                          *)
(***************************************************************************)
THEOREM DayRight == BrowserSpec => []DayReadsAsItWas
<1>1. BrowserTyped => DayReadsAsItWas
  <2> SUFFICES ASSUME BrowserTyped, page.screen = "history" PROVE DayReadsAsItWas
    BY DEF DayReadsAsItWas
  <2> DEFINE pairs == PairSessions(page.events)
             n == Len(page.events)
  <2>1. page.events \in Seq(Attempt)
    BY TypedParts, PageOfScreen DEF Screened, HistoryPages
  <2>2. n \in Nat /\ DOMAIN page.events = 1 .. n
    BY <2>1
  <2>3. PICK open \in BOOLEAN : ReadRight(page.events, n, [pairs |-> pairs, open |-> open])
    BY <2>1, PairSessionsRight
  <2> HIDE DEF pairs, n
  <2>4. /\ pairs \in Seq(Pairs(n))
        /\ \A i \in 1 .. n : \E m \in DOMAIN pairs : i \in Attempts(pairs[m])
        /\ \A m, k \in DOMAIN pairs :
             m < k => \A i \in Attempts(pairs[m]), j \in Attempts(pairs[k]) : i < j
        /\ \A m \in DOMAIN pairs : PairRight(page.events, pairs[m])
    BY <2>3 DEF ReadRight
  <2>5. ASSUME NEW i \in DOMAIN page.events
        PROVE  Cardinality({m \in DOMAIN pairs : i \in Attempts(pairs[m])}) = 1
    <3>1. PICK m \in DOMAIN pairs : i \in Attempts(pairs[m])
      BY <2>2, <2>4
    <3>2. \A k \in DOMAIN pairs : i \in Attempts(pairs[k]) => k = m
      <4>1. SUFFICES ASSUME NEW k \in DOMAIN pairs, i \in Attempts(pairs[k]), k # m PROVE FALSE
        OBVIOUS
      <4>2. m \in Nat /\ k \in Nat
        BY <2>4
      <4>3. m < k \/ k < m
        BY <4>1, <4>2
      <4>4. i < i
        BY <2>4, <3>1, <4>1, <4>3
      <4>5. i \in Nat
        BY <2>2
      <4> QED BY <4>4, <4>5
    <3>3. {k \in DOMAIN pairs : i \in Attempts(pairs[k])} = {m}
      BY <3>1, <3>2
    <3> QED BY <3>3, FS_Singleton
  <2>6. ASSUME NEW m \in DOMAIN pairs, pairs[m].in # Nobody
        PROVE  /\ pairs[m].out # Nobody
                    => {k \in pairs[m].in + 1 .. pairs[m].out - 1 : page.events[k].counted} = {}
               /\ \A i \in pairs[m].rejected :
                    /\ pairs[m].in < i
                    /\ {k \in pairs[m].in + 1 .. i - 1 : page.events[k].counted} = {}
                    /\ pairs[m].out # Nobody => i < pairs[m].out
    BY <2>4, <2>6 DEF PairRight, Clear
  <2> QED BY <2>2, <2>4, <2>5, <2>6 DEF DayReadsAsItWas, Attempts, pairs
<1> QED BY TypedAlways, <1>1, PTL

-----------------------------------------------------------------------------
(***************************************************************************)
(* Signing in happens once, to a browser that has no secret; so the        *)
(* session keeps what it keeps alone (RefreshProofs) in the browser.       *)
(***************************************************************************)

\* What becomes of the session: a step of its own, the tokens of a sign-in, or
\* the end of one that the server closed.
SignsIn(k) ==
    SigningIn(k) /\ store' = session.token /\ UNCHANGED <<session, shared, call, leaving>>

Ends ==
    /\ ~session.open /\ store' = None /\ UNCHANGED <<session, shared>>
    /\ call' = call \/ call' = [c \in Callers |-> Quiet]

LEMMA SessionOf ==
  ASSUME [BrowserNext]_allVars
  PROVE  \/ [Next]_vars
         \/ \E k \in calls : HearOk(k) /\ SignsIn(k)
         \/ Ends
<1>1. ASSUME NEW k \in calls, HearOk(k) PROVE UNCHANGED vars \/ SignsIn(k)
  BY <1>1 DEF HearOk, vars, SigningIn, SignsIn
<1>2. ASSUME NEW k \in calls, HearFailed(k) \/ HearUnauthorized(k) PROVE UNCHANGED vars
  BY <1>2 DEF HearFailed, HearUnauthorized
<1>3. ASSUME NEW k \in calls, HearRevoked(k) PROVE Ends
  BY <1>3 DEF HearRevoked, Ends
<1>4. ASSUME NEW k \in calls, Serve(k) \/ Refuse(k) \/ Drop(k) PROVE [Next]_vars
  BY <1>4 DEF Serve, Refuse, Drop, Next
<1>5. OthersAct => UNCHANGED vars
  BY DEF OthersAct
<1>6. Moves => UNCHANGED vars
  BY MovesKeep DEF vars
<1>7. Acts => UNCHANGED vars
  BY ActsAreKept DEF ActsKeep, vars
<1>8. SessionMoves => Next
  BY DEF SessionMoves, Next, SignOutStep
<1>9. UNCHANGED allVars => UNCHANGED vars
  BY DEF allVars
<1> QED BY <1>1, <1>2, <1>3, <1>4, <1>5, <1>6, <1>7, <1>8, <1>9, StepsOf

LEMMA SignedOutStays ==
  ASSUME store = None, \A c \in Callers : call[c] = Quiet, [Next]_vars
  PROVE  store' = None /\ \A c \in Callers : call'[c] = Quiet
<1>1. CASE UNCHANGED vars
  BY <1>1 DEF vars
<1>2. ASSUME NEW c \in Callers, RefreshStep(c) PROVE FALSE
  <2>1. call[c] = Quiet /\ Quiet.stage = "quiet"
    BY DEF Quiet
  <2> QED
    BY <1>2, <2>1 DEF RefreshStep, Ask, Reject, Rotate, IsCurrent, IsRecent, Presents, GraceAnswer,
       Remember, Receive, ReceiveRejected, Lose
<1>3. ASSUME NEW c \in Callers, SignOutStep(c)
      PROVE  store' = None /\ UNCHANGED call
  BY <1>3 DEF SignOutStep, SignOut, Close, CloseFails, ClearStore
<1>4. Revoke \/ EndRevokedSession \/ GraceEnds \/ RedisForgets => UNCHANGED <<store, call>>
  BY DEF Revoke, EndRevokedSession, GraceEnds, RedisForgets
<1> QED BY <1>1, <1>2, <1>3, <1>4 DEF Next

LEMMA SignsInInit == BrowserInit => SignsInOnce
<1> SUFFICES ASSUME BrowserInit PROVE SignsInOnce
  OBVIOUS
<1>1. \A k \in calls : k.op \in Reads
  BY FirstReadsSound DEF BrowserInit, Holds
<1>2. \A k \in calls : ~SigningIn(k)
  BY <1>1 DEF Reads, SigningIn
<1>3. left.signins = 1 => store = None
  BY DEF BrowserInit
<1>4. \A c \in Callers : call[c] = Quiet
  BY DEF BrowserInit
<1> QED BY <1>2, <1>3, <1>4 DEF SignsInOnce

\* Who is signing in: no more than before, and not in a new way.
SignsInAgain ==
    /\ \A k, l \in calls' : SigningIn(k) /\ SigningIn(l) => k = l
    /\ \A k \in calls' : SigningIn(k) => \E l \in calls : SigningIn(l)

LEMMA SignsInCarried ==
  ASSUME BrowserTyped, SignsInOnce, Carries
  PROVE  SignsInAgain
<1>1. PICK g : \A c \in calls' :
                 \/ c.op \in Reads \cup {"first"}
                 \/ \E k \in calls : GoesOn(c, k)
                 \/ \E l \in calls : c = g[l] /\ Same(c, l)
  BY CarriesOn DEF Carried
<1>2. ASSUME NEW c \in calls', SigningIn(c)
      PROVE  \E l \in calls : c = g[l] /\ SigningIn(l)
  BY <1>1, <1>2 DEF SigningIn, Reads, GoesOn, Same
<1> QED BY <1>2 DEF SignsInOnce, SignsInAgain

LEMMA SignsInServed ==
  ASSUME BrowserTyped, SignsInOnce, NEW k \in calls, Serve(k) \/ Refuse(k) \/ Drop(k)
  PROVE  SignsInAgain
<1>1. k \in Asked
  BY TypedParts DEF Screened, Sound
<1>2. PICK d : (SigningIn(d) => SigningIn(k)) /\ calls' \subseteq (calls \ {k}) \cup {d}
  <2> DEFINE Answer(a) == [k EXCEPT !.answer = a]
  <2>1. \A a : SigningIn(Answer(a)) => SigningIn(k)
    BY <1>1 DEF SigningIn, Asked
  <2>2. \/ calls' \subseteq (calls \ {k}) \cup {Answer("ok")}
        \/ calls' \subseteq (calls \ {k}) \cup {Answer("failed")}
    BY DEF Serve, Refuse, Drop, Answered
  <2> HIDE DEF Answer
  <2> QED BY <2>1, <2>2
<1> QED BY <1>2 DEF SignsInOnce, SignsInAgain

LEMMA SignsInActed ==
  ASSUME BrowserTyped, SignsInOnce, Acts
  PROVE  \/ SignsInAgain
         \/ /\ left.signins = 1 /\ left'.signins = 0
            /\ \A k, l \in calls' : SigningIn(k) /\ SigningIn(l) => k = l
<1>1. PICK p, asked : Did(p, asked)
  BY ActsDid
<1>2. calls' = calls \cup asked
  BY <1>1, DidScreened, TypedParts
<1>3. CASE \A a \in asked : ~SigningIn(a)
  BY <1>2, <1>3 DEF SignsInOnce, SignsInAgain
<1>4. CASE \E a \in asked : SigningIn(a)
  <2>1. Spend("signins") /\ \A a, b \in asked : a = b
    BY <1>1, <1>4 DEF Did, AskDid
  <2>2. left \in Bound
    BY TypedParts
  <2>3. left.signins = 1 /\ left'.signins = 0
    BY <2>1, <2>2 DEF Spend, Bound
  <2>4. \A k \in calls : ~SigningIn(k)
    BY <2>3 DEF SignsInOnce
  <2> QED BY <1>2, <2>1, <2>3, <2>4
<1> QED BY <1>3, <1>4

\* Once it is answered, nobody signs in any more.
LEMMA SignedIn ==
  ASSUME BrowserTyped, SignsInOnce, NEW k \in calls, HearOk(k), SigningIn(k)
  PROVE  \A c \in calls' : ~SigningIn(c)
<1>1. k \in Asked /\ Meant(k) /\ calls \subseteq Asked /\ k.by \in {"page", "past", "lost"}
  BY TypedParts DEF Screened, Sound, Asked
<1>2. PICK f : Heard(k, AfterOk(k), f, AsksNext(k))
  BY DEF HearOk
<1> DEFINE all == (calls \ {k}) \cup Passed(k, AsksNext(k))
           q == IF k.by = "page" THEN AfterOk(k) ELSE page
<1>3. ASSUME NEW l \in Passed(k, AsksNext(k)) PROVE l \in Asked /\ ~SigningIn(l)
  <2>1. PICK a \in AsksNext(k) : l = [a EXCEPT !.by = IF a.by = "lost" THEN "lost" ELSE k.by]
    BY DEF Passed
  <2>2. Follows(a, a.op) /\ (a.op \in Reads \cup {"first"} \/ a.op = "erase")
    BY <1>1, AsksNextSound
  <2>3. a \in Asked
    BY <2>2 DEF Follows
  <2>4. l \in Asked /\ Same(l, a)
    BY <1>1, <2>1, <2>3, WaitedForBy
  <2> QED BY <2>2, <2>4 DEF Same, SigningIn, Reads
<1>4. all \in SUBSET Asked /\ \A l \in all : ~SigningIn(l)
  BY <1>1, <1>3 DEF SignsInOnce
<1>5. Becomes(f, q, all)
  BY <1>2 DEF Heard, Passed
<1> HIDE DEF all, q
<1>6. PICK h : \A c \in calls' : c.op \in Reads \/ \E l \in all : c = h[l] /\ Same(c, l)
  BY <1>4, <1>5, BecomesCarries
<1> QED BY <1>4, <1>6 DEF Same, SigningIn, Reads

\* What a step leaves of the sign-in.
LEMMA SignsInLeft ==
  ASSUME BrowserTyped, SignsInOnce, [BrowserNext]_allVars
  PROVE  /\ left.signins \in 0 .. 1 /\ left'.signins \in 0 .. 1
         /\ left'.signins <= left.signins
         /\ \A k, l \in calls' : SigningIn(k) /\ SigningIn(l) => k = l
         /\ \/ SignsInAgain
            \/ left.signins = 1 /\ left'.signins = 0
<1>1. left \in Bound
  BY TypedParts
<1>2. Carries \/ (\E k \in calls : Serve(k) \/ Refuse(k) \/ Drop(k)) => Spends
  BY DEF Carries, HearOk, HearFailed, HearUnauthorized, HearRevoked, OthersAct, Moves, GoTo,
     AskForCorrection, GiveUp, SessionMoves, allVars, member, Spends, Serve, Refuse, Drop
<1>3. Spends
  BY <1>2, StepKinds, ActsAreKept DEF ActsKeep
<1>4. left'.signins <= left.signins /\ left' \in Bound
  BY <1>1, <1>3, SpendsLess
<1>5. left.signins \in 0 .. 1 /\ left'.signins \in 0 .. 1
  BY <1>1, <1>4 DEF Bound
<1>6. \/ SignsInAgain
      \/ /\ left.signins = 1 /\ left'.signins = 0
         /\ \A k, l \in calls' : SigningIn(k) /\ SigningIn(l) => k = l
  BY StepKinds, SignsInCarried, SignsInServed, SignsInActed
<1> QED BY <1>4, <1>5, <1>6 DEF SignsInAgain

LEMMA SignsInNext == BrowserTyped /\ SignsInOnce /\ [BrowserNext]_allVars => SignsInOnce'
<1> SUFFICES ASSUME BrowserTyped, SignsInOnce, [BrowserNext]_allVars PROVE SignsInOnce'
  OBVIOUS
<1> DEFINE yet == left.signins = 1 \/ \E k \in calls : SigningIn(k)
           yetThen == left'.signins = 1 \/ \E k \in calls' : SigningIn(k)
<1>1. /\ left.signins \in 0 .. 1 /\ left'.signins \in 0 .. 1
      /\ left'.signins <= left.signins
      /\ \A k, l \in calls' : SigningIn(k) /\ SigningIn(l) => k = l
      /\ SignsInAgain \/ (left.signins = 1 /\ left'.signins = 0)
  BY SignsInLeft
<1>2. (\E k \in calls' : SigningIn(k)) => left'.signins = 0
  BY <1>1 DEF SignsInOnce, SignsInAgain
<1>3. yetThen => yet
  BY <1>1 DEF SignsInAgain
<1>4. ASSUME yetThen
      PROVE  store' = None /\ \A c \in Callers : call'[c] = Quiet
  <2>1. store = None /\ \A c \in Callers : call[c] = Quiet
    BY <1>3, <1>4 DEF SignsInOnce
  <2>2. CASE [Next]_vars
    BY <2>1, <2>2, SignedOutStays
  <2>3. ASSUME NEW k \in calls, HearOk(k), SignsIn(k) PROVE FALSE
    <3>1. SigningIn(k) /\ left.signins = 0
      BY <2>3 DEF SignsIn, SignsInOnce
    <3>2. \A c \in calls' : ~SigningIn(c)
      BY <2>3, <3>1, SignedIn
    <3> QED BY <1>1, <1>4, <3>1, <3>2
  <2>4. CASE Ends
    BY <2>1, <2>4 DEF Ends
  <2> QED BY <2>2, <2>3, <2>4, SessionOf
<1> QED BY <1>1, <1>2, <1>4 DEF SignsInOnce

-----------------------------------------------------------------------------
(***************************************************************************)
(* The session in the browser: what RefreshProofs shows of it alone.       *)
(***************************************************************************)
LEMMA TabInit == BrowserInit => TabInv
<1> SUFFICES ASSUME BrowserInit PROVE TabInv
  OBVIOUS
<1>1. TypeOK
  BY TypedInit, TypedParts
<1> QED
  BY <1>1 DEF BrowserInit, TabInv, StoreKnown, Known, RetiredIsOlder, CallKnown,
     SharedIsNewest, Quiet, None

LEMMA TabNext ==
  ASSUME NEW c \in Callers, Callers = {c}, "outage" \notin Faults,
         BrowserTyped, SignsInOnce, TabInv, [BrowserNext]_allVars
  PROVE  TabInv'
<1>1. TypeOK'
  BY TypedNext, TypedPartsNext
<1>2. CASE [Next]_vars
  BY <1>2, NextTab
<1>3. ASSUME NEW k \in calls, SignsIn(k) PROVE TabInv'
  <2>1. \A d \in Callers : call'[d] = Quiet
    BY <1>3 DEF SignsIn, SignsInOnce
  <2>2. store' = session'.token /\ UNCHANGED <<session, shared>>
    BY <1>3 DEF SignsIn
  <2> QED
    BY <1>1, <2>1, <2>2 DEF TabInv, StoreKnown, Known, RetiredIsOlder, CallKnown,
       SharedIsNewest, Quiet
<1>4. CASE Ends
  <2>1. \A d \in Callers : call'[d] = call[d] \/ call'[d] = Quiet
    BY <1>4 DEF Ends
  <2>2. store' = None /\ UNCHANGED <<session, shared>>
    BY <1>4 DEF Ends
  <2> QED
    BY <1>1, <2>1, <2>2 DEF TabInv, StoreKnown, Known, RetiredIsOlder, CallKnown,
       SharedIsNewest, Quiet
<1> QED BY <1>2, <1>3, <1>4, SessionOf

LEMMA TabAlways ==
  ASSUME NEW c \in Callers, Callers = {c}, "outage" \notin Faults
  PROVE  BrowserSpec => [](BrowserTyped /\ SignsInOnce /\ TabInv)
<1>1. BrowserTyped /\ SignsInOnce /\ TabInv /\ [BrowserNext]_allVars
        => (BrowserTyped /\ SignsInOnce /\ TabInv)'
  BY TypedNext, SignsInNext, TabNext
<1> QED BY TypedInit, SignsInInit, TabInit, <1>1, PTL DEF BrowserSpec

(***************************************************************************)
(* The browser of an open session holds a secret that the server can still *)
(* take, however the pages, the sign-in and a session closed by the server *)
(* (endRevokedSession) come between its refreshes.  Assumed: one caller,   *)
(* and a Redis that is never away while it holds something.                *)
(***************************************************************************)
THEOREM BrowserStoreLive ==
  ASSUME NEW c \in Callers, Callers = {c}, "outage" \notin Faults
  PROVE  BrowserSpec => []StoreLive
<1>1. TabInv => StoreLive
  BY DEF TabInv, StoreKnown, Known, StoreLive
<1> QED BY TabAlways, <1>1, PTL

(***************************************************************************)
(* Whatever page is on screen and whatever requests are under way, nobody  *)
(* is signed out of the browser without a cause.  Assumed: as above.       *)
(***************************************************************************)
THEOREM BrowserSignedOutForCause ==
  ASSUME NEW c \in Callers, Callers = {c}, "outage" \notin Faults
  PROVE  BrowserSpec => SignedOutForCause
<1>1. ASSUME TabInv, [BrowserNext]_allVars
      PROVE  [store # None /\ store' = None => SignOutCause]_vars
  <2>1. SUFFICES ASSUME store # None, store' = None PROVE SignOutCause
    OBVIOUS
  <2>2. CASE Next
    BY <1>1, <2>1, <2>2, NextForCause
  <2>3. CASE UNCHANGED vars
    BY <2>1, <2>3 DEF vars
  <2>4. ASSUME NEW k \in calls, SignsIn(k) PROVE FALSE
    BY <1>1, <2>1, <2>4 DEF SignsIn, TabInv, TypeOK, Session, Secrets
  <2>5. CASE Ends
    BY <2>5 DEF Ends, SignOutCause
  <2> QED BY <1>1, <2>2, <2>3, <2>4, <2>5, SessionOf
<1>2. BrowserTyped /\ SignsInOnce /\ TabInv /\ [BrowserNext]_allVars
        => [store # None /\ store' = None => SignOutCause]_vars
  BY <1>1
<1> QED BY TabAlways, <1>2, PTL DEF BrowserSpec, SignedOutForCause
=============================================================================
