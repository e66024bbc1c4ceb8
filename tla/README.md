# Face attendance: a formal model

This directory is a TLA+ development of the attendance system in this
repository: people check in and check out at a place with a phone, a position
and a photograph, and the records are read as working days.  It holds modules
that model the server's handlers, TLC configurations that check them on small
instances, and proofs that TLAPS checks for every value of the constants.
Paths below are relative to the repository; `attendance.py` alone means
`api/app/services/attendance.py`.

    cd tla
    tlc -workers 2 -config Attendance_safety.cfg MCAttendance
    tlapm AttendanceProofs.tla

## 1. The system

One FastAPI process per container (`api/app`), PostgreSQL at READ COMMITTED for
everything that must not be lost, Redis for what may be, MinIO for photographs,
`face-ai` (a stateless service that finds and compares faces), and a Next.js
front end (`frontend/`).  Several API processes may serve one database; a
handler declared `def` runs in a thread pool, so requests are concurrent even in
one process.  The database transaction is the unit of atomicity; row locks
(`SELECT ... FOR UPDATE`) and unique indexes are the only coordination.

| component | state it keeps | operations | hard behaviours | what makes it correct |
|---|---|---|---|---|
| Working day rules (`attendance_days.py`, `_hour_rule`, `_open_state`) | none: reads rows of `attendance_events` | the cut of a place, the working date of an instant, which session is open, the status of a day | hours that wrap midnight, halves that do not divide, two places cut at different hours | an instant has one date per place, dates never run backwards, a session is open for one date |
| Check-in and check-out (`attendance.py`, `domain/geofence.py`) | `attendance_events`, the lock on the member's row of `users` | `check_in`, `check_out`, records of rejected attempts | two requests of one member at once, a slow face comparison under the lock, a clock read at three different moments, retries with a key, places switched off meanwhile | one open session, a departure closes one arrival, one session a day, one row per key, every request ends |
| Device sessions (`auth.py`, `routers/auth.py`, `session_policy.py`) | `refresh_sessions`, `users`, `session_policies` | login, register, logout, reset and change of password, one-device policy | login reads the password before it takes the lock, the policy locks no account and waits for one at its audit entry | at most the permitted devices, no circle of waits but through the change of the policy |
| Refresh rotation (`routers/auth.py` refresh, `security.py`, `frontend/lib/api.ts`) | the current and the previous secret of a session, Redis, the browser's `localStorage` | refresh, grace answer, logout | lost answers, several tabs, Redis that forgets | a live session's browser holds a secret the server still takes |
| Member's phone (`attendance/page.tsx`, `enroll/page.tsx`, `CameraCapture.tsx`) | what a page believes of the day, the photograph in hand, the camera, the guide | open the camera, shoot, retake, send, send again, enrol | answers lost, late, or for a page that was left; a tab hidden while a stream opens; a guide that fails | what a page says was recorded was; one session however often it is sent; the shutter opens on this view, and opens at last |
| Face enrolment (`faces.py`, `face_requests.py`) | `face_embeddings`, `face_change_requests`, the challenge | enrol, ask, approve, reject | a wait for face-ai between check and write | what is announced of a photograph has the row of that photograph |
| Manager's desk (`manager/teams`, `manager/attendance`, `manager/locations`, `PersonPanel.tsx`) | lists as loaded, forms, dialogs, ticks | create, attach, add, decide, suspend, adjust, delete a day, assign | late answers for another unit, month, line or place; a batch overtaken; half of a batch done | what is announced was done, of what was on screen; nobody is changed who was not ticked |
| Membership (`teams.py`, `membership.py`) | `teams`, `manager_memberships`, unique index of one manager | ask to join, decide, add, bulk add, update | check then write without a lock | one manager per person |
| Records (`member_portal.py`, `manager_attendance.py`) | `attendance_events`, `attendance_correction_requests` | correct, withdraw, review, adjust, delete a day | calendar date against working date, a review that writes before its verdict | a withdrawn request changed nothing |
| Locations (`locations.py`) | `locations`, assignments | create, edit, switch off, assign | switched off while sessions are open | an open session stays closable |
| The frame and the pages of an account (`Shell.tsx`, `screens.ts`, `login`, `corrections`, `history`, `profile`, `password`, `notifications`) | the address, the screens permitted, the page, requests under way | sign in, register, ask, withdraw, look at a day, save, join, mark, change the password, sign out | a session that ends under a page, redirects to where one is, forms whose answer is lost | nobody waits for ever, every form comes back, a success is true |
| Administration (`admin.py`, `admin_data.py`, `permissions.py`, `admin/users`, `admin/roles`) | accounts, `role_permissions`, `session_policies` | erase, demote, suspend, a new password, tick a permission, reset | ticks behind a filter, erasing one by one, a grid drawn before it is saved | only what was ticked on screen is erased; the grid is the server's |
| Rate limiter, storage, geocoding, observability, face-ai, migrations, scripts | as named in `PROJECT.json` | | | not modelled, reasons in section 8 |

How they interact: the handlers call each other only through the database.
Check-in reads locations, memberships (through the places they grant) and faces;
it locks the member's row of `users`, the same row that login and the
administration lock.  Corrections and manual edits rewrite the rows check-in
wrote; the working day rules read them all.  The browser keeps the session's
secret and presents it to refresh; several tabs share it.  A page is a React
component: a handler runs to its next `await`, goes on with what its closure saw,
and outlives the page it belongs to; an effect may cancel itself (a `live` flag)
or not, and the pages differ in that.  Every call goes through `request` in
`api.ts`, which gives up after `REQUEST_TIMEOUT_MS` without knowing what the
server did.  `PROJECT.json` ("hazards") lists, line by line, what is hard to
test.

## 2. How the project is built

Five compositions, each from the modules below it; no module knows of one above.

| composition | made of | checked by | proved in |
|---|---|---|---|
| the service: requests of members at the server | `WorkingDay` (pure), `Attendance`, and `AttendanceBook`, the abstract specification it implements | `MCAttendance` | `AttendanceBookProofs` (with the rules of the day), `AttendanceProofs` |
| sessions: one and its browser, all and their accounts | `Refresh`; `Sessions` | `MCRefresh`, `MCBrowser`; `MCSessions` | `RefreshProofs`; `SessionsProofs` |
| a member's phone | `CameraCapture`, `MemberDesk`, `CheckInPage`, `EnrollPage`, then `Phone` | `MCPhone` | `PhoneProofs` |
| a manager's desk | `Office`, `TeamsPage`, `PersonPanel`, `RecordsPage`, `PlacesPage`, then `Desk` | `MCDesk` | `PagesProofs`, `DeskProofs` |
| a browser of any account | `Refresh`, `Frame`, `AccountPages`, `MemberPages`, `MemberService`, `AdminPages`, `AdminService`, then `Browser` | `MCBrowser` | `BrowserProofs`, over `RefreshProofs` |

The three of the front end have one shape.  A module of a page holds functions of
its state, one to a handler or to what a handler leaves of the page at an await;
a module of the server holds the rows and one action to a request; the
composition has the handlers and requests under way, in any order, with answers
that are lost or late, and the properties that relate a page to the server.

`Phone` meets a server, `MemberDesk`, where a request that is admitted is one
step: `Attendance` implements `AttendanceBook`, whose steps those are, so nothing
is lost by it.  `Refresh` and `Sessions` look at one table from two sides, one
row and its browser, or all rows and who may have one.

## 3. Modules and code

**`WorkingDay`** - time and the rules of the day, with no state.  Time is a
natural number; a day has `DayLength` instants (minutes, in the code).  `Hours`
gives each place its shift as `_hour_rule` reads it.

| definition | code |
|---|---|
| `ShiftOffset`, `WorkDate` | `shift_offset`, `WORK_DATE_SQL`: the day is cut at midnight for a day shift and halfway through the off-duty hours for a night shift |
| `SessionIsOpen` | `session_is_open`: the arrival's working date is still running |
| `UnclosedCheckIn`, `OpenState` | `_unclosed_check_in` (latest valid arrival with no later departure), `_open_state` |
| `CheckedInToday` | `_checked_in_today`, which compares with SQL `now()`, the start of the transaction |
| `MinutesLate`, `BeyondGrace` | the lateness that refuses an arrival at a place that enforces it |
| `OnDate`, `DayStatus` | `days`, `day_status`: what a working date reads as |

**`AttendanceBook`** - what the service promises, with no requests, locks or
refusals: a set of entries, `Arrive` when no session is open, `Depart` against
an arrival of one's own, and time.

**`Attendance`** - the two handlers, statement by statement, for several workers.

| variable | code |
|---|---|
| `events` | the committed rows of `attendance_events` |
| `work[w]` | the request a worker serves: its stage in the handler, its member, key and the start of its transaction |
| `active` | `locations.is_active` |
| `now` | the server's clock; `Record` lets it move so that two rows never share an instant |

| action | code |
|---|---|
| `Receive`, `CheckKey` | the two key lookups of `check_in` and `check_out` |
| `LockMember` | `SELECT ... FOR UPDATE` on the member |
| `DecideCheckIn` | open session, second session, assigned place, photograph |
| `NothingToClose`, `CloseWhereOpened`, `CloseElsewhere` | the alternatives of `check_out` |
| `JudgeRejected`, `JudgeCheckIn`, `JudgeCheckOut` | the geofence, the reason, the hour; a refused attempt is itself recorded |
| `FaceUnavailable`, `FaceRefused`, `FaceVerified` | the answers of `face-ai`, then the insert and the commit; the unique key decides at the insert |
| `Abort` | the process dies, the storage fails, PostgreSQL ends the transaction |
| `SwitchPlace` | `remove_location`, and switching a place on again |

What is abstracted: positions are distances, photographs and scores are left
out, the answer a client gets is not kept.

**`Refresh`** - one session and the browser that holds it.  Secrets are numbered
in the order they are issued.  A caller is whatever refreshes on its own: a tab,
which has one refresh in flight (`refreshTokens` shares its promise), or a
refresh a page gave up on while the server was still at work.

| variable | code |
|---|---|
| `session` | the row of `refresh_sessions`: `token_hash`, `previous_token_hash`, whether `rotated_at` is within the grace window, whether the row is open |
| `shared` | Redis: from a retired secret to the one issued for it |
| `store` | the secret in `localStorage`, shared by all tabs |
| `call[c]` | the refresh a caller has in flight: asking, rotated but not yet remembered, answered, refused |
| `leaving[c]` | how far a caller is in `logout` |

| action | code |
|---|---|
| `Ask` | `doRefresh` reads the store and sends |
| `Reject`, `Rotate`, `GraceAnswer` | `refresh` under the row's lock: 401, a new secret, or the one Redis holds |
| `Remember` | `remember_briefly`, after the commit |
| `Receive`, `ReceiveRejected`, `Lose` | what the browser makes of the answer, or of none |
| `SignOut`, `Close`, `CloseFails`, `ClearStore` | `logout` in the browser and on the server |
| `Revoke`, `EndRevokedSession`, `GraceEnds`, `RedisForgets` | other devices, other requests, and time |

`Faults` names what may go wrong: an answer lost, Redis forgetting an entry,
Redis away while it keeps what it has.  Signing in again starts another session
and is not in this module, so a browser that has signed out and has nothing in
flight may stop: its configurations do not check deadlock.

**`Sessions`** - all sessions of one role, signing in, and the one-device policy.

| variable | code |
|---|---|
| `sessions` | the rows of `refresh_sessions` that are not revoked: no code reads another |
| `single`, `updatedBy` | the committed row of `session_policies` for the role |
| `login[l]` | a sign-in: password verified, account locked, policy read, rows chosen and written one by one; or a request that closes all sessions of an account, with the rows it has written |
| `change` | `set_policy` in progress: its actor, the rows selected to be closed, those chosen to be marked, those written |

| action | code |
|---|---|
| `Verify`, `LockUser`, `HoldsOneDevice` | `login` up to `SELECT ... FOR UPDATE` of the account, and the read of the policy |
| `ChooseClosing`, `CloseOther` | the `UPDATE` of `revoke_user_sessions` or `_retire_beyond_device_limit`: its snapshot, then each row once its lock is free |
| `StartSession` | the `INSERT`, judged by the partial unique index, and the commit |
| `AllowMany`, `SelectExtra` | `set_policy` by an account of the role or somebody else: the upsert, whose foreign key `updated_by` shares the actor's row when it changes, and the `SELECT` |
| `CloseExtra`, `ChooseMarking`, `MarkEnforced` | its two `UPDATE`s, row by row |
| `CommitPolicy` | the audit entry, which names the actor and waits for a sign-in of theirs, and the commit |
| `RevokeUserSessions`, `CommitRevoked` | a new or reset password, a suspension, a change of role: the account's row written and the rows found, then the audit entry and the commit |
| `Logout` | one row in one short transaction |
| `AbortLogin`, `AbortChange` | a crash, or PostgreSQL breaking a deadlock |

`Elsewhere` stands for every user of another role, whose sign-ins are not in the
module.  Which of an account's sessions is newest or stalest is left open, and so
is the order in which a statement takes its rows.  A row's name may be used again
once nothing refers to it, as a uuid never is: only its freshness matters.

**`Phone`** - one member's phone.  `MemberDesk` is the server as it meets it.

| module, variable | code |
|---|---|
| `CameraCapture`: `cam`, `tab` | the component's state and refs, `document.visibilityState` |
| `MemberDesk`: `desk` | the working date, the places that are on, the member's valid rows, the faces in force, the pending change, the challenge, and which photographs were ever kept or filed as a face |
| `CheckInPage`, `EnrollPage` | the state of `attendance/page.tsx`, `enroll/page.tsx`, and what each handler leaves of it |
| `Phone`: `page`, `calls`, `shots`, `left` | the page on screen, the handlers at work, how many photographs were taken, what is left of the bounds |

| action | code |
|---|---|
| `Opens`, `OpensCamera`, `Hides`, `Show` | `getUserMedia` asked for, given or refused; the visibility handler |
| `Guides` | the guide's tick, its answer and its failure, and the clean-up that cancels it |
| `PressShutter`, `Encoded`, `NotEncoded`, `Retake` | the shutter, the frame encoded, a new attempt |
| `Located`, `NotLocated`, `Confirm`, `Resend`, `Submit` | the position, and the three ways a request is sent |
| `Served`, `ChallengeIssued`, `ChallengeChecked`, `FaceEncoded`, `Vanishes` | what the server does with it, if it gets there |
| `Heard`, `Unheard`, `Refreshed`, `NotRefreshed` | the answer, none in time, and the state read after it |
| `Open`, `Leave`, `Load`, `LoadFace`, `Types`, `Others` | moving about; a reviewer, a manager who switches a place off, the end of the day |

Both the page and the server are as the code has them where it is odd: each send has
a key of its own, so a resend after a lost answer is refused (or, after the cut,
recorded again); a double tap on the shutter sends twice, and the answer about the
first photograph may be shown over the second; a stream that arrives while the tab
is hidden keeps the camera on; the card of a check-out is replaced by the gate; the
enrolment page has no field for a reason after the answer of a first enrolment was
lost.  A stream that arrives after the component is gone is not modelled.

**`Desk`** - one manager's desk.  `Office` is the server as it meets it: units,
memberships, places, queues, records, and what the audit log says was done.

| module | code |
|---|---|
| `TeamsPage` | `manager/teams/page.tsx`: `toggleTeam`, `refreshTeam`, `run`, `invite`, `decide`, the dialog of a person |
| `RecordsPage` | `manager/attendance/page.tsx`: the month, the day (`loadDay`), the drawer, `refresh` |
| `PersonPanel` | `PersonPanel.tsx`: the effect with its `live` flag, `switchHalf`, `submitAdjust`, `removeDay` |
| `PlacesPage` | `manager/locations/page.tsx`: the form, `openAssign`, `saveAssignments`, the buttons of a place |
| `Office` | `teams.py`, `membership.py`, `locations.py`, `manager_attendance.py`, `face_requests.py`; `Served` takes a request in one transaction, `LookedUp` and `Added` are the two halves of `bulk_add_members` |
| `Desk` | the handlers: `Send`, `Toggle`, `Switch`, `OpenAssign`, `SaveTicks`; `Served`, `Heard`, `Refused`, `Unheard`; what is read arrives or not (`UnitCame`, `LoadCame`, `MembersCame`, `PairsCame`, `DetailCame`, `CalendarCame`, `DayCame`, `FetchCame`) |

The manager has every permission.  What is read is the server's at the moment it
arrives, and two loads of one day count as one; so do the reads that `TeamsPage`
awaits one after the other for a unit and its people.  Another manager (`TheyLookUp`,
`TheyAdd`, `TheyRelease`) and members who ask to join act in between.  Left out:
search, roll call, export, map, the panel of a refused attempt, the photographs of
the queue of faces, names, defaults (`is_default`: two attaches at once may leave
two), deletion of a unit.  What the page does and no property says otherwise:
`toggleTeam`, `loadDay` and `switchHalf` take a late answer for whatever is shown
by then; the notice of an adjustment goes with the panel that `refresh` unmounts;
the end of a save closes the dialog of another place; `saveAssignments` that fails
half way cannot be saved again (404); switching a place on (`toggleDeactivate`)
writes back every field of a row that may be old; a suspended person vanishes
from the list that alone leads to the button that lifts the suspension.

**`Browser`** - one browser of a member, a manager or an administrator, over
`Refresh`, whose `store` it shares: a session that is revoked, signed out of or
refreshed is so under the pages.

| module | code |
|---|---|
| `Frame` | `Shell.tsx` and `screens.ts`: what a frame waits for, shows, links to, and where it sends the browser |
| `AccountPages` | `login/page.tsx`, `profile/password/page.tsx` |
| `MemberPages` | `corrections`, `history`, `profile`, `notifications`; `PairSessions` is `pairSessions` of `lib/member.ts`, a recursive function of a day's attempts |
| `MemberService` | `attendance_correction_requests`, the profile, notifications: a review is in three steps (`ReviewReads`, `ReviewWrites`, `ReviewCommits`), because rows it wrote hold a withdrawal up by their foreign key |
| `AdminPages` | `admin/users/page.tsx` with `SelectableTable.tsx`, `admin/roles/page.tsx` |
| `AdminService` | `admin.py`, `admin_data.py`, `session_policy.py`, each request one step, and another administrator |
| `Browser` | a request under way (`Asked`); `HearOk`, `HearFailed`, `HearUnauthorized`, `HearRevoked` are the ways `request` of `api.ts` ends; `Serve`, `Refuse`, `Drop` the server's; `GoTo`, `GiveUp` and the `...Acts` what a person does on each page; `SessionMoves` the steps of `Refresh` |

`HearRevoked` is `endRevokedSession`: a full load of the sign-in page with a
notice, unless one is there.  There is one sign-in; what a second would do
(a login whose answer was lost leaves a session; a late refresh writes its tokens
under another account) is not modelled.  The secrets of a session move only where
the scenario has them.  Left out: the avatar, `api.me`, the home page, overviews,
audit, the records and the table browser of the administrator.  What the pages do
and no property says otherwise: late days and a late `openDetail` of the history,
late notifications and a late lookup of a unit's code are taken as they come;
marking all marks notifications that are not shown; a registration stores its
tokens before the profile that may fail; saving a profile sends back the
department a manager may have changed; a withdrawal can be pressed twice; a loop
that erases accounts goes on when its dialog is closed, and one that failed half
way meets a 404 when it is tried again; saving a role sends back a status another
administrator may have changed.

## 4. Runs

| run | question | instance |
|---|---|---|
| `attendance_safety` | can any interleaving of one member's requests open two sessions, close one twice, open a second on one date, or use a key twice? | two workers, three keys, an office cut at midnight and a plant cut half way through its off-duty hours, the plant switched off and on, three geofence rings, good and bad GPS, clock ticks up to the end of the first day and further with every commit: 1.8 million states |
| `attendance_book` | does the service implement the book, and does every request end? | two members, two workers, two keys: 309 thousand states |
| `attendance_orphan` | violation: a departure with no arrival | one worker, one member, two keys |
| `attendance_twodates` | violation: a session on a date that already has an arrival and its departure | one worker, one member, three keys |
| `refresh_tab` | does a browser with one tab keep a secret the server takes; do its pages tell the truth, come back and land somewhere, whatever becomes of session and answers? | one caller, five secrets, lost answers, Redis forgetting; the scenarios of `MCBrowser`: 177 thousand states |
| `refresh_tabs` | violation: two tabs end up with a dead secret | two callers, five secrets, no fault |
| `refresh_logout` | violation: a sign-out that leaves the session open | one caller, five secrets, no fault |
| `sessions_devices` | can sign-ins, a change of policy, sign-outs and new passwords exceed the limit, collide on the unique index, or wait for one another in a circle without the change? | two accounts, two requests, three sessions, a limit of two: 2.6 million states |
| `sessions_policy` | violation: two sessions under the one-device rule | one account, two sign-ins, a limit of two |
| `phone_pages` | does a page say only what was recorded, does every photograph get a verdict, does the shutter open on this view and open at last, is there one session of many sends? | the scenarios of `MCPhone`: two photographs, two handlers, three failures of the guide: 394 thousand states |
| `phone_closable` | violation: an open session that no choice on the page closes | two places, one of which is switched off |
| `desk_pages` | does the desk announce only what was done, about what was on screen, and does every button come back? | the scenarios of `MCDesk`: two people, units, places, months, days, handlers: 388 thousand states |

Why the bounds are enough: a conflict over one member's row takes two requests, and
a third finds the same lock; members share nothing but the keys, for which two
members suffice; three keys give an arrival, a departure and a third row; a day of
three or four instants has a cut that is not midnight, an instant before it and one
after it, and `Horizon` plus one instant per committed row takes the clock into the
next day.  Five secrets are four rotations: one more than it takes for a secret to be
newest, retired, and retired again by a second rotation inside one window.  Two
requests contend for an account, or meet a change of policy on two accounts, or one
suspends the other's; a limit of two is the least that leaves something open, and
three names are an account at its limit that signs in again, or beside another with
a session: a new session takes the name of one that was closed.  The theorems of
section 6 hold for every value of all of these.

The three compositions of pages start in any of a set of scenarios (`Bounds`),
each a record of what may happen in it and how often, because everything at once
is out of reach and what goes wrong takes few steps of few actors.

- `MCPhone`: the shutter pressed twice, or a request sent again while the first
  is under way; two places, one switched off; two visits as the day ends; a first
  face sent twice; another face; a tab hidden and shown with a camera and a guide
  that fail.
- `MCDesk`: a batch overtaken by another manager; two units, one unfolded while
  the other is answered; the first unit; two decisions at once or one twice; a
  person suspended whom another manager takes on; two days looked at; an edit and
  a deletion at once; an edit as the month is turned; the ticks of two people, and
  of one as the place is changed; the forms of two places over two visits.
- `MCBrowser`: a session of three secrets, or of two whose pages are left; a
  sign-in or a registration of an account without the home page; a page that is
  not permitted, and none that is; two requests for a correction, or one that is
  withdrawn, under review; two months of history, and from a day to a correction;
  a profile saved and a unit asked for; notifications marked one by one or all at
  once; a new password; three accounts filtered, erased one by one and changed
  beside another administrator; two boxes of the permissions, the switch and the
  reset; and every day of at most four attempts.

Two of each thing are what a confusion between them takes; two handlers are one
that is late and one that overtakes it.

Deadlock is not checked where the system may stop: a browser that has signed out
and has nothing in flight, a person who does nothing more on a page, and the end of
a scenario's bounds.  Symmetry is used in safety runs only (`attendance_safety`,
`refresh_tabs`, `sessions_devices`): workers, keys, callers, sign-ins, accounts and
names of rows differ in nothing but their names.

## 5. Fairness

`FairSpec` of `Attendance` assumes `WF(Serve(w))` - every statement, upload and
call to face-ai returns or times out, so a handler that has what it needs goes on -
and `SF(LockMember(w))` - PostgreSQL queues the waiters of a row, so a request
cannot be overtaken for ever.  Nothing is assumed of requests arriving, of the
clock, of `Abort`, or of places being switched on.

`Phone` and `Desk` assume `WF(Awaited(c))` of each handler, `Phone` `WF(Guides)`
too, and `Browser` `WF` of the requests as one: finitely many are ever under way,
so none is left out.  What a handler awaits ends, by an answer or by
`REQUEST_TIMEOUT_MS`; frames are encoded, `getCurrentPosition` has a timeout, and
the guide's timer runs while the tab shows.  Of the person, the server and the
session nothing is assumed.  One caveat: `request` clears its timer once the
headers are there, and `doRefresh` and `requestBlob` have none, so a connection
that stalls in the middle of a body is outside this.

`Refresh` and `Sessions` state no fairness: what they promise is safety, and that
no waits close into a circle without the change of the policy is stated as the
invariant `OnlyTheChangeClosesACircle`.

## 6. Proofs

`AttendanceBookProofs` and `AttendanceProofs` prove, for any members, workers, keys,
places and hours:

- `WorkDateMonotone`: dates never run backwards at one place.
- `TypeCorrect`, `KeysAreUnique`, `OneSessionADay`: `TypeOK`, `OneEventPerKey`
  and `OneSessionPerDay` of the service.
- `ImplementsBook`: the service implements the book; `OneOpenSession` and
  `DeparturesClose` carry the book's invariants over.
- `BookAtMostOneOpen`, `BookDeparturesFollowArrivals`: of the book alone.

`RefreshProofs` and `SessionsProofs` prove, for any number of secrets, accounts,
sign-ins and devices:

- `RefreshTyped`; `OneTabLive` and `OneTabSignedOutForCause`: `StoreLive` and
  `SignedOutForCause` of a browser with one caller, unless Redis may be away
  while it keeps an entry (then two lost answers can bring back a secret that is
  no longer taken).  With two callers `StoreLive` is false, see section 7.
- `SessionsTyped`, `DevicesBounded`, `SignInsNeverCollide` and
  `SignInsGoOn`: `TypeOK`, `WithinDeviceLimit`, `LoginsNeverCollide` and
  `OnlyTheChangeClosesACircle`.

`PhoneProofs`, and `PagesProofs` with `DeskProofs`, prove for any places,
photographs, people, units, records, months, and any number of handlers at work:

- `PhoneTyped`, `SaysRecorded`, `OneSession`, `GuideRight`: `TypeOK`,
  `SaysWhatWasRecorded`, `OneSessionOfManySends`, `GuideIsOfThisView`;
- `DeskTyped`, `OneManager`, `SaysDone`, `CalendarRight`, `PhotosRight`,
  `RightlyAttributed`, `TicksRight`: `TypeOK`, `OneManagerEach`, `SaysWhatWasDone`,
  `CalendarIsOfMonth`, `PhotosAreOfPanel`, `NeverMisattributed`,
  `OnlyWhatWasTicked`.

`BrowserProofs` proves, for any scenario, callers, faults and secrets, any number of
sends, dates, ranges, accounts, unit codes and reviewers, and any number of requests
under way:

- `BrowserTypesHold`: `TypeOK` of the session and `BrowserTypeOK`;
- `SaysTaken`, `WithdrawnStays`, `DayRight`, `ErasesShown`, `GridRight`:
  `SaysWhatWasTaken`, `WithdrawnIsNotApplied`, `DayReadsAsItWas` (for a day of any
  number of attempts), `ErasesWhatWasShown`, `GridIsHeld`;
- `BrowserStoreLive`, `BrowserSignedOutForCause`: `StoreLive` and
  `SignedOutForCause` under the pages, for one caller and under the assumption of
  `OneTabLive`.

So every invariant and every action property that a passing run checks is a
theorem, of the specification that run checks.

The assumptions are the named ones of the modules: a day has at least one instant,
the hours of a place match its kind (`_validate_hours` refuses others), grants name
existing places, the rings of the geofence are ordered, at least one device is
allowed, the name that stands for users of other roles is no account's; photographs,
dates, handlers and the guide's patience are counted by natural numbers, a record is
of one person and one half of a day, and a scenario is of the type of the bounds;
dates, ranges, unit codes and accounts are numbers other than the one that stands
for none, of dates and ranges there is one, of accounts there are finitely many, the
administrator's own among them, and something may be sent.

The argument.  None of the invariants is inductive alone.  On the side of the
service the strengthening says that (a) no two workers hold one member's row;
(b) no row is stamped later than the clock, so a new one is later than all;
(c) a request that was admitted still has what it was admitted for - an arrival
no open session and no earlier session of the day its transaction began, a
departure an unclosed arrival - because only the holder of the row writes the
member's valid rows, and because a session that is not open never becomes open
as time passes (`WorkDateMonotone`).  (c) is what makes a commit thirty seconds
after the check harmless.  On the side of the book the strengthening says that
arrivals and departures of a member alternate in time.

For the session of a browser, `TabInv` says what each stage of a refresh knows: a secret
asked with is one the row still holds; between the commit and `Remember`, Redis
has nothing for the secret that was retired, so nobody can be handed an older
one; whatever Redis has for the retired secret is the newest; and a refusal of
an open session means its grace window is over.

For sign-ins, `DevicesInv` adds to the types that one sign-in at a time holds an
account (`OneHolder`), and that from the moment it has chosen what to close until
it commits, what it will leave open has room for one more, and is nothing under
the one-device rule (`RoomForOne`).  That needs the lock: every other step only
takes sessions away from that account (`OnlyStartsOpen`, `StartOpensOne`).
For `OnlyTheChangeClosesACircle` it says that a request closes only sessions of the
account it holds (`OwnRows`), so no two close a common one (`ClosingApart`): what a
request waits for among the others is an account, and whoever holds an account for
a sign-in waits, if at all, for the change.

For a phone, `PhoneInv` says of every handler what its answer stands for
(`GoodCall`: a yes on its way back is a row that exists, of the photograph it
carries, an attendance or a face), that one which still works for the page works for
the page on screen (`OnScreen`: leaving marks all others), and of the page that what
it says is on record (`GoodCheckIn`, `GoodEnroll`).  Rows are never taken away
(`Grows`), so what was said stays true.  A photograph taken and one that may yet be
taken are at most `MaxPhotos`.  The camera's part (`GoodCam`) is that without a live
view nothing the guide said is kept, and that a call of this view exists only in
one.

For a desk, `DeskInv` has one conjunct to a page.  `GoodTeams`: the notice is on
record, and what is typed is about the unit or request it is typed under.
`GoodPanel`, `GoodRecords`: a run of an effect that is still live asked for the
line, or the month, on screen - the clean-up is what makes it so.  `GoodPlaces`:
whoever differs between ticks and list was touched.  Of a handler, `Owed` says that
while it is yet to announce its act, the act is done.  `PanelsHeld` says a
handler of the panel has one, so that its answer is taken to the panel it left.
`NeverBoth` is the unique index: nobody is active here and elsewhere.

For the pages of a browser the types come first, and they are not a formality:
`BrowserTyped` adds that whatever the page on screen waits for is a request of that
page (`OfThisPage`: leaving marks what is left behind as `past`), that what it is
about exists (`Meant`), and that the sign-in page is the one at `/login`.  Then a
step is of one of three kinds (`StepKinds`): an answer is heard, or the browser moves,
and of the requests under way each was there before, reads, or follows from the one
answered (`Carried`, `PageGoesOn`); the server serves, refuses or drops one; or the
person does something, which changes the page by one handler and sends at most one
request (`Did`).  Every invariant takes a lemma for each kind:

- `YesIsTaken`: an answer that says yes stands for a request the server took;
- `NumbersAreFresh`, `ReviewsSound`: no two requests for a correction carry one
  number, and none yet to be served carries one that was filed, so no late request
  files again what was withdrawn; what a review has written rows for is not
  withdrawn, and what was applied is decided;
- `ErasuresConfirmed`: what is erased, and what is still to come in a loop of
  erasures, was confirmed, and the dialog names what was ticked;
- `OneByOne`: until requests overlap, the page of the permissions waits for at most
  one; with none, or a reset that is not done yet, the grid is the server's, and
  with a box on its way it is what the server's will be, because `Mirrored` of the
  page and of the server are one;
- `SignsInOnce`: whoever is yet to sign in has no secret and no refresh in flight, so
  the tokens of the sign-in replace nothing, and `TabInv` holds of the new session;
  what else sets the store is a session that the server has closed (`SessionOf`).

`DayRight` is a claim about a function and needs no invariant, but an induction
along the attempts.  `ReadRight` says what the pairs after `n` attempts are; one more
attempt keeps it (`ReadStep`), by the cases of `Paired`; the function exists
(`ReadExists`) and is what its equation says.  The lemma `Induction`, with a set for
what is claimed, is `WFMin` of the natural numbers: the theorems of the library that
take an operator cannot be instantiated by the provers at hand.  That a finite set
of numbers has a last one, of which the loop of erasures takes the next account,
comes from it too.

Only model-checked, by the limits of the prover: everything under fairness
(`RequestsEnd`, `EveryPhotoIsJudged`, `NotLockedOut`, `EveryActionEnds`,
`LandsSomewhere`, `FormsComeBack`), and the violations.  What is proved of
`Refresh` alone (`OneTabLive`, `OneTabSignedOutForCause`) is proved again of
`Browser`, whose sign-in and full loads set the store as well.

## 7. Findings

Each is a run that TLC finds violated: the code does otherwise than a comment or a
document of the repository says.  The first two concern a member assigned to two
places cut at different hours.

- `NoOrphanDeparture`: `attendance_days.py` and `docs/ARCHITECTURE.md` say that a
  departure with no arrival on its day can only come from a correction or a
  manual edit.  Leaving, with a reason, from another place than the session was
  opened at makes one, either way round: an arrival at the place that is cut later
  belongs to yesterday and the departure from the other to today, or the arrival to
  today and the departure to yesterday.
- `OneSessionPerDate`: a second session the same day is said to be refused.
  `_checked_in_today` compares the date of each earlier arrival at its own place
  with now and never asks on which date the new arrival will fall at its own
  place: a date that has an arrival and its departure gets a second arrival.
- `TabsEndUpLive`: the grace path of `refresh` says every tab ends up holding the
  same current secret.  Between the commit of a rotation and its note in Redis,
  another tab's refresh finds nothing, rotates again, and its answer can arrive
  first: the older answer then overwrites the newer in `localStorage`.
- `LogoutClosesSession`: `auth.py` says logout closes exactly the caller's own
  session.  The browser reads the secret before the request, and a refresh that
  happens on the way, or in another tab, retires it; logout looks only for the
  newest, so the session stays open.
- `PolicyHoldsToday`: `set_policy` says turning the rule on means something
  today.  A sign-in that read the old policy and commits after the sessions to
  close were selected leaves an account with two.
- `AlwaysClosable`: `attendance/page.tsx` says an open session is always closable,
  even if the manager removed the place meanwhile, and lets the member through.
  `check_out` refuses every departure from a place that is switched off.  Another
  place would do, with a reason; but the page knows where the session was opened
  only from the list of places that are on, so it shows no field for one and sends
  none, and every other place is refused with `CHECKOUT_LOCATION_REASON_REQUIRED`.

Two properties of the browser name states they except, because the code gets
into them.  `LandsSomewhere` excepts `CaughtAtSignIn`: after a change of password
the page leaves for the sign-in page with its tokens still in the store; the frame
asks for the screens, is told `SESSION_REVOKED`, `endRevokedSession` does nothing
at `/login`, and the redirect of `Shell.tsx:82-86` is to where the browser is, so
the form never comes up (the comment at `Shell.tsx:146-149` says it would).  The
button below "the account cannot be told" leads there too.  It also excepts
`NothingToOpen`, an account that is permitted no visible screen: it is sent to its
profile, and waits there if that is not permitted.

`GridIsHeld` excepts four things, each of which leaves the page with an old grid:

- requests that overlap (`crossed`): boxes, the switch and the reset are offered
  while another is under way, and the reading for one draws the grid without what
  the others have drawn;
- a request that was given up on, or left behind, and served after all (`crossed`):
  the page has read the grid before it;
- a reset that was done and its answer lost (`behind`): the `catch` of
  `restoreDefaults` says that it failed and reads nothing (`roles/page.tsx:99-103`);
- a reading that failed (`behind`), after a reset or after a refused tick; a later
  tick that is saved then removes even the error.

`OnlyTheChangeClosesACircle` excepts waits for `set_policy`, which writes sessions
of every account of a role and locks none of the accounts.  Circles do close.
`set_policy` has written the sessions of an account and waits, for its audit entry,
for the row of the administrator who acts; a sign-in of that administrator holds it
`FOR UPDATE`, and waits for one of those sessions.  And a request that closes all
sessions of an account has written one and waits for the next, which `set_policy`
has written before it came to the first.  PostgreSQL ends one of the two, which is
`AbortLogin` or `AbortChange`: a sign-in or the change fails with an error, and
nothing is half done.

`SaysWhatWasRecorded` speaks of the photograph an answer is about, and promises
nothing of the one on screen.  A shutter pressed twice takes two, and the answer
about the first may be shown over the second: on the check-in page each is sent as it
is encoded, and on the enrolment page the second sets the page back to idle
(`onCaptured`) while the first is being judged (`enroll/page.tsx:103`).

## 8. Not modelled

Of what is modelled in part: request_join and decisions on faces, corrections and
permissions by two people in their transactions at once, which the code does not
guard and promises nothing of; registration's first session, and which password a
session was issued for; two resets of a password with one token; the effect of a
correction or a manual edit on sessions, and night shifts in the records, where
calendar and working date part; the hours of a place edited under its rows; the
rounding of a day's minutes, which is only shown.  The models of pages take
`calls` of `api.ts` to fail as a whole: its comment (`api.ts:88`) that status 0 means the
request never reached the server is not relied on, for a lost answer gives the
same.

Not modelled at all: the rate limiter, a counter with an expiry whose refusals
change nothing; what an event writes into the notifications, which decide nothing;
storage, geocoding and map code wrap other services; observability and error codes
have no state that is read; face-ai is numerical and stateless, any answer of it is
taken; the home page, the overviews, the audit log, the administrator's records,
errors and table browser load and show, or change one row by a generic form; other
components render what they are given; migrations run once (their constraints are
in the models); backup and restore scripts run outside the program.
`PROJECT.json` lists each with its files.
