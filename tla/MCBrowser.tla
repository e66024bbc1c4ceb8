------------------------------ MODULE MCBrowser ------------------------------
(***************************************************************************)
(* A browser for TLC.                                                      *)
(***************************************************************************)
EXTENDS Browser, TLC

Small ==
    [start |-> <<"attendance">>, paths |-> {}, moves |-> 0, fills |-> 0, sends |-> 0, others |-> 0,
     signins |-> 0, secrets |-> 0, role |-> "MEMBER", told |-> {}, attempts |-> <<>>,
     allowed |-> {"home", "attendance", "history", "my-corrections", "notifications",
                  "profile"}]

Admin ==
    [Small EXCEPT !.role = "SUPER_ADMIN",
       !.allowed = {"admin-overview", "admin-users", "admin-roles"}]

\* In this order: a session that refreshes, and one whose pages are left; a
\* sign-in or a registration, without the page everybody used to land on; a
\* page that may not be opened, and none that may; two requests for a
\* correction, or one that is withdrawn, under review; the days of two months;
\* a profile saved and a unit asked for; notifications marked one by one or
\* all at once; a new password; accounts filtered, erased and changed; boxes of
\* the permissions; and every day of at most four attempts.
SmallBounds ==
    {[Small EXCEPT !.secrets = 3],
     [Small EXCEPT !.secrets = 2, !.start = <<"history">>, !.moves = 1,
       !.paths = {<<"notifications">>}],
     [Small EXCEPT !.start = SignInPath, !.signins = 1, !.fills = 3,
       !.allowed = @ \ {"home"}],
     [Small EXCEPT !.start = <<"manager">>, !.role = "MANAGER", !.allowed = {"notifications"}],
     [Small EXCEPT !.start = <<"history">>, !.allowed = {}],
     [Small EXCEPT !.start = <<"corrections">>, !.sends = 2, !.fills = 2],
     [Small EXCEPT !.start = <<"history">>, !.fills = 2, !.moves = 1],
     [Small EXCEPT !.start = ProfilePath, !.sends = 2, !.fills = 2, !.moves = 1,
       !.paths = {<<"profile", "password">>}],
     [Small EXCEPT !.start = <<"notifications">>, !.told = {1, 2}, !.sends = 2, !.fills = 1],
     [Small EXCEPT !.start = <<"profile", "password">>, !.sends = 1, !.fills = 1, !.moves = 1,
       !.paths = {ProfilePath}],
     [Admin EXCEPT !.start = <<"admin", "users">>, !.moves = 1, !.fills = 1,
       !.sends = 1],
     [Admin EXCEPT !.start = <<"admin", "users">>, !.fills = 1, !.sends = 2, !.others = 1],
     [Admin EXCEPT !.start = <<"admin", "roles">>, !.sends = 2]}
    \cup {[Small EXCEPT !.start = <<"history">>, !.fills = 1, !.attempts = day] :
            day \in BoundedSeq(Attempt, 4)}
=============================================================================
