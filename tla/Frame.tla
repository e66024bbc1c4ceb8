-------------------------------- MODULE Frame --------------------------------
(***************************************************************************)
(* The frame around every page (components/Shell.tsx) and the list of      *)
(* screens it is drawn from (lib/screens.ts): who is let in, what is shown *)
(* to whom, and where somebody is sent who may not be here.                *)
(*                                                                         *)
(* Every page brings a frame of its own, so a change of path is a new      *)
(* frame; a path is the sequence of its parts.  Functions of the frame.    *)
(***************************************************************************)
EXTENDS Naturals, Sequences, SequencesExt

SignInPath  == <<"login">>
ProfilePath == <<"profile">>

GroupOrder ==
    [MEMBER      |-> <<"attendance", "managing", "system">>,
     MANAGER     |-> <<"managing", "attendance", "system">>,
     SUPER_ADMIN |-> <<"system", "managing", "attendance">>]

Roles == DOMAIN GroupOrder

Entry(key, href, group, match, hidden) ==
    [key |-> key, href |-> href, group |-> group, match |-> match, hidden |-> hidden]

Screen(key, href, group) == Entry(key, href, group, {href}, FALSE)

\* A permission whose work is done on the page of another.
Hidden(key, href, group) == Entry(key, href, group, {href}, TRUE)

Screens ==
    <<Screen("home", <<>>, "attendance"),
      Entry("attendance", <<"attendance">>, "attendance",
            {<<"attendance">>, <<"enroll">>}, FALSE),
      Screen("history", <<"history">>, "attendance"),
      Screen("my-corrections", <<"corrections">>, "attendance"),
      Screen("notifications", <<"notifications">>, "attendance"),
      Screen("profile", ProfilePath, "attendance"),
      Screen("team-overview", <<"manager">>, "managing"),
      Screen("records", <<"manager", "attendance">>, "managing"),
      Screen("members", <<"manager", "teams">>, "managing"),
      Hidden("join-requests", <<"manager", "teams">>, "managing"),
      Hidden("face-requests", <<"manager", "teams">>, "managing"),
      Hidden("corrections", <<"manager", "teams">>, "managing"),
      Hidden("locations", <<"manager", "locations">>, "managing"),
      Screen("audit", <<"manager", "audit-logs">>, "managing"),
      Screen("admin-overview", <<"admin">>, "system"),
      Screen("admin-users", <<"admin", "users">>, "system"),
      Screen("admin-records", <<"admin", "attendance">>, "system"),
      Screen("admin-roles", <<"admin", "roles">>, "system"),
      Screen("admin-data", <<"admin", "data">>, "system"),
      Screen("admin-errors", <<"admin", "errors">>, "system")>>

Keys == {s.key : s \in ToSet(Screens)}

\* Where a browser may be: at a screen, or a page that is none.
Addresses ==
    {s.href : s \in ToSet(Screens)}
      \cup {SignInPath, <<"enroll">>, <<"profile", "password">>}

-----------------------------------------------------------------------------
(* The list of screens.                                                    *)

\* Hidden screens share the address of a visible one and may not claim it.
At(path) == {s \in ToSet(Screens) : ~s.hidden /\ s.href = path}

\* Longest prefix wins.
Claims(path) ==
    {c \in [screen : ToSet(Screens), prefix : UNION {s.match : s \in ToSet(Screens)}] :
        c.prefix \in c.screen.match /\ c.prefix # <<>> /\ IsPrefix(c.prefix, path)}

\* The keys of the screen a path belongs to: one, or none.
ScreenForPath(path) ==
    IF At(path) # {} THEN {s.key : s \in At(path)}
    ELSE {c.screen.key : c \in {d \in Claims(path) :
             \A e \in Claims(path) : Len(e.prefix) <= Len(d.prefix)}}

\* The places in the list of those that are shown of a group.
ScreensOfGroup(group, allowed) ==
    {n \in DOMAIN Screens : /\ Screens[n].group = group /\ ~Screens[n].hidden
                            /\ Screens[n].key \in allowed}

\* Mutated form: the page everybody used to land on.
LandingHome(allowed, role) == <<>>

LandingScreen(allowed, role) ==
    LET order    == GroupOrder[role]
        sections == {i \in DOMAIN order : ScreensOfGroup(order[i], allowed) # {}}
    IN  IF sections = {} THEN ProfilePath
        ELSE Screens[Min(ScreensOfGroup(order[Min(sections)], allowed))].href

-----------------------------------------------------------------------------
(***************************************************************************)
(*  path      where the browser is                                         *)
(*  signedIn  whether there were tokens when the frame came up             *)
(*  known     whether the account's screens have been told (access)        *)
(*  screens   which they are                                               *)
(*  denied    they could not be told                                       *)
(***************************************************************************)
Frames ==
    [path : Addresses, signedIn : BOOLEAN, known : BOOLEAN, screens : SUBSET Keys,
     denied : BOOLEAN]

\* The frame comes up, and leaves for the sign-in page if nobody is signed in.
Raised(path, holds) ==
    [path |-> IF holds THEN path ELSE SignInPath, signedIn |-> holds,
     known |-> FALSE, screens |-> {}, denied |-> FALSE]

\* router.replace, which does nothing when one is there already.
Replaced(f, path, holds) == IF f.path = path THEN f ELSE Raised(path, holds)

Allows(f, path) == ScreenForPath(path) \subseteq f.screens

\* myScreens is answered: what the account may not open is left.
AfterScreens(f, allowed, role, holds) ==
    LET g == [f EXCEPT !.known = TRUE, !.screens = allowed]
    IN  IF Allows(g, g.path) THEN g
        ELSE Replaced(g, LandingScreen(allowed, role), holds)

AfterNoScreens(f, answer, holds) ==
    IF answer = "failed" THEN [f EXCEPT !.denied = TRUE]
    ELSE Replaced(f, SignInPath, holds)

-----------------------------------------------------------------------------
(* What is on screen.                                                      *)

Shows(f) ==
    \/ f.path = SignInPath /\ ~f.signedIn
    \/ f.signedIn /\ ~f.denied /\ f.known /\ Allows(f, f.path)

\* The links of the sidebar and of the badge.
Links(f) ==
    IF f.signedIn /\ ~f.denied /\ f.known
    THEN {s.href : s \in {t \in ToSet(Screens) : ~t.hidden /\ t.key \in f.screens}}
           \cup {ProfilePath}
    ELSE {}

SignOutOffered(f) == f.signedIn /\ ~f.denied
=============================================================================
