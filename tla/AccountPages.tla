---------------------------- MODULE AccountPages ----------------------------
(***************************************************************************)
(* The page that signs in and registers (app/login/page.tsx) and the one   *)
(* that changes the password (app/profile/password/page.tsx).  Functions   *)
(* of the page: each handler returns the page it leaves.                   *)
(***************************************************************************)
EXTENDS Frame

CONSTANT Codes      \* the codes of units that may be typed, numbers

NoCode == 0

ASSUME CodesAssumption == Codes \subseteq Nat \ {NoCode}

(***************************************************************************)
(*  role, code  what is chosen and typed on the form of a new account      *)
(*  named       the code whose unit is named under the field, unknown that *)
(*              no unit was found                                          *)
(***************************************************************************)
SignInPages ==
    [screen : {"login"}, mode : {"login", "register"}, role : {"MEMBER", "MANAGER"},
     code : Codes \cup {NoCode}, named : Codes \cup {NoCode}, unknown : BOOLEAN,
     error : BOOLEAN, notice : BOOLEAN, submitting : BOOLEAN]

\* notice: the server closed the session, and the reason was kept for here.
OpenedSignIn(ended) ==
    [screen |-> "login", mode |-> "login", role |-> "MEMBER", code |-> NoCode,
     named |-> NoCode, unknown |-> FALSE, error |-> FALSE, notice |-> ended,
     submitting |-> FALSE]

AfterMode(p, mode) == [p EXCEPT !.mode = mode, !.error = FALSE]

\* checkCode.  What it finds is shown whatever has been typed since.
AfterCode(p, code) == [p EXCEPT !.code = code, !.named = NoCode, !.unknown = FALSE]
AfterLookup(p, code) == [p EXCEPT !.named = code]
AfterNoLookup(p) == [p EXCEPT !.unknown = TRUE]

\* submit: until the account's tokens, and then its screens or its profile,
\* have come, or one of them has not.
AfterSubmit(p) == [p EXCEPT !.error = FALSE, !.submitting = TRUE]
AfterSignIn(p) == [p EXCEPT !.submitting = FALSE]
AfterNoSignIn(p) == [p EXCEPT !.error = TRUE, !.submitting = FALSE]

\* Where a new account is sent.
FirstPath(role) == IF role = "MEMBER" THEN <<"enroll">> ELSE <<"manager">>

-----------------------------------------------------------------------------
PasswordPages == [screen : {"password"}, error : BOOLEAN, busy : BOOLEAN]

OpenedPassword == [screen |-> "password", error |-> FALSE, busy |-> FALSE]

\* The two new passwords are not alike.
AfterUnlike(p) == [p EXCEPT !.error = TRUE]

AfterChangeSent(p) == [p EXCEPT !.error = FALSE, !.busy = TRUE]
AfterChange(p) == [p EXCEPT !.busy = FALSE]
AfterNoChange(p) == [p EXCEPT !.error = TRUE, !.busy = FALSE]
=============================================================================
