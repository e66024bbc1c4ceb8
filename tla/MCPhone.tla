------------------------------- MODULE MCPhone -------------------------------
EXTENDS Phone, TLC

CONSTANTS home, site

Small ==
    [screens |-> {"checkin"}, opens |-> 1, hides |-> 0, photos |-> 2,
     offs |-> 0, days |-> 0, slips |-> FALSE, places |-> {home},
     faces |-> {{0}}, calls |-> {1, 2}]

\* In this order: a shutter pressed twice, or a request sent again while the
\* first is under way; two places, one of which is switched off; two visits as
\* the day ends; a first face, sent twice; another face; a tab hidden and shown
\* again with a camera and a guide that fail.
SmallBounds ==
    {Small,
     [Small EXCEPT !.offs = 1, !.places = {home, site}, !.calls = {1}],
     [Small EXCEPT !.offs = 1, !.opens = 2, !.days = 1,
       !.faces = {{}, {0}}, !.calls = {1}],
     [Small EXCEPT !.screens = {"enroll"}, !.faces = {{}}],
     [Small EXCEPT !.screens = {"enroll"}, !.opens = 2, !.calls = {1}],
     [Small EXCEPT !.screens = {"enroll"}, !.hides = 2, !.photos = 1,
       !.slips = TRUE, !.faces = {{}}]}

\* The place of an open session is switched off, and the page opened again.
ClosableBounds ==
    {[Small EXCEPT !.opens = 2, !.photos = 1, !.offs = 1, !.places = {home, site},
       !.calls = {1}]}
=============================================================================
