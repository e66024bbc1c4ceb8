--------------------------- MODULE MemberService ---------------------------
(***************************************************************************)
(* What the server keeps for a member's own pages and does with their      *)
(* requests (services/member_portal.py, membership.py, teams.py), and the  *)
(* managers who review requests for a correction at the same time.         *)
(*                                                                         *)
(* PostgreSQL at READ COMMITTED: a review reads, writes attendance rows    *)
(* that refer to the request, and commits; those rows keep the request     *)
(* from being deleted until then.                                          *)
(***************************************************************************)
EXTENDS MemberPages

CONSTANT Reviewers

VARIABLES
    filed,          \* requests for a correction, by the send that made them
    applied,        \* those that attendance rows were written for
    reviews,        \* the review each manager has open
    holder,         \* the member's profile, and whether a manager has the member
    notes,          \* notifications
    taken           \* history: the sends that were taken

service == <<filed, applied, reviews, holder, notes, taken>>

\* A request that was withdrawn is gone; its number remains.
Request == [date : Dates, times : BOOLEAN, status : Statuses \cup {"WITHDRAWN"}]

Review ==
    {[stage |-> "idle"]}
    \cup [stage : {"read", "written"}, id : Sends, approve : BOOLEAN]

Holder == [profile : Profile, manager : {"none", "asked", "has"}]

ServiceTypeOK ==
    /\ DOMAIN filed \subseteq Sends /\ \A id \in DOMAIN filed : filed[id] \in Request
    /\ applied \subseteq Sends
    /\ reviews \in [Reviewers -> Review]
    /\ holder \in Holder
    /\ notes \subseteq [id : Sends, read : BOOLEAN]
    /\ taken \subseteq Sends

ServiceInit(told) ==
    /\ filed = <<>> /\ applied = {}
    /\ reviews = [r \in Reviewers |-> [stage |-> "idle"]]
    /\ holder = [profile |-> [name |-> Nobody, department |-> "none"], manager |-> "none"]
    /\ notes = [id : told, read : {FALSE}] /\ taken = {}

-----------------------------------------------------------------------------
(* Requests for a correction.                                              *)

Waiting(date) ==
    {id \in DOMAIN filed : filed[id].date = date /\ filed[id].status = "PENDING"}

\* create_correction, the insert: the index has one open request per day.  The
\* look-up before it only words the refusal.
File(id, date, times) ==
    /\ Waiting(date) = {}
    /\ filed' = [i \in DOMAIN filed \cup {id} |->
                    IF i = id THEN [date |-> date, times |-> times, status |-> "PENDING"]
                    ELSE filed[i]]
    /\ taken' = taken \cup {id}
    /\ UNCHANGED <<applied, reviews, holder, notes>>

\* A review that has written rows for the request holds its row.
Held(id) ==
    \E r \in Reviewers :
        reviews[r].stage = "written" /\ reviews[r].id = id /\ reviews[r].approve
          /\ filed[id].times

\* Mutated form: whatever has become of the request.
WithdrawAny(id) ==
    /\ id \in DOMAIN filed /\ ~Held(id)
    /\ filed' = [filed EXCEPT ![id].status = "WITHDRAWN"]
    /\ UNCHANGED <<applied, reviews, holder, notes, taken>>

\* cancel_correction waits for such a review to end.
Withdraw(id) ==
    /\ id \in DOMAIN filed /\ ~Held(id) /\ filed[id].status = "PENDING"
    /\ filed' = [filed EXCEPT ![id].status = "WITHDRAWN"]
    /\ UNCHANGED <<applied, reviews, holder, notes, taken>>

Turns(r, review) == reviews' = [reviews EXCEPT ![r] = review]

\* review_correction: the request is read, and is open.
ReviewReads(r) ==
    /\ reviews[r].stage = "idle"
    /\ \E id \in DOMAIN filed, approve \in BOOLEAN :
         /\ filed[id].status = "PENDING"
         /\ Turns(r, [stage |-> "read", id |-> id, approve |-> approve])
    /\ UNCHANGED <<filed, applied, holder, notes, taken>>

\* _apply_correction reads the request once more.
ReviewWrites(r) ==
    /\ reviews[r].stage = "read"
    /\ reviews[r].approve => filed[reviews[r].id].status # "WITHDRAWN"
    /\ Turns(r, [reviews[r] EXCEPT !.stage = "written"])
    /\ UNCHANGED <<filed, applied, holder, notes, taken>>

\* The verdict matches nothing if the request has gone; the notification is
\* written all the same.
ReviewCommits(r) ==
    /\ reviews[r].stage = "written"
    /\ LET id == reviews[r].id
       IN  /\ filed' = IF filed[id].status = "WITHDRAWN" THEN filed
                       ELSE [filed EXCEPT ![id].status =
                               IF reviews[r].approve THEN "APPROVED" ELSE "REJECTED"]
           /\ applied' = IF reviews[r].approve /\ filed[id].times
                         THEN applied \cup {id} ELSE applied
           /\ notes' = {n \in notes : n.id # id} \cup {[id |-> id, read |-> FALSE]}
    /\ Turns(r, [stage |-> "idle"])
    /\ UNCHANGED <<holder, taken>>

\* The request has gone, no place is known, or the process dies.
ReviewAborts(r) ==
    /\ reviews[r].stage # "idle"
    /\ Turns(r, [stage |-> "idle"])
    /\ UNCHANGED <<filed, applied, holder, notes, taken>>

-----------------------------------------------------------------------------
(* The profile, the unit and the notifications.                            *)

\* update_member_profile writes every column with what the page sends.
SaveProfile(id, name, department) ==
    /\ holder' = [holder EXCEPT !.profile = [name |-> name, department |-> department]]
    /\ taken' = taken \cup {id}
    /\ UNCHANGED <<filed, applied, reviews, notes>>

\* request_join.
AskToJoin(id) ==
    /\ holder.manager = "none"
    /\ holder' = [holder EXCEPT !.manager = "asked"]
    /\ taken' = taken \cup {id}
    /\ UNCHANGED <<filed, applied, reviews, notes>>

\* The manager lets the member in, which gives the profile its unit, or not.
DecideJoin ==
    /\ holder.manager = "asked"
    /\ \/ holder' = [holder EXCEPT !.manager = "has", !.profile.department = "given"]
       \/ holder' = [holder EXCEPT !.manager = "none"]
    /\ UNCHANGED <<filed, applied, reviews, notes, taken>>

Mark(ids) ==
    /\ notes' = {[n EXCEPT !.read = @ \/ n.id \in ids] : n \in notes}
    /\ UNCHANGED <<filed, applied, reviews, holder, taken>>

Reviewing == \E r \in Reviewers :
    ReviewReads(r) \/ ReviewWrites(r) \/ ReviewCommits(r) \/ ReviewAborts(r)
=============================================================================
