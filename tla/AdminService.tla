----------------------------- MODULE AdminService -----------------------------
(***************************************************************************)
(* What the server keeps of accounts and permissions and does with the     *)
(* requests of an administrator (services/admin.py, admin_data.py,         *)
(* session_policy.py), and another administrator who acts meanwhile.  Each *)
(* request is one step here: what two of them that overlap may do to one   *)
(* row, or to the last administrator, is not in this module.               *)
(***************************************************************************)
EXTENDS AdminPages

VARIABLES
    accounts,       \* the accounts there are
    granted,        \* the rows of role_permissions
    many,           \* whether the role may sign in on many devices
    erased,         \* history: the accounts erased from this browser
    confirmed,      \* history: those that were ticked on screen and confirmed
    crossed         \* history: two requests about the permissions overlapped,
                    \* or one was served that nobody waited for

system == <<accounts, granted, many, erased, confirmed, crossed>>

Account == [role : ToSet(RoleOrder), active : BOOLEAN]

SystemTypeOK ==
    /\ DOMAIN accounts \subseteq Accounts
    /\ \A id \in DOMAIN accounts : accounts[id] \in Account
    /\ granted \in Grids /\ many \in BOOLEAN
    /\ erased \subseteq Accounts /\ confirmed \subseteq Accounts
    /\ crossed \in BOOLEAN

\* Nobody but an administrator is told of other accounts.
SystemInit(role) ==
    /\ accounts = [id \in IF role = "SUPER_ADMIN" THEN Accounts ELSE {Oneself} |->
                     [role   |-> IF id = Oneself THEN role ELSE RoleOrder[1 + (id % 2)],
                      active |-> TRUE]]
    /\ granted = DefaultPermissions /\ many = TRUE
    /\ erased = {} /\ confirmed = {} /\ crossed = FALSE

-----------------------------------------------------------------------------
(* Accounts.                                                               *)

\* The last administrator is not demoted, nor erased.
MayLose(id) ==
    accounts[id].role = "SUPER_ADMIN" =>
        \E other \in DOMAIN accounts \ {id} :
            accounts[other].role = "SUPER_ADMIN" /\ accounts[other].active

\* delete_user.
EraseAccount(id) ==
    /\ id \in DOMAIN accounts /\ id # Oneself /\ MayLose(id)
    /\ accounts' = [other \in DOMAIN accounts \ {id} |-> accounts[other]]
    /\ erased' = erased \cup {id}
    /\ UNCHANGED <<granted, many, confirmed, crossed>>

\* update_user, which is sent both the role and the status.
UpdateAccount(id, role, active) ==
    /\ id \in DOMAIN accounts
    /\ id = Oneself => role = "SUPER_ADMIN" /\ active
    /\ role # "SUPER_ADMIN" => MayLose(id)
    /\ accounts' = [accounts EXCEPT ![id] = [role |-> role, active |-> active]]
    /\ UNCHANGED <<granted, many, erased, confirmed, crossed>>

\* reset_user_password closes the sessions of that account.
SetPassword(id) == id \in DOMAIN accounts /\ UNCHANGED system

\* Another administrator suspends somebody, or erases an account.
OtherAdministers ==
    /\ \E id \in DOMAIN accounts \ {Oneself} :
         \/ /\ accounts[id].active
            /\ accounts' = [accounts EXCEPT ![id].active = FALSE]
         \/ accounts' = [other \in DOMAIN accounts \ {id} |-> accounts[other]]
    /\ UNCHANGED <<granted, many, erased, confirmed, crossed>>

-----------------------------------------------------------------------------
(* Permissions.                                                            *)

\* set_permission.
SetPermission(n, action, allowed) ==
    /\ ~(Locked(n) /\ ~allowed)
    /\ granted' = [granted EXCEPT ![n] =
                     IF action = "view" /\ ~allowed THEN {}
                     ELSE IF allowed THEN @ \cup {action} ELSE @ \ {action}]
    /\ UNCHANGED <<accounts, many, erased, confirmed>>

ResetPermissions ==
    granted' = DefaultPermissions /\ UNCHANGED <<accounts, many, erased, confirmed>>

\* set_policy; what becomes of the sessions is in Sessions.
SetPolicy(allow) == many' = allow /\ UNCHANGED <<accounts, granted, erased, confirmed>>
=============================================================================
