------------------------------- MODULE Access -------------------------------
(***************************************************************************)
(* The users of the back office: who may create and change whom            *)
(* (lib/iam.js), activation by a one-time link, and signing in             *)
(* (lib/auth.js). A session is a signed token: until it expires it says    *)
(* what its user was when it was issued, and no handler reads the user's   *)
(* row again.                                                              *)
(***************************************************************************)
EXTENDS Naturals, FiniteSets

PlatformRoles == {"SuperAdmin", "AlnadlFinance"}
PartnerRoles  == {"PartnerAdmin", "PartnerViewer"}
SiteRoles     == {"Operator"}
AllRoles      == PlatformRoles \cup PartnerRoles \cup SiteRoles

\* One partner stands for a tenant, the platform for having none.

CONSTANTS
  Users,          \* the identities users may be created with
  Bootstrap,      \* the SuperAdmin a fresh database is seeded with
  Grants,         \* the roles administrators give, each with its scope
  Guessed,        \* the usernames for which somebody tries wrong passwords
  MaxFailures     \* lib/auth.js MAX_ATTEMPTS, in one window

ASSUME BootstrapAssumption == Bootstrap \in Users
ASSUME GrantsAssumption == Grants \subseteq [role : AllRoles, scope : {"partner", "platform"}]
ASSUME FailuresAssumption == MaxFailures \in Nat \ {0}

VARIABLES
  exists,    \* the users with a row
  role,      \* users.role
  scope,     \* users.partner_scope
  status,    \* users.status
  active,    \* users.active
  password,  \* users.password_hash is set
  link,      \* a pending activation token that has not expired
  session,   \* the role and scope in the user's token, or NoSession
  failures,  \* failed sign-ins of the username in the current window
  closed     \* the partner is Closed

userVars == <<role, scope, status, active, password>>
accessVars == <<exists, userVars, link, session, failures, closed>>

NoSession == [role |-> "none", scope |-> "none"]

-----------------------------------------------------------------------------
(* lib/iam.js. *)

Same == "same"  \* what the body of a request leaves out
AsIs == [role |-> Same, scope |-> Same]

AssignableRoles(actor) ==
  CASE actor = "SuperAdmin"   -> AllRoles
    [] actor = "PartnerAdmin" -> SiteRoles \cup {"PartnerViewer"}
    [] OTHER                  -> {}

\* assertCanManageUser of an existing user. What is asked of the change is what
\* the body states: a role or a scope it leaves out is not looked at.
MayTouch(by, u) ==
  \/ by.role = "SuperAdmin"
  \/ by.role = "PartnerAdmin" /\ scope[u] = by.scope

\* The role is looked at, the scope is not.
MayIntendAnywhere(by, grant) ==
  grant.role \in AssignableRoles(by.role) \cup {Same}

MayIntend(by, grant) ==
  \/ by.role = "SuperAdmin"
  \/ /\ by.role = "PartnerAdmin"
     /\ grant.role \in AssignableRoles("PartnerAdmin") \cup {Same}
     /\ grant.scope \in {by.scope, Same}

SuperAdmins == {u \in exists : role[u] = "SuperAdmin" /\ active[u]}

\* Counts every SuperAdmin, those that are suspended among them.
NotLastOfAll(u, newRole, newActive) ==
  (role[u] = "SuperAdmin" /\ (newRole # "SuperAdmin" \/ ~newActive)) =>
    \E v \in exists \ {u} : role[v] = "SuperAdmin"

\* assertNotLastSuperAdmin.
NotLastSuperAdmin(u, newRole, newActive) ==
  (role[u] = "SuperAdmin" /\ (newRole # "SuperAdmin" \/ ~newActive)) =>
    SuperAdmins \ {u} # {}

-----------------------------------------------------------------------------

AccessInit ==
  /\ exists = {Bootstrap}
  /\ role = [u \in Users |-> "SuperAdmin"]
  /\ scope = [u \in Users |-> "platform"]
  /\ status = [u \in Users |-> "active"]
  /\ active = [u \in Users |-> TRUE]
  /\ password = [u \in Users |-> u = Bootstrap]
  /\ link = [u \in Users |-> FALSE]
  /\ session = [u \in Users |-> NoSession]
  /\ failures = [u \in Users |-> 0]
  /\ closed = FALSE

\* POST /api/admin/users, with the token of user a. A PartnerAdmin's own scope
\* is put in the place of the one it sent.
CreateUser(a, u, grant) ==
  /\ u \notin exists
  /\ MayIntend(session[a], grant)
  /\ exists' = exists \cup {u}
  /\ role' = [role EXCEPT ![u] = grant.role]
  /\ scope' = [scope EXCEPT ![u] = grant.scope]
  /\ status' = [status EXCEPT ![u] = "pending_activation"]
  /\ active' = [active EXCEPT ![u] = TRUE]
  /\ password' = [password EXCEPT ![u] = FALSE]
  /\ link' = [link EXCEPT ![u] = TRUE]
  /\ UNCHANGED <<session, failures, closed>>

\* POST /api/admin/users/:id/activation: the link before is superseded.
Reissue(a, u) ==
  /\ u \in exists
  /\ MayTouch(session[a], u)
  /\ link' = [link EXCEPT ![u] = TRUE]
  /\ status' = [status EXCEPT ![u] = "pending_activation"]
  /\ password' = [password EXCEPT ![u] = FALSE]
  /\ UNCHANGED <<exists, role, scope, active, session, failures, closed>>

\* POST /api/activate/:token, public: whoever holds the link sets the password,
\* whatever became of the user meanwhile.
Activate(u) ==
  /\ link[u]
  /\ link' = [link EXCEPT ![u] = FALSE]
  /\ password' = [password EXCEPT ![u] = TRUE]
  /\ status' = [status EXCEPT ![u] = "active"]
  /\ active' = [active EXCEPT ![u] = TRUE]
  /\ UNCHANGED <<exists, role, scope, session, failures, closed>>

\* Seventy-two hours pass.
LinkExpires(u) ==
  /\ link[u]
  /\ link' = [link EXCEPT ![u] = FALSE]
  /\ UNCHANGED <<exists, userVars, session, failures, closed>>

\* What PATCH makes of status and active: a status is final for both; the older
\* flag leaves a pending user pending.
StatusAfter(u, change) ==
  CASE change \in {"active", "suspended"} -> change
    [] change \in {"enable", "disable"} /\ status[u] # "pending_activation" ->
         IF change = "enable" THEN "active" ELSE "suspended"
    [] OTHER -> status[u]

ActiveAfter(u, change) ==
  IF change = Same THEN active[u] ELSE change \in {"active", "enable"}

\* PATCH /api/admin/users/:id. Only a user that is still pending is kept from
\* being made active.
Patch(a, u, grant, change) ==
  LET roleAfter == IF grant.role = Same THEN role[u] ELSE grant.role IN
  /\ u \in exists
  /\ MayTouch(session[a], u)
  /\ MayIntend(session[a], grant)
  /\ ~(change = "active" /\ status[u] = "pending_activation")
  /\ NotLastSuperAdmin(u, roleAfter, ActiveAfter(u, change))
  /\ role' = [role EXCEPT ![u] = roleAfter]
  /\ scope' = [scope EXCEPT ![u] = IF grant.scope = Same THEN @ ELSE grant.scope]
  /\ status' = [status EXCEPT ![u] = StatusAfter(u, change)]
  /\ active' = [active EXCEPT ![u] = ActiveAfter(u, change)]
  /\ UNCHANGED <<exists, password, link, session, failures, closed>>

MayEnter(u) ==
  /\ u \in exists
  /\ active[u]
  /\ password[u]
  /\ status[u] # "pending_activation"
  /\ scope[u] = "partner" => ~closed

\* POST /api/auth/login with the right password.
Login(u) ==
  /\ failures[u] < MaxFailures
  /\ MayEnter(u)
  /\ session' = [session EXCEPT ![u] = [role |-> role[u], scope |-> scope[u]]]
  /\ failures' = [failures EXCEPT ![u] = 0]
  /\ UNCHANGED <<exists, userVars, link, closed>>

\* A wrong password, or a user that may not enter, looks the same from outside.
LoginFails(u) ==
  /\ failures[u] < MaxFailures
  /\ failures' = [failures EXCEPT ![u] = @ + 1]
  /\ UNCHANGED <<exists, userVars, link, session, closed>>

\* Fifteen minutes pass since the failures of the username.
WindowPasses(u) ==
  /\ failures' = [failures EXCEPT ![u] = 0]
  /\ UNCHANGED <<exists, userVars, link, session, closed>>

\* Eight hours pass since the token was issued, or its holder drops it.
SessionEnds(u) ==
  /\ session' = [session EXCEPT ![u] = NoSession]
  /\ UNCHANGED <<exists, userVars, link, failures, closed>>

\* The partner's status, of which only this is read here.
SetClosed(to) ==
  /\ closed' = to
  /\ UNCHANGED <<exists, userVars, link, session, failures>>

AccessNext ==
  \/ \E a, u \in Users, grant \in Grants : CreateUser(a, u, grant)
  \/ \E a, u \in Users, grant \in Grants \cup {AsIs} :
       \E change \in {"active", "suspended", "enable", "disable", Same} :
         Patch(a, u, grant, change)
  \/ \E a, u \in Users : Reissue(a, u)
  \/ \E u \in Users : \/ Activate(u)
                      \/ LinkExpires(u)
                      \/ Login(u)
                      \/ SessionEnds(u)
  \/ \E u \in Guessed : LoginFails(u) \/ WindowPasses(u)
  \/ \E to \in BOOLEAN : SetClosed(to)

AccessSpec == AccessInit /\ [][AccessNext]_accessVars

-----------------------------------------------------------------------------

\* However roles and statuses change, and whoever changes them with a token of
\* earlier, some SuperAdmin is always active.
SuperAdminRemains == SuperAdmins # {}

\* While every token is a partner's, nobody comes by a platform role, and no user
\* outside the partner is changed, suspended or locked out.
PartnersStayInside ==
  [][(\A a \in Users : session[a].scope # "platform") =>
       \A u \in exists' :
         IF u \in exists /\ scope[u] = "platform"
           THEN /\ role'[u] = role[u] /\ scope'[u] = "platform"
                /\ active[u] => active'[u]
                /\ password[u] => password'[u]
           ELSE scope'[u] = "partner" /\ role'[u] \notin PlatformRoles
    ]_accessVars
=============================================================================
