---------------------------- MODULE AccessProofs ----------------------------
(***************************************************************************)
(* Theorems about who comes in: Access, for any number of users with any   *)
(* of the roles that may be given, and any length of the window of failed  *)
(* sign-ins; Verification, for any number of challenges and attempts and a *)
(* provider however slow; and RateLimit, for any number of callers and any *)
(* windows that the sweep keeps.                                           *)
(***************************************************************************)
EXTENDS Access, Verification, RateLimit, FiniteSetTheorems, TLAPS

\* The columns that the accounts are made of.
AccountsOK ==
  /\ exists \subseteq Users
  /\ role \in [Users -> AllRoles]
  /\ scope \in [Users -> {"partner", "platform"}]
  /\ active \in [Users -> BOOLEAN]

RemainsInv == AccountsOK /\ SuperAdminRemains

\* What a change of one user's row leaves of the SuperAdmins.
LEMMA OthersRemain ==
  ASSUME RemainsInv, NEW u \in Users,
         exists \subseteq exists', AccountsOK',
         \A v \in Users \ {u} : role'[v] = role[v] /\ active'[v] = active[v],
         u \in SuperAdmins =>
           \/ SuperAdmins \ {u} # {}
           \/ role'[u] = "SuperAdmin" /\ active'[u]
  PROVE  SuperAdminRemains'
BY DEF RemainsInv, AccountsOK, SuperAdminRemains, SuperAdmins

LEMMA RemainsInitially == AccessInit => RemainsInv
BY BootstrapAssumption
DEF AccessInit, RemainsInv, AccountsOK, SuperAdminRemains, SuperAdmins, AllRoles, PlatformRoles

LEMMA RemainsStep == RemainsInv /\ [AccessNext]_accessVars => RemainsInv'
<1> SUFFICES ASSUME RemainsInv, [AccessNext]_accessVars PROVE RemainsInv'
  OBVIOUS
<1>0. AccountsOK
  BY DEF RemainsInv
<1>1. ASSUME NEW a \in Users, NEW u \in Users, NEW grant \in Grants, CreateUser(a, u, grant)
      PROVE  RemainsInv'
  <2>1. grant.role \in AllRoles /\ grant.scope \in {"partner", "platform"}
    BY GrantsAssumption
  <2>2. AccountsOK'
    BY <1>0, <1>1, <2>1 DEF CreateUser, AccountsOK
  <2>3. u \notin SuperAdmins
    BY <1>1 DEF CreateUser, SuperAdmins
  <2>4. \A v \in Users \ {u} : role'[v] = role[v] /\ active'[v] = active[v]
    BY <1>0, <1>1 DEF CreateUser, AccountsOK
  <2> QED BY <1>1, <2>2, <2>3, <2>4, OthersRemain DEF CreateUser, RemainsInv
<1>2. ASSUME NEW a \in Users, NEW u \in Users, NEW grant \in Grants \cup {AsIs},
             NEW change \in {"active", "suspended", "enable", "disable", Same},
             Patch(a, u, grant, change)
      PROVE  RemainsInv'
  <2> DEFINE roleAfter == IF grant.role = Same THEN role[u] ELSE grant.role
  <2>1. /\ u \in exists
        /\ NotLastSuperAdmin(u, roleAfter, ActiveAfter(u, change))
        /\ role' = [role EXCEPT ![u] = roleAfter]
        /\ scope' = [scope EXCEPT ![u] = IF grant.scope = Same THEN @ ELSE grant.scope]
        /\ active' = [active EXCEPT ![u] = ActiveAfter(u, change)]
        /\ exists' = exists
    BY <1>2 DEF Patch
  <2>2. grant.role \in AllRoles \cup {Same} /\ grant.scope \in {"partner", "platform", Same}
    BY GrantsAssumption DEF AsIs
  <2>3. roleAfter \in AllRoles
    BY <1>0, <2>2 DEF AccountsOK
  <2>4. ActiveAfter(u, change) \in BOOLEAN
    <3>1. active[u] \in BOOLEAN
      BY <1>0 DEF AccountsOK
    <3>2. (change \in {"active", "enable"}) \in BOOLEAN
      OBVIOUS
    <3> QED BY <3>1, <3>2, Zenon DEF ActiveAfter
  <2>5. AccountsOK'
    BY <1>0, <2>1, <2>2, <2>3, <2>4 DEF AccountsOK
  <2>6. role'[u] = roleAfter /\ active'[u] = ActiveAfter(u, change)
    BY <1>0, <2>1 DEF AccountsOK
  <2>7. \A v \in Users \ {u} : role'[v] = role[v] /\ active'[v] = active[v]
    BY <1>0, <2>1 DEF AccountsOK
  <2>8. u \in SuperAdmins =>
          \/ SuperAdmins \ {u} # {}
          \/ role'[u] = "SuperAdmin" /\ active'[u]
    BY <2>1, <2>6 DEF NotLastSuperAdmin, SuperAdmins
  <2> QED BY <2>1, <2>5, <2>7, <2>8, OthersRemain DEF RemainsInv
<1>3. ASSUME NEW u \in Users, Activate(u) PROVE RemainsInv'
  <2>1. AccountsOK'
    BY <1>0, <1>3 DEF Activate, AccountsOK
  <2>2. \A v \in Users \ {u} : role'[v] = role[v] /\ active'[v] = active[v]
    BY <1>0, <1>3 DEF Activate, AccountsOK
  <2>3. u \in SuperAdmins => role'[u] = "SuperAdmin" /\ active'[u]
    BY <1>0, <1>3 DEF Activate, AccountsOK, SuperAdmins
  <2> QED BY <1>3, <2>1, <2>2, <2>3, OthersRemain DEF Activate, RemainsInv
<1>4. ASSUME UNCHANGED <<exists, role, scope, active>> PROVE RemainsInv'
  BY <1>4 DEF RemainsInv, AccountsOK, SuperAdminRemains, SuperAdmins
<1>5. ASSUME NEW a \in Users, NEW u \in Users, Reissue(a, u) PROVE RemainsInv'
  BY <1>4, <1>5 DEF Reissue
<1>6. ASSUME NEW u \in Users, LinkExpires(u) \/ Login(u) \/ SessionEnds(u) PROVE RemainsInv'
  BY <1>4, <1>6 DEF LinkExpires, Login, SessionEnds, userVars
<1>7. ASSUME NEW u \in Guessed, LoginFails(u) \/ WindowPasses(u) PROVE RemainsInv'
  BY <1>4, <1>7 DEF LoginFails, WindowPasses, userVars
<1>8. ASSUME NEW to \in BOOLEAN, SetClosed(to) PROVE RemainsInv'
  BY <1>4, <1>8 DEF SetClosed, userVars
<1>9. CASE UNCHANGED accessVars
  BY <1>4, <1>9 DEF accessVars, userVars
<1> QED BY <1>1, <1>2, <1>3, <1>5, <1>6, <1>7, <1>8, <1>9 DEF AccessNext

\* However roles and statuses change, and whoever changes them with a token of
\* earlier, some SuperAdmin is always active.
THEOREM SuperAdminAlwaysRemains == AccessSpec => []SuperAdminRemains
<1>1. RemainsInv => SuperAdminRemains
  BY DEF RemainsInv
<1> QED BY <1>1, RemainsInitially, RemainsStep, PTL DEF AccessSpec

-----------------------------------------------------------------------------

\* The grants that administrators of the platform make in their forms: a role of
\* the platform goes with no partner. lib/iam.js leaves that to who asks.
PlatformRolesHaveNoPartner ==
  \A g \in Grants : g.role \in PlatformRoles => g.scope = "platform"

\* A user of a partner has no role of the platform.
RowsInside == \A u \in exists : scope[u] = "partner" => role[u] \notin PlatformRoles

\* Nor does a token say so, though its user may be something else by now.
TokensInside ==
  \A a \in Users : \/ session[a] = NoSession
                   \/ /\ session[a].scope \in {"partner", "platform"}
                      /\ session[a].scope = "partner" => session[a].role \notin PlatformRoles

InsideInv ==
  /\ AccountsOK
  /\ session \in [Users -> [role : AllRoles, scope : {"partner", "platform"}] \cup {NoSession}]
  /\ RowsInside
  /\ TokensInside

LEMMA InsideInitially == AccessInit => InsideInv
<1> SUFFICES ASSUME AccessInit PROVE InsideInv
  OBVIOUS
<1>1. AccountsOK
  BY RemainsInitially DEF RemainsInv
<1>2. RowsInside
  BY BootstrapAssumption DEF AccessInit, RowsInside
<1>3. TokensInside
  BY DEF AccessInit, TokensInside
<1>4. session \in [Users -> [role : AllRoles, scope : {"partner", "platform"}] \cup {NoSession}]
  BY DEF AccessInit
<1> QED BY <1>1, <1>2, <1>3, <1>4 DEF InsideInv

\* A step that changes no token preserves the invariant if it does for the rows.
LEMMA TokensKept ==
  ASSUME InsideInv, session' = session, AccountsOK', RowsInside'
  PROVE  InsideInv'
BY DEF InsideInv, TokensInside

LEMMA InsideStep ==
  ASSUME PlatformRolesHaveNoPartner
  PROVE  InsideInv /\ RemainsInv /\ [AccessNext]_accessVars => InsideInv'
<1> SUFFICES ASSUME InsideInv, RemainsInv, [AccessNext]_accessVars PROVE InsideInv'
  OBVIOUS
<1>0. AccountsOK /\ RowsInside
  BY DEF InsideInv
<1>a. AccountsOK'
  BY RemainsStep DEF RemainsInv
<1>1. ASSUME NEW a \in Users, NEW u \in Users, NEW grant \in Grants, CreateUser(a, u, grant)
      PROVE  InsideInv'
  <2>1. grant.role \in PlatformRoles => grant.scope = "platform"
    BY PlatformRolesHaveNoPartner DEF PlatformRolesHaveNoPartner
  <2>2. RowsInside'
    BY <1>0, <1>1, <2>1 DEF CreateUser, AccountsOK, RowsInside
  <2> QED BY <1>1, <1>a, <2>2, TokensKept DEF CreateUser
<1>2. ASSUME NEW a \in Users, NEW u \in Users, NEW grant \in Grants \cup {AsIs},
             NEW change \in {"active", "suspended", "enable", "disable", Same},
             Patch(a, u, grant, change)
      PROVE  InsideInv'
  <2>1. \/ grant.role = Same /\ grant.scope = Same
        \/ /\ grant.role \in AllRoles /\ grant.scope \in {"partner", "platform"}
           /\ grant.role \in PlatformRoles => grant.scope = "platform"
    BY GrantsAssumption, PlatformRolesHaveNoPartner DEF AsIs, PlatformRolesHaveNoPartner
  <2>2. /\ exists' = exists /\ session' = session
        /\ role' = [role EXCEPT ![u] = IF grant.role = Same THEN role[u] ELSE grant.role]
        /\ scope' = [scope EXCEPT ![u] = IF grant.scope = Same THEN @ ELSE grant.scope]
    BY <1>2 DEF Patch
  <2>3. CASE grant.role = Same /\ grant.scope = Same
    <3>1. role' = role /\ scope' = scope
      BY <1>0, <2>2, <2>3 DEF AccountsOK
    <3> QED BY <1>0, <1>a, <2>2, <3>1, TokensKept DEF RowsInside
  <2>4. CASE /\ grant.role \in AllRoles /\ grant.scope \in {"partner", "platform"}
             /\ grant.role \in PlatformRoles => grant.scope = "platform"
    <3>1. grant.role # Same /\ grant.scope # Same
      BY <2>4 DEF Same, AllRoles, PlatformRoles, PartnerRoles, SiteRoles
    <3>2. RowsInside'
      BY <1>0, <2>2, <2>4, <3>1 DEF AccountsOK, RowsInside
    <3> QED BY <1>a, <2>2, <3>2, TokensKept
  <2> QED BY <2>1, <2>3, <2>4
<1>3. ASSUME UNCHANGED <<exists, role, scope, session>> PROVE InsideInv'
  BY <1>0, <1>3, <1>a, TokensKept DEF RowsInside
<1>4. ASSUME NEW a \in Users, NEW u \in Users, Reissue(a, u) PROVE InsideInv'
  BY <1>3, <1>4 DEF Reissue
<1>5. ASSUME NEW u \in Users, Activate(u) \/ LinkExpires(u) PROVE InsideInv'
  BY <1>3, <1>5 DEF Activate, LinkExpires, userVars
<1>6. ASSUME NEW u \in Users, Login(u) PROVE InsideInv'
  <2>1. /\ u \in exists
        /\ session' = [session EXCEPT ![u] = [role |-> role[u], scope |-> scope[u]]]
        /\ UNCHANGED <<exists, role, scope>>
    BY <1>6 DEF Login, MayEnter, userVars
  <2>2. role[u] \in AllRoles /\ scope[u] \in {"partner", "platform"}
    BY <1>0 DEF AccountsOK
  <2>3. scope[u] = "partner" => role[u] \notin PlatformRoles
    BY <1>0, <2>1 DEF RowsInside
  <2>4. TokensInside'
    BY <2>1, <2>2, <2>3 DEF InsideInv, TokensInside
  <2>5. RowsInside'
    BY <1>0, <2>1 DEF RowsInside
  <2>6. session' \in [Users -> [role : AllRoles, scope : {"partner", "platform"}]
                               \cup {NoSession}]
    BY <2>1, <2>2 DEF InsideInv
  <2> QED BY <1>a, <2>4, <2>5, <2>6 DEF InsideInv
<1>7. ASSUME NEW u \in Users, SessionEnds(u) PROVE InsideInv'
  <2>1. /\ session' = [session EXCEPT ![u] = NoSession]
        /\ UNCHANGED <<exists, role, scope>>
    BY <1>7 DEF SessionEnds, userVars
  <2>2. TokensInside' /\ RowsInside'
    BY <1>0, <2>1 DEF InsideInv, TokensInside, RowsInside
  <2> QED BY <1>a, <2>1, <2>2 DEF InsideInv
<1>8. ASSUME NEW u \in Guessed, LoginFails(u) \/ WindowPasses(u) PROVE InsideInv'
  BY <1>3, <1>8 DEF LoginFails, WindowPasses, userVars
<1>9. ASSUME NEW to \in BOOLEAN, SetClosed(to) PROVE InsideInv'
  BY <1>3, <1>9 DEF SetClosed, userVars
<1>10. CASE UNCHANGED accessVars
  BY <1>3, <1>10 DEF accessVars, userVars
<1> QED
  BY <1>1, <1>2, <1>4, <1>5, <1>6, <1>7, <1>8, <1>9, <1>10 DEF AccessNext

\* What PartnersStayInside says of a step of one user's row.
StaysInside(u) ==
  IF u \in exists /\ scope[u] = "platform"
    THEN /\ role'[u] = role[u] /\ scope'[u] = "platform"
         /\ active[u] => active'[u]
         /\ password[u] => password'[u]
    ELSE scope'[u] = "partner" /\ role'[u] \notin PlatformRoles

\* A row that a step does not write stays as it was.
LEMMA Unwritten ==
  ASSUME InsideInv, NEW u \in exists,
         role'[u] = role[u], scope'[u] = scope[u], active'[u] = active[u],
         password'[u] = password[u]
  PROVE  StaysInside(u)
BY DEF InsideInv, AccountsOK, RowsInside, StaysInside

LEMMA InsideEachStep ==
  ASSUME InsideInv, [AccessNext]_accessVars,
         password \in [Users -> BOOLEAN],
         \A a \in Users : session[a].scope # "platform",
         NEW u \in exists'
  PROVE  StaysInside(u)
<1>0. AccountsOK /\ RowsInside /\ exists \subseteq Users
  BY DEF InsideInv, AccountsOK
<1>a. ASSUME NEW a \in Users
      PROVE  /\ session[a].role # "SuperAdmin"
             /\ session[a].role = "PartnerAdmin" => session[a].scope = "partner"
  BY DEF InsideInv, TokensInside, NoSession, PlatformRoles
<1>1. ASSUME NEW a \in Users, NEW v \in Users, NEW grant \in Grants, CreateUser(a, v, grant)
      PROVE  StaysInside(u)
  <2>1. grant.role \in AllRoles /\ grant.scope \in {"partner", "platform"}
    BY GrantsAssumption
  <2>2. /\ v \notin exists
        /\ exists' = exists \cup {v}
        /\ role' = [role EXCEPT ![v] = grant.role]
        /\ scope' = [scope EXCEPT ![v] = grant.scope]
        /\ active' = [active EXCEPT ![v] = TRUE]
        /\ password' = [password EXCEPT ![v] = FALSE]
        /\ MayIntend(session[a], grant)
    BY <1>1 DEF CreateUser
  <2>3. grant.scope = "partner" /\ grant.role \notin PlatformRoles
    BY <1>a, <2>1, <2>2
    DEF MayIntend, AssignableRoles, Same, AllRoles, PlatformRoles, PartnerRoles, SiteRoles
  <2>4. CASE u = v
    BY <1>0, <2>2, <2>3, <2>4 DEF StaysInside, AccountsOK
  <2>5. CASE u # v
    <3>1. u \in exists
      BY <2>2, <2>5
    <3>2. /\ role'[u] = role[u] /\ scope'[u] = scope[u]
          /\ active'[u] = active[u] /\ password'[u] = password[u]
      BY <1>0, <2>2, <2>5, <3>1 DEF AccountsOK
    <3> QED BY <3>1, <3>2, Unwritten
  <2> QED BY <2>4, <2>5
<1>2. ASSUME NEW a \in Users, NEW v \in Users, NEW grant \in Grants \cup {AsIs},
             NEW change \in {"active", "suspended", "enable", "disable", Same},
             Patch(a, v, grant, change)
      PROVE  StaysInside(u)
  <2>1. /\ v \in exists /\ exists' = exists
        /\ role' = [role EXCEPT ![v] = IF grant.role = Same THEN role[v] ELSE grant.role]
        /\ scope' = [scope EXCEPT ![v] = IF grant.scope = Same THEN @ ELSE grant.scope]
        /\ active' = [active EXCEPT ![v] = ActiveAfter(v, change)]
        /\ password' = password
        /\ MayTouch(session[a], v)
        /\ MayIntend(session[a], grant)
    BY <1>2 DEF Patch
  <2>2. scope[v] = "partner"
    BY <1>a, <2>1 DEF MayTouch
  <2>3. /\ grant.role = Same \/ grant.role \notin PlatformRoles
        /\ grant.scope \in {"partner", Same}
    BY <1>a, <2>1
    DEF MayIntend, AssignableRoles, Same, AllRoles, PlatformRoles, PartnerRoles, SiteRoles
  <2>4. CASE u = v
    <3>1. role[v] \notin PlatformRoles
      BY <1>0, <2>1, <2>2 DEF RowsInside
    <3>2. scope'[v] = "partner" /\ role'[v] \notin PlatformRoles
      BY <1>0, <2>1, <2>2, <2>3, <3>1 DEF AccountsOK
    <3> QED BY <2>2, <2>4, <3>2 DEF StaysInside
  <2>5. CASE u # v
    <3>1. /\ role'[u] = role[u] /\ scope'[u] = scope[u]
          /\ active'[u] = active[u] /\ password'[u] = password[u]
      BY <1>0, <2>1, <2>5 DEF AccountsOK
    <3> QED BY <2>1, <3>1, Unwritten
  <2> QED BY <2>4, <2>5
<1>3. ASSUME NEW a \in Users, NEW v \in Users, Reissue(a, v) PROVE StaysInside(u)
  <2>1. /\ v \in exists /\ exists' = exists
        /\ UNCHANGED <<role, scope, active>>
        /\ password' = [password EXCEPT ![v] = FALSE]
        /\ MayTouch(session[a], v)
    BY <1>3 DEF Reissue
  <2>2. scope[v] = "partner"
    BY <1>a, <2>1 DEF MayTouch
  <2>3. CASE u = v
    BY <1>0, <2>1, <2>2, <2>3 DEF StaysInside, RowsInside
  <2>4. CASE u # v
    BY <1>0, <2>1, <2>4, Unwritten
  <2> QED BY <2>3, <2>4
<1>4. ASSUME NEW v \in Users, Activate(v) PROVE StaysInside(u)
  <2>1. /\ exists' = exists /\ UNCHANGED <<role, scope>>
        /\ active' = [active EXCEPT ![v] = TRUE]
        /\ password' = [password EXCEPT ![v] = TRUE]
    BY <1>4 DEF Activate
  <2>2. (active[u] => active'[u]) /\ (password[u] => password'[u])
    BY <1>0, <2>1 DEF AccountsOK
  <2> QED BY <1>0, <2>1, <2>2 DEF StaysInside, AccountsOK, RowsInside
<1>5. ASSUME UNCHANGED <<exists, role, scope, active, password>> PROVE StaysInside(u)
  BY <1>5, Unwritten
<1>6. ASSUME NEW v \in Users, LinkExpires(v) \/ Login(v) \/ SessionEnds(v)
      PROVE  StaysInside(u)
  BY <1>5, <1>6 DEF LinkExpires, Login, SessionEnds, userVars
<1>7. ASSUME NEW v \in Guessed, LoginFails(v) \/ WindowPasses(v) PROVE StaysInside(u)
  BY <1>5, <1>7 DEF LoginFails, WindowPasses, userVars
<1>8. ASSUME NEW to \in BOOLEAN, SetClosed(to) PROVE StaysInside(u)
  BY <1>5, <1>8 DEF SetClosed, userVars
<1>9. CASE UNCHANGED accessVars
  BY <1>5, <1>9 DEF accessVars, userVars
<1> QED BY <1>1, <1>2, <1>3, <1>4, <1>6, <1>7, <1>8, <1>9 DEF AccessNext

LEMMA PasswordsStep ==
  password \in [Users -> BOOLEAN] /\ [AccessNext]_accessVars
    => password' \in [Users -> BOOLEAN]
BY DEF AccessNext, CreateUser, Patch, Reissue, Activate, LinkExpires, Login, SessionEnds,
       LoginFails, WindowPasses, SetClosed, accessVars, userVars

\* While every token is a partner's, no step gives a platform role or changes,
\* suspends or locks out a user outside the partner: by any administrator, also
\* one whose token is older than its row.
THEOREM PartnersKeptInside ==
  ASSUME PlatformRolesHaveNoPartner
  PROVE  AccessSpec => PartnersStayInside
<1> DEFINE Typed == password \in [Users -> BOOLEAN]
<1>1. AccessInit => InsideInv /\ RemainsInv /\ Typed
  BY InsideInitially, RemainsInitially DEF AccessInit
<1>2. InsideInv /\ RemainsInv /\ Typed /\ [AccessNext]_accessVars
        => (InsideInv /\ RemainsInv /\ Typed)'
  BY PlatformRolesHaveNoPartner, InsideStep, RemainsStep, PasswordsStep
<1>3. InsideInv /\ Typed /\ [AccessNext]_accessVars =>
        [(\A a \in Users : session[a].scope # "platform") =>
           \A u \in exists' :
             IF u \in exists /\ scope[u] = "platform"
               THEN /\ role'[u] = role[u] /\ scope'[u] = "platform"
                    /\ active[u] => active'[u]
                    /\ password[u] => password'[u]
               ELSE scope'[u] = "partner" /\ role'[u] \notin PlatformRoles]_accessVars
  <2> SUFFICES ASSUME InsideInv, Typed, [AccessNext]_accessVars,
                      \A a \in Users : session[a].scope # "platform",
                      NEW u \in exists'
               PROVE  IF u \in exists /\ scope[u] = "platform"
                        THEN /\ role'[u] = role[u] /\ scope'[u] = "platform"
                             /\ active[u] => active'[u]
                             /\ password[u] => password'[u]
                        ELSE scope'[u] = "partner" /\ role'[u] \notin PlatformRoles
    OBVIOUS
  <2>1. StaysInside(u)
    BY InsideEachStep
  <2> QED BY <2>1, Zenon DEF StaysInside
<1> HIDE DEF Typed
<1> QED BY <1>1, <1>2, <1>3, PTL DEF AccessSpec, PartnersStayInside

-----------------------------------------------------------------------------
(* The verification of a phone.                                            *)

\* Challenges are numbered as they are sent, so their number is the newest one.
SentInOrder == \E n \in 0..MaxChallenges : sent = 1..n

VerificationTypes ==
  /\ state \in [Ids -> {"none", "pending", "expired", "locked", "verified"}]
  /\ awaiting \subseteq sent

VerificationInv == SentInOrder /\ VerificationTypes /\ OnlyNewestIsPending

LEMMA VerificationInitially == VerificationInit => VerificationInv
<1> SUFFICES ASSUME VerificationInit PROVE VerificationInv
  OBVIOUS
<1>1. sent = 1..0 /\ 0 \in 0..MaxChallenges
  BY ChallengesAssumption DEF VerificationInit
<1> QED BY <1>1 DEF VerificationInit, VerificationInv, SentInOrder,
                    VerificationTypes, OnlyNewestIsPending, Pending

\* Whatever answers, lapses or fails leaves pending only what was.
LEMMA NothingNewPending ==
  ASSUME VerificationInv, sent' = sent, awaiting' \subseteq awaiting,
         state' \in [Ids -> {"none", "pending", "expired", "locked", "verified"}],
         \A i \in Ids : state'[i] = "pending" => state[i] = "pending"
  PROVE  VerificationInv'
<1>1. sent \subseteq Ids
  BY ChallengesAssumption DEF VerificationInv, SentInOrder, Ids
<1> QED BY <1>1 DEF VerificationInv, SentInOrder, VerificationTypes,
                    OnlyNewestIsPending, Pending

\* A new challenge supersedes what was pending, and is newer than all.
LEMMA Sending == VerificationInv /\ SendChallenge => VerificationInv'
<1> SUFFICES ASSUME VerificationInv, SendChallenge PROVE VerificationInv'
  OBVIOUS
<1> USE ChallengesAssumption
<1>1. PICK n \in 0..MaxChallenges : sent = 1..n
  BY DEF VerificationInv, SentInOrder
<1>2. Cardinality(1..n) = n
  BY FS_Interval
<1> DEFINE i == n + 1
<1>3. /\ i \in Ids
      /\ sent' = sent \cup {i}
      /\ state' = [Superseded EXCEPT ![i] = "pending"]
      /\ awaiting' = awaiting \cup {i}
  BY <1>1, <1>2 DEF SendChallenge
<1>4. i \in 0..MaxChallenges /\ sent' = 1..i
  BY <1>1, <1>3 DEF Ids
<1>5. VerificationTypes'
  BY <1>3 DEF VerificationInv, VerificationTypes, Superseded
<1>6. \A j \in sent' : state'[j] = "pending" => j = i
  BY <1>1, <1>3 DEF VerificationInv, VerificationTypes, Superseded, Pending, Ids
<1>7. OnlyNewestIsPending'
  BY <1>4, <1>6 DEF OnlyNewestIsPending, Pending
<1> QED BY <1>4, <1>5, <1>7 DEF VerificationInv, SentInOrder

LEMMA VerificationStep ==
  VerificationInv /\ [VerificationNext]_verificationVars => VerificationInv'
<1> SUFFICES ASSUME VerificationInv, [VerificationNext]_verificationVars
             PROVE  VerificationInv'
  OBVIOUS
<1>0. VerificationTypes
  BY DEF VerificationInv
<1>1. CASE SendChallenge
  BY <1>1, Sending
<1>2. CASE ProviderLost
  BY <1>0, <1>2, NothingNewPending DEF ProviderLost, VerificationTypes
<1>3. CASE CooldownPasses
  BY <1>0, <1>3, NothingNewPending DEF CooldownPasses, VerificationTypes
<1>4. ASSUME NEW i \in Ids, Delivered(i) PROVE VerificationInv'
  BY <1>0, <1>4, NothingNewPending DEF Delivered, VerificationTypes
<1>5. ASSUME NEW i \in Ids, DeliveryFails(i) PROVE VerificationInv'
  BY <1>0, <1>5, NothingNewPending DEF DeliveryFails, VerificationTypes
<1>6. ASSUME NEW i \in Ids, AnswerTooLate(i) PROVE VerificationInv'
  BY <1>0, <1>6, NothingNewPending DEF AnswerTooLate, VerificationTypes
<1>7. ASSUME NEW i \in Ids, AnswerWrong(i) PROVE VerificationInv'
  <2>1. state[i] = "pending"
    BY <1>7 DEF AnswerWrong, NewestOf, Pending
  <2> QED BY <1>0, <1>7, <2>1, NothingNewPending DEF AnswerWrong, VerificationTypes
<1>8. ASSUME NEW i \in Ids, AnswerRight(i) PROVE VerificationInv'
  BY <1>0, <1>8, NothingNewPending DEF AnswerRight, VerificationTypes
<1>9. ASSUME NEW i \in Ids, Lapse(i) PROVE VerificationInv'
  BY <1>0, <1>9, NothingNewPending DEF Lapse, VerificationTypes
<1>10. CASE UNCHANGED verificationVars
  BY <1>0, <1>10, NothingNewPending DEF verificationVars, VerificationTypes
<1> QED
  BY <1>1, <1>2, <1>3, <1>4, <1>5, <1>6, <1>7, <1>8, <1>9, <1>10 DEF VerificationNext

\* However late the provider answers for whichever challenge, the only one that
\* can be answered is the last one sent.
THEOREM NewestAlone == VerificationSpec => []OnlyNewestIsPending
<1>1. VerificationInv => OnlyNewestIsPending
  BY DEF VerificationInv
<1>2. VerificationSpec => []VerificationInv
  BY VerificationInitially, VerificationStep, PTL DEF VerificationSpec
<1> QED BY <1>1, <1>2, PTL

-----------------------------------------------------------------------------
(* The rate limit. What is counted for a client is what passed of it, as   *)
(* far as it is recent: whose request it is, the check and the sweep.      *)

RateTypes ==
  /\ now \in Times
  /\ hits \in [Buckets -> [Callers -> [Times -> Nat]]]
  /\ passed \in [Buckets -> [Clients -> [Times -> Nat]]]

\* CountsItsOwn, time by time.
CountedEach ==
  \A b \in Buckets, c \in Clients : \A t \in Times :
    now - t < Window[b] => hits[b][c][t] = passed[b][c][t]

RateInv == RateTypes /\ CountedEach

LEMMA NoTimesType == NoTimes \in [Times -> Nat]
BY DEF NoTimes

\* The client's own address, over the proxy or not, whatever hops it claims.
LEMMA KeyIsTheClient ==
  ASSUME NEW c \in Clients, NEW hops \in Seq(Clients)
  PROVE  CallerKey(c, hops) = c /\ CallerKey(Proxy, Append(hops, c)) = c
<1>1. c # Proxy
  BY WindowsAreKept
<1>2. /\ Append(hops, c) # <<>>
      /\ Append(hops, c)[Len(Append(hops, c))] = c
  <2>1. Len(Append(hops, c)) = Len(hops) + 1 /\ Len(hops) \in Nat
    OBVIOUS
  <2> QED BY <2>1
<1>3. Last(Append(hops, c)) = c
  BY <1>2 DEF Last
<1> QED BY <1>1, <1>2, <1>3 DEF CallerKey

LEMMA CheckCounts ==
  ASSUME RateInv, NEW b \in Buckets, NEW c \in Clients, Check(b, c, c)
  PROVE  RateInv'
<1> DEFINE fresh == Recent(b, hits[b][c])
           passes == FoldFunction(+, 0, fresh) < Limit[b]
           counted(times) == IF passes THEN [times EXCEPT ![now] = @ + 1] ELSE times
<1>1. /\ hits' = [hits EXCEPT ![b][c] = counted(fresh)]
      /\ passed' = [passed EXCEPT ![b][c] = counted(passed[b][c])]
      /\ now' = now
  BY DEF Check
<1>2. /\ now \in Times /\ c \in Callers
      /\ hits \in [Buckets -> [Callers -> [Times -> Nat]]]
      /\ passed \in [Buckets -> [Clients -> [Times -> Nat]]]
  BY DEF RateInv, RateTypes, Callers
<1>3. fresh \in [Times -> Nat] /\ passed[b][c] \in [Times -> Nat]
  BY <1>2 DEF Recent
<1>4. ASSUME NEW times \in [Times -> Nat]
      PROVE  /\ counted(times) \in [Times -> Nat]
             /\ \A t \in Times : counted(times)[t] =
                  IF passes /\ t = now THEN times[t] + 1 ELSE times[t]
  <2> HIDE DEF passes
  <2> QED BY <1>2
<1>5. ASSUME NEW t \in Times, now - t < Window[b]
      PROVE  fresh[t] = passed[b][c][t]
  BY <1>5 DEF Recent, RateInv, CountedEach
<1> HIDE DEF fresh, passes, counted
<1>6. RateTypes'
  BY <1>1, <1>2, <1>3, <1>4 DEF RateTypes
<1>7. ASSUME NEW a \in Buckets, NEW d \in Clients, NEW t \in Times, now - t < Window[a]
      PROVE  hits'[a][d][t] = passed'[a][d][t]
  <2>1. CASE a = b /\ d = c
    <3>1. hits'[a][d] = counted(fresh) /\ passed'[a][d] = counted(passed[b][c])
      BY <1>1, <1>2, <2>1
    <3> QED BY <1>3, <1>4, <1>5, <1>7, <2>1, <3>1
  <2>2. CASE a # b \/ d # c
    <3>1. hits'[a][d] = hits[a][d] /\ passed'[a][d] = passed[a][d]
      BY <1>1, <1>2, <2>2 DEF Callers
    <3> QED BY <1>7, <3>1 DEF RateInv, CountedEach
  <2> QED BY <2>1, <2>2
<1>8. CountedEach'
  BY <1>1, <1>7 DEF CountedEach
<1> QED BY <1>6, <1>8 DEF RateInv

LEMMA RateStep == RateInv /\ [RateNext]_rateVars => RateInv'
<1> SUFFICES ASSUME RateInv, [RateNext]_rateVars PROVE RateInv'
  OBVIOUS
<1>1. ASSUME NEW b \in Buckets, NEW c \in Clients,
             NEW hops \in {<<>>} \cup {<<d>> : d \in Clients},
             Direct(b, c, hops) \/ Proxied(b, c, hops)
      PROVE  RateInv'
  <2>1. hops \in Seq(Clients)
    <3>1. CASE hops = <<>>
      BY <3>1
    <3>2. ASSUME NEW d \in Clients, hops = <<d>> PROVE hops \in Seq(Clients)
      BY <3>2
    <3> QED BY <3>1, <3>2
  <2>2. Check(b, c, c)
    <3>1. CallerKey(c, hops) = c /\ CallerKey(Proxy, Append(hops, c)) = c
      BY <2>1, KeyIsTheClient
    <3> QED BY <1>1, <3>1 DEF Direct, Proxied
  <2> QED BY <2>2, CheckCounts
<1>2. ASSUME Sweep PROVE RateInv'
  <2>1. /\ now' = now /\ passed' = passed
        /\ hits' = [b \in Buckets |-> [k \in Callers |->
             IF \A t \in Times : hits[b][k][t] > 0 => now - t > SweepAge
             THEN NoTimes ELSE hits[b][k]]]
    BY <1>2 DEF Sweep
  <2>2. RateTypes'
    BY <2>1, NoTimesType DEF RateInv, RateTypes
  <2>3. ASSUME NEW b \in Buckets, NEW c \in Clients, NEW t \in Times, now - t < Window[b]
        PROVE  hits'[b][c][t] = passed'[b][c][t]
    <3>1. hits[b][c][t] = passed[b][c][t] /\ c \in Callers
      BY <2>3 DEF RateInv, CountedEach, Callers
    <3>2. CASE \A u \in Times : hits[b][c][u] > 0 => now - u > SweepAge
      <4>1. hits'[b][c][t] = 0
        BY <2>1, <3>1, <3>2 DEF NoTimes
      <4>2. ~(now - t > SweepAge)
        BY <2>3, WindowsAreKept DEF RateInv, RateTypes, Times
      <4>3. hits[b][c][t] \in Nat
        BY <3>1 DEF RateInv, RateTypes
      <4> QED BY <2>1, <3>1, <3>2, <4>1, <4>2, <4>3
    <3>3. CASE ~\A u \in Times : hits[b][c][u] > 0 => now - u > SweepAge
      BY <2>1, <3>1, <3>3
    <3> QED BY <3>2, <3>3
  <2> QED BY <2>1, <2>2, <2>3 DEF RateInv, CountedEach
<1>3. ASSUME Tick PROVE RateInv'
  <2>1. now' = now + 1 /\ now < MaxNow /\ hits' = hits /\ passed' = passed
    BY <1>3 DEF Tick
  <2>2. RateTypes'
    BY <2>1, WindowsAreKept DEF RateInv, RateTypes, Times
  <2>3. \A b \in Buckets, t \in Times : now' - t < Window[b] => now - t < Window[b]
    BY <2>1, WindowsAreKept DEF RateInv, RateTypes, Times
  <2> QED BY <2>1, <2>2, <2>3 DEF RateInv, CountedEach
<1>4. ASSUME Restarted PROVE RateInv'
  <2>1. now' = now /\ hits' = Emptied(Callers) /\ passed' = Emptied(Clients)
    BY <1>4 DEF Restarted
  <2> QED BY <2>1, NoTimesType DEF RateInv, RateTypes, CountedEach, Emptied, Callers
<1>5. CASE UNCHANGED rateVars
  BY <1>5 DEF rateVars, RateInv, RateTypes, CountedEach
<1> QED BY <1>1, <1>2, <1>3, <1>4, <1>5 DEF RateNext

\* With any number of clients behind a proxy and before it, and any windows that
\* the sweep keeps: a client's requests, and only those, count against its limit.
THEOREM CountsEachItsOwn == RateSpec => []CountsItsOwn
<1>1. RateInit => RateInv
  <2> SUFFICES ASSUME RateInit PROVE RateInv
    OBVIOUS
  <2>1. now \in Times
    BY WindowsAreKept DEF RateInit, Times
  <2> QED
    BY <2>1, NoTimesType DEF RateInit, RateInv, RateTypes, CountedEach, Emptied, Callers
<1>2. RateInv => CountsItsOwn
  <2> SUFFICES ASSUME RateInv, NEW b \in Buckets, NEW c \in Clients
               PROVE  Recent(b, hits[b][c]) = Recent(b, passed[b][c])
    BY DEF CountsItsOwn
  <2>1. \A t \in Times : now - t < Window[b] => hits[b][c][t] = passed[b][c][t]
    BY DEF RateInv, CountedEach
  <2> QED BY <2>1 DEF Recent
<1> QED BY <1>1, <1>2, RateStep, PTL DEF RateSpec
=============================================================================
