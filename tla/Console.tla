------------------------------ MODULE Console ------------------------------
(***************************************************************************)
(* One browser tab of the back office (public/app.js): who is signed in,   *)
(* the partner its screens work on, the partner its banner names, and the  *)
(* three screens whose buttons write for a partner. A press sends a        *)
(* request; what its answer finds in S may have changed meanwhile.         *)
(*                                                                         *)
(* What the server refuses is here as far as it tells partners apart; the  *)
(* handlers themselves are in Branding and PaymentPolicy.                  *)
(***************************************************************************)
CONSTANTS
  Partners,
  Nobody,
  Platform,  \* the SuperAdmin, as the owner of a session
  Initial,   \* the partner id that S starts with, of no partner here
  Habits     \* what the user may do

ASSUME ConsoleAssumption ==
  /\ Nobody # Platform /\ {Nobody, Platform, Initial} \cap Partners = {}
  /\ Habits \subseteq {"press while answers are awaited",
                      "go from one partner to the next",
                      "sign in where another was"}

VARIABLES
  user,      \* S.session: Nobody, Platform, or the partner whose PartnerAdmin it is
  acting,    \* S.PARTNER_ID
  banner,    \* the partner in S.contextSwitchedFrom
  screen,    \* S.screen
  profile,   \* S.branding, by the partner it was read of
  media,     \* S.brandMedia, by the partner of its selected scope
  policies,  \* S.paymentPolicies, by the partner whose tree it is
  awaited,   \* the requests that are not answered
  written    \* the last write the server took: for whom, and under which banner

consoleVars ==
  <<user, acting, banner, screen, profile, media, policies, awaited, written>>

loaded == <<profile, media, policies>>
where == <<user, acting, banner>>

Screens == {"tenants", "branding", "paymentpolicy"}

MayPress ==
  user # Nobody /\ ("press while answers are awaited" \in Habits \/ awaited = {})

ConsoleInit ==
  /\ user = Nobody /\ acting = Initial /\ banner = Nobody /\ screen = "tenants"
  /\ profile = Nobody /\ media = Nobody /\ policies = Nobody
  /\ awaited = {} /\ written = Nobody

-----------------------------------------------------------------------------

\* login: only a PartnerAdmin's sets S.PARTNER_ID.
SignIn(who) ==
  /\ user = Nobody
  /\ "sign in where another was" \in Habits \/ acting = Initial
  /\ user' = who
  /\ acting' = IF who = Platform THEN acting ELSE who
  /\ screen' = IF who = Platform THEN "tenants" ELSE "branding"
  /\ UNCHANGED <<banner, loaded, awaited, written>>

\* logout forgets the session and nothing else.
SignOut ==
  /\ MayPress
  /\ user' = Nobody
  /\ UNCHANGED <<acting, banner, screen, loaded, awaited, written>>

\* The page is loaded again: S is made anew, and no answer finds it.
LoadAnew ==
  /\ user' = Nobody /\ acting' = Initial /\ banner' = Nobody /\ screen' = "tenants"
  /\ profile' = Nobody /\ media' = Nobody /\ policies' = Nobody
  /\ awaited' = {}
  /\ UNCHANGED written

\* selectTenantForAdmin asks for the partner's properties first.
Enter(p) ==
  /\ MayPress /\ user = Platform /\ screen = "tenants"
  /\ banner = Nobody \/ "go from one partner to the next" \in Habits
  /\ awaited' = awaited \cup {[does |-> "enter", of |-> p]}
  /\ UNCHANGED <<where, screen, loaded, written>>

\* Its answer moves the tab to the partner; the name is awaited once more.
Entered(p) ==
  /\ [does |-> "enter", of |-> p] \in awaited
  /\ acting' = p
  /\ awaited' = (awaited \ {[does |-> "enter", of |-> p]}) \cup {[does |-> "name", of |-> p]}
  /\ UNCHANGED <<user, banner, screen, loaded, written>>

\* A banner that is shown already stays.
Named(p) ==
  /\ [does |-> "name", of |-> p] \in awaited
  /\ banner' = IF banner = Nobody THEN p ELSE banner
  /\ awaited' = awaited \ {[does |-> "name", of |-> p]}
  /\ UNCHANGED <<user, acting, screen, loaded, written>>

\* exitPartnerContext.
Leave ==
  /\ MayPress /\ banner # Nobody
  /\ awaited' = awaited \cup {[does |-> "exit", of |-> acting]}
  /\ UNCHANGED <<where, screen, loaded, written>>

\* As it was before: only the banner went.
LeftByBanner(p) ==
  /\ [does |-> "exit", of |-> p] \in awaited
  /\ banner' = Nobody /\ screen' = "tenants"
  /\ awaited' = awaited \ {[does |-> "exit", of |-> p]}
  /\ UNCHANGED <<user, acting, loaded, written>>

Left(p) ==
  /\ [does |-> "exit", of |-> p] \in awaited
  /\ acting' = Nobody /\ banner' = Nobody /\ screen' = "tenants"
  /\ profile' = Nobody /\ media' = Nobody /\ policies' = Nobody
  /\ awaited' = awaited \ {[does |-> "exit", of |-> p]}
  /\ UNCHANGED <<user, written>>

\* setStaffScreen shows what S has and reads the screen's rows anew. Within a
\* context the sidebar leads to no screen of the platform.
Show(s) ==
  /\ MayPress
  /\ s = "tenants" => user = Platform /\ banner = Nobody
  /\ screen' = s
  /\ awaited' = awaited \cup
       (IF s = "tenants" THEN {} ELSE {[does |-> s, of |-> acting]})
  /\ UNCHANGED <<where, loaded, written>>

\* A PartnerAdmin reads their own partner, whatever they ask for.
ReadOf(p) == IF user \in Partners THEN user ELSE p

\* loadBranding, loadBrandMedia: the scope that was selected stays selected.
BrandingRead(p) ==
  /\ [does |-> "branding", of |-> p] \in awaited
  /\ awaited' = awaited \ {[does |-> "branding", of |-> p]}
  /\ profile' = ReadOf(p)
  /\ media' = IF media = Nobody THEN p ELSE media
  /\ UNCHANGED <<where, screen, policies, written>>

\* loadPaymentPolicies, of a partner that exists.
PoliciesRead(p) ==
  /\ [does |-> "paymentpolicy", of |-> p] \in awaited
  /\ awaited' = awaited \ {[does |-> "paymentpolicy", of |-> p]}
  /\ policies' = IF ReadOf(p) \in Partners THEN ReadOf(p) ELSE policies
  /\ UNCHANGED <<where, screen, profile, media, written>>

\* The server takes a write for a partner that exists, from one who may write
\* for it (assertTenantWrite).
Writes(p) ==
  /\ p \in Partners /\ user \in {Platform, p}
  /\ written' = [of |-> p, under |-> IF user = Platform THEN banner ELSE p]
  /\ UNCHANGED <<where, screen, loaded, awaited>>

\* api refuses what names another partner than the tab is at.
Refused(p) == banner # Nobody /\ p # acting

\* saveBranding names S.PARTNER_ID, and only a SuperAdmin's is taken.
SaveBranding ==
  /\ MayPress /\ screen = "branding" /\ user = Platform
  /\ ~Refused(acting)
  /\ Writes(acting)

\* uploadBrandAsset sends the selected scope in the path, past api.
Upload ==
  /\ MayPress /\ screen = "branding" /\ media # Nobody
  /\ Writes(media)

\* savePaymentPolicy and clearPaymentPolicy name a scope of the tree shown, in
\* the path, which api does not look at.
SavePolicy ==
  /\ MayPress /\ screen = "paymentpolicy" /\ policies # Nobody
  /\ Writes(policies)

ConsoleNext ==
  \/ \E who \in Partners \cup {Platform} : SignIn(who)
  \/ SignOut
  \/ LoadAnew
  \/ \E p \in Partners : Enter(p)
  \/ \E p \in Partners : Entered(p)
  \/ \E p \in Partners : Named(p)
  \/ Leave
  \/ \E p \in Partners \cup {Initial, Nobody} : Left(p)
  \/ \E s \in Screens : Show(s)
  \/ \E p \in Partners \cup {Initial, Nobody} : BrandingRead(p)
  \/ \E p \in Partners \cup {Initial, Nobody} : PoliciesRead(p)
  \/ SaveBranding
  \/ Upload
  \/ SavePolicy

ConsoleSpec == ConsoleInit /\ [][ConsoleNext]_consoleVars

-----------------------------------------------------------------------------

\* What a SuperAdmin writes for a partner is written under that partner's
\* banner, and nothing is without one: the server would take a write for any
\* partner, so that the tab be truthful is the only guard there is
\* (public/app.js:1294-1300). It holds for one who lets each answer come, leaves
\* a context before the next, and loads the page for another user.
WritesGoWhereShown == written # Nobody => written.of = written.under
=============================================================================
