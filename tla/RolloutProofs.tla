---------------------------- MODULE RolloutProofs ----------------------------
(***************************************************************************)
(* Theorems about what goes out to guests: which release on which database *)
(* file (Deployment), for any sites, releases, reset ids and any number of *)
(* starts, crashes and restores; and which mechanics to whom (MechanicLab),*)
(* for any number of versions and customers, any allocation of customers   *)
(* to buckets and any percentages.                                         *)
(***************************************************************************)
EXTENDS Deployment, MechanicLab, TLAPS

-----------------------------------------------------------------------------
(* The process and its database file.                                      *)

\* What the tables of a database can be, in the file and in every backup.
Databases ==
  [account : {"none", "barred", "usable"}, password : {Absent, "owner", "environment"},
   consumed : SUBSET ResetIds, applied : Nat,
   sites : SUBSET Sites, outlets : [Sites -> SUBSET Trades]]

\* Who has a password of their own can sign in with it.
OwnersCanEnter(f) == f.password = "owner" => f.account = "usable"

Sound(f) == f \in Databases /\ OwnersCanEnter(f)

\* The resets that the file has not forgotten are recorded in it, and so in each
\* backup those it had not forgotten when it was made.
ResetsRecorded ==
  /\ spent \ forgotten \subseteq file.consumed
  /\ \A copy \in copies : copy.spent \subseteq copy.file.consumed

\* Each stage of the boot rests on those before it.
BootedSoFar ==
  /\ process \in {"backfill", "migrate", "serving", "draining"} => file.account = "usable"
  /\ process \in {"migrate", "serving", "draining"} => Lacking = {}
  /\ process \in {"serving", "draining"} => file.applied >= environment.release

DeploymentInv ==
  /\ process \in {"down", "bootstrap", "backfill", "migrate", "serving", "draining"}
  /\ environment.release \in Nat
  /\ environment.reset \in {Absent} \cup ResetIds
  /\ Sound(file)
  /\ \A copy \in copies : Sound(copy.file)
  /\ ResetsRecorded
  /\ BootedSoFar

-----------------------------------------------------------------------------

LEMMA NoFileSound == Sound(NoFile)
BY AbsentAssumption DEF NoFile, Sound, Databases, OwnersCanEnter

LEMMA DeploymentInitially == DeploymentInit => DeploymentInv
<1> SUFFICES ASSUME DeploymentInit PROVE DeploymentInv
  OBVIOUS
<1>1. PICK account \in {"none", "barred", "usable"}, n \in {0} \cup Releases :
        file = [NoFile EXCEPT !.account = account, !.applied = n,
                              !.password = IF account = "usable" THEN "owner" ELSE Absent,
                              !.sites = IF account = "none" THEN {} ELSE Sites]
  BY DEF DeploymentInit
<1>2. n \in Nat
  BY RecoveryIsReleased
<1>3. Sound(file)
  <2>1. file = [account |-> account,
                password |-> IF account = "usable" THEN "owner" ELSE Absent,
                consumed |-> {}, applied |-> n,
                sites |-> IF account = "none" THEN {} ELSE Sites,
                outlets |-> [s \in Sites |-> {}]]
    BY <1>1 DEF NoFile
  <2>2. file \in Databases
    BY <1>2, <2>1 DEF Databases
  <2> QED BY <2>1, <2>2, AbsentAssumption DEF Sound, OwnersCanEnter
<1> QED BY <1>3 DEF DeploymentInit, DeploymentInv, ResetsRecorded, BootedSoFar

\* writeSuperAdmin leaves a sound database with a usable account.
LEMMA WrittenSound ==
  ASSUME NEW f, Sound(f)
  PROVE  /\ Sound(Written(f))
         /\ Written(f).account = "usable" /\ Written(f).consumed = f.consumed
<1>1. f \in Databases
  BY DEF Sound
<1>2. Written(f) \in Databases /\ Written(f).account = "usable"
  BY <1>1 DEF Written, Databases
<1>3. Written(f).consumed = f.consumed /\ Written(f).password = "environment"
  BY <1>1 DEF Written, Databases
<1> QED BY <1>2, <1>3 DEF Sound, OwnersCanEnter

LEMMA BootstrapStep == ASSUME DeploymentInv, EnsureBootstrap PROVE DeploymentInv'
<1>0. process = "bootstrap" /\ UNCHANGED <<environment, copies>> /\ Sound(file)
  BY DEF EnsureBootstrap, DeploymentInv
<1>1. ASSUME Sound(file'), spent' \ forgotten' \subseteq file'.consumed,
             \/ process' = "down"
             \/ process' = "backfill" /\ file'.account = "usable"
      PROVE  DeploymentInv'
  BY <1>0, <1>1 DEF DeploymentInv, ResetsRecorded, BootedSoFar
<1>2. CASE BootstrapLocked
  BY <1>0, <1>1, <1>2, WrittenSound
  DEF BootstrapLocked, Becomes, Fail, resets, DeploymentInv, ResetsRecorded
<1>3. CASE environment.reset \notin {Absent} \cup file.consumed /\ Recovers
  <2>1. environment.reset \in ResetIds
    BY <1>3 DEF DeploymentInv
  <2> DEFINE f == [Written(file) EXCEPT !.consumed = @ \cup {environment.reset}]
  <2>2. /\ Sound(f) /\ f.account = "usable"
        /\ f.consumed = file.consumed \cup {environment.reset}
    BY <1>0, <2>1, WrittenSound DEF Sound, Databases, OwnersCanEnter
  <2>3. CASE environment.named /\ file.applied >= Recovery
    <3>1. file' = f /\ process' = "backfill"
      BY <1>3, <2>3 DEF Recovers, Becomes
    <3>2. spent' \ forgotten' \subseteq f.consumed
      BY <1>3, <2>2, <2>3 DEF Recovers, Resets, DeploymentInv, ResetsRecorded
    <3> QED BY <1>1, <2>2, <3>1, <3>2
  <2>4. CASE ~(environment.named /\ file.applied >= Recovery)
    BY <1>0, <1>1, <1>3, <2>4
    DEF Recovers, Fail, resets, DeploymentInv, ResetsRecorded
  <2> QED BY <2>3, <2>4
<1>4. CASE Usable /\ Becomes("backfill", file) /\ UNCHANGED resets
  BY <1>0, <1>1, <1>4 DEF Usable, Becomes, resets, DeploymentInv, ResetsRecorded
<1> QED BY <1>2, <1>3, <1>4 DEF EnsureBootstrap

LEMMA DeploymentStep == DeploymentInv /\ [DeploymentNext]_deploymentVars => DeploymentInv'
<1> SUFFICES ASSUME DeploymentInv, [DeploymentNext]_deploymentVars PROVE DeploymentInv'
  OBVIOUS
<1>0. Sound(file) /\ file.applied \in Nat
  BY DEF DeploymentInv, Sound, Databases
<1>1. ASSUME NEW volume \in {"persistent", "image", "missing"}, NEW release \in Releases,
             NEW named \in BOOLEAN, NEW reset \in {Absent} \cup ResetIds,
             Configure(volume, release, named, reset)
      PROVE  DeploymentInv'
  BY <1>1, RecoveryIsReleased DEF Configure, DeploymentInv, ResetsRecorded, resets, BootedSoFar
<1>2. ASSUME Start PROVE DeploymentInv'
  BY <1>2, NoFileSound DEF Start, Becomes, DeploymentInv, ResetsRecorded, resets, BootedSoFar
<1>3. ASSUME EnsureBootstrap PROVE DeploymentInv'
  BY <1>3, BootstrapStep
<1>4. ASSUME NEW s \in Sites, NEW made \in SUBSET Trades, Backfill(s, made)
      PROVE  DeploymentInv'
  <2>1. Sound(file') /\ file'.account = file.account /\ file'.consumed = file.consumed
    BY <1>0, <1>4
    DEF Backfill, Becomes, Sound, Databases, OwnersCanEnter
  <2> QED BY <1>4, <2>1 DEF Backfill, Becomes, DeploymentInv, ResetsRecorded, resets, BootedSoFar
<1>5. ASSUME Backfilled PROVE DeploymentInv'
  BY <1>5 DEF Backfilled, Becomes, DeploymentInv, ResetsRecorded, resets, BootedSoFar, Lacking
<1>6. ASSUME Migrate PROVE DeploymentInv'
  <2>1. Sound(file') /\ file'.account = file.account /\ file'.consumed = file.consumed /\ Lacking' = Lacking
    BY <1>0, <1>6
    DEF Migrate, Becomes, Fail, Sound, Databases, OwnersCanEnter, Lacking
  <2> QED BY <1>6, <2>1 DEF Migrate, Becomes, Fail, DeploymentInv, ResetsRecorded, resets, BootedSoFar
<1>7. ASSUME Listen PROVE DeploymentInv'
  BY <1>7 DEF Listen, Becomes, DeploymentInv, ResetsRecorded, resets, BootedSoFar, Lacking
<1>8. ASSUME TakeOwnPassword PROVE DeploymentInv'
  <2>1. file.account = "usable"
    BY <1>8 DEF TakeOwnPassword, DeploymentInv, ResetsRecorded, resets, BootedSoFar
  <2>2. Sound(file') /\ file'.account = file.account /\ Lacking' = Lacking
          /\ file'.applied = file.applied /\ file'.consumed = file.consumed
    BY <1>0, <1>8, <2>1
    DEF TakeOwnPassword, Sound, Databases, OwnersCanEnter, Lacking
  <2> QED BY <1>8, <2>2 DEF TakeOwnPassword, DeploymentInv, ResetsRecorded, resets, BootedSoFar
<1>9. ASSUME NEW s \in Sites, NEW crashes \in BOOLEAN, Onboard(s, crashes)
      PROVE  DeploymentInv'
  <2> DEFINE new == IF crashes THEN {} ELSE {CHOOSE t \in Trades : TRUE}
  <2>1. file' = [file EXCEPT !.sites = @ \cup {s}, !.outlets[s] = new]
    BY <1>9 DEF Onboard, Becomes
  <2>2. new \in SUBSET Trades /\ (~crashes => new # {})
    BY TradesAssumption
  <2>3. /\ file.outlets \in [Sites -> SUBSET Trades] /\ file.sites \subseteq Sites
    BY <1>0 DEF Sound, Databases
  <2>4. Sound(file')
    BY <1>0, <2>1, <2>2 DEF Sound, Databases, OwnersCanEnter
  <2>5. /\ file'.account = file.account /\ file'.applied = file.applied
        /\ file'.consumed = file.consumed
    BY <1>0, <2>1 DEF Sound, Databases
  <2>6. ~crashes /\ Lacking = {} => Lacking' = {}
    BY <1>0, <2>1, <2>2, <2>3 DEF Lacking, Sound, Databases
  <2> QED BY <1>9, <2>4, <2>5, <2>6 DEF Onboard, Becomes, DeploymentInv, ResetsRecorded, resets, BootedSoFar
<1>10. ASSUME Signal PROVE DeploymentInv'
  BY <1>10 DEF Signal, DeploymentInv, ResetsRecorded, resets, BootedSoFar, Lacking
<1>11. ASSUME Exit PROVE DeploymentInv'
  BY <1>11 DEF Exit, DeploymentInv, ResetsRecorded, resets, BootedSoFar
<1>12. ASSUME Backup PROVE DeploymentInv'
  BY <1>0, <1>12 DEF Backup, DeploymentInv, ResetsRecorded, resets, BootedSoFar, Lacking
<1>13. ASSUME NEW copy \in copies, NEW dies \in BOOLEAN, Restore(copy, dies)
       PROVE  DeploymentInv'
  BY <1>13, NoFileSound DEF Restore, DeploymentInv, ResetsRecorded, resets, BootedSoFar
<1>14. CASE UNCHANGED deploymentVars
  BY <1>14 DEF deploymentVars, DeploymentInv, ResetsRecorded, resets, BootedSoFar, Lacking
<1> QED
  BY <1>1, <1>2, <1>3, <1>4, <1>5, <1>6, <1>7, <1>8, <1>9, <1>10, <1>11, <1>12,
     <1>13, <1>14 DEF DeploymentNext

THEOREM DeploymentInvariance == DeploymentSpec => []DeploymentInv
BY DeploymentInitially, DeploymentStep, PTL DEF DeploymentSpec

\* An instance that serves has a SuperAdmin who can sign in, all migrations of its
\* release and an outlet in each site, whatever crashes and restores came before.
THEOREM ServedWhole == DeploymentSpec => []ServesWhole
<1>1. DeploymentInv => ServesWhole
  BY DEF DeploymentInv, BootedSoFar, ServesWhole
<1> QED BY <1>1, DeploymentInvariance, PTL

\* A boot takes no password back that its owner chose after the reset: the owner's
\* account is usable, and a reset that the file has not forgotten is recorded in it.
LEMMA BootKeepsPassword ==
  ASSUME DeploymentInv, DeploymentNext,
         process = "bootstrap", environment.reset \in spent \ forgotten,
         file.password = "owner"
  PROVE  file'.password # "environment"
<1>1. /\ Usable
      /\ environment.reset \in file.consumed
      /\ file.password # "environment" /\ NoFile.password # "environment"
  BY AbsentAssumption
  DEF DeploymentInv, Sound, ResetsRecorded, OwnersCanEnter, Usable, NoFile
<1>2. CASE EnsureBootstrap
  BY <1>1, <1>2 DEF EnsureBootstrap, BootstrapLocked, Becomes
<1>3. CASE file' = file
  BY <1>1, <1>3
<1>4. process # "bootstrap" \/ EnsureBootstrap \/ file' = file
  BY DEF DeploymentNext, Configure, Start, Backfill, Backfilled, Migrate, Listen,
         TakeOwnPassword, Onboard, Signal, Exit, Backup, Restore
<1> QED BY <1>2, <1>3, <1>4

\* A reset id left configured is harmless: through refused starts, crashes at any
\* step of the boot, upgrades over the release that brought the table it is
\* recorded in, and restores, but for that of a backup from before its reset.
THEOREM OwnPasswordKept == DeploymentSpec => OwnPasswordStays
<1>1. DeploymentInv /\ [DeploymentNext]_deploymentVars =>
        [\A r \in spent \ forgotten :
           process = "bootstrap" /\ environment.reset = r /\ file.password = "owner"
             => file'.password # "environment"]_deploymentVars
  BY BootKeepsPassword
<1> QED BY <1>1, DeploymentInvariance, PTL DEF DeploymentSpec, OwnPasswordStays

-----------------------------------------------------------------------------
(* The mechanics.                                                          *)

(* What the two properties rest on: no share is ever above the hard ceiling, *)
(* a mechanic is served first in a canary, and to customers of its share.    *)

\* Every column has its type.
LabTypeOK ==
  /\ lifecycle \in [Versions -> LabStates \cup {"none"}]
  /\ share \in [Versions -> Nat]
  /\ been \in [Versions -> SUBSET LabStates]
  /\ served \in [Versions -> Nat]
  /\ reached \in [Versions -> SUBSET Customers]
  /\ minSample \in Nat \ {0}

\* No version asks for more than the hard ceiling.
SharesBounded == \A v \in Versions : share[v] <= HardMax

\* A version is where it is recorded to have been.
RecordedWhereItIs ==
  \A v \in Versions \ {0} :
    lifecycle[v] \in {"canary", "promoted"} => lifecycle[v] \in been[v]

\* A version has moments only if it was in a canary, and then for somebody.
ServedInCanary ==
  \A v \in Versions \ {0} :
    /\ served[v] > 0 => reached[v] # {}
    /\ reached[v] # {} => "canary" \in been[v]

LabInv ==
  /\ LabTypeOK
  /\ SharesBounded
  /\ RecordedWhereItIs
  /\ ServedInCanary
  /\ OnlyTheShareIsExposed
  /\ PromotedWasTried

LEMMA LabInitially == LabInit => LabInv
BY LabAssumption
DEF LabInit, LabInv, LabTypeOK, SharesBounded, RecordedWhereItIs, ServedInCanary,
    OnlyTheShareIsExposed, PromotedWasTried, Versions, LabStates

(* The steps that touch neither the path of a version nor its guests. *)

LEMMA PathUntouched ==
  ASSUME LabInv, share' = share, been' = been, served' = served, reached' = reached,
         minSample' \in Nat \ {0},
         lifecycle' \in [Versions -> LabStates \cup {"none"}],
         \A v \in Versions : lifecycle'[v] \in {"canary", "promoted"} =>
                               lifecycle'[v] = lifecycle[v]
  PROVE  LabInv'
BY DEF LabInv, LabTypeOK, SharesBounded, RecordedWhereItIs, ServedInCanary,
       OnlyTheShareIsExposed, PromotedWasTried

\* A version enters another state: its share stays below the ceiling, and if it
\* enters promotion it has been sampled.
LEMMA Entering ==
  ASSUME LabInv, NEW v \in Versions, NEW to \in LabStates, NEW percentage \in Nat,
         EntersState(v, to, percentage),
         percentage <= HardMax,
         to = "promoted" => v = 0 \/ served[v] >= minSample
  PROVE  LabInv'
<1> USE LabAssumption DEF EntersState
<1>1. LabTypeOK'
  BY DEF LabInv, LabTypeOK, LabStates
<1>2. SharesBounded'
  BY DEF LabInv, LabTypeOK, SharesBounded
<1>3. RecordedWhereItIs'
  BY DEF LabInv, LabTypeOK, RecordedWhereItIs
<1>4. ServedInCanary'
  BY DEF LabInv, LabTypeOK, ServedInCanary
<1>5. \A w \in Versions : been[w] \subseteq been'[w]
  BY DEF LabInv, LabTypeOK
<1>6. OnlyTheShareIsExposed'
  BY <1>5 DEF LabInv, OnlyTheShareIsExposed
<1>7. PromotedWasTried'
  <2> SUFFICES ASSUME NEW w \in Versions \ {0}, "promoted" \in been'[w]
               PROVE  /\ "canary" \in been'[w]
                      /\ \E c \in reached[w] : Bucket[c][w] < HardMax
    BY DEF PromotedWasTried
  <2>1. CASE "promoted" \in been[w]
    BY <2>1, <1>5 DEF LabInv, PromotedWasTried
  <2>2. CASE "promoted" \notin been[w]
    <3>1. w = v /\ to = "promoted"
      BY <2>2 DEF LabInv, LabTypeOK
    <3>2. served[w] > 0
      BY <3>1 DEF LabInv, LabTypeOK
    <3>3. reached[w] # {} /\ "canary" \in been[w]
      BY <3>2 DEF LabInv, ServedInCanary
    <3>4. PICK c \in reached[w] : TRUE
      BY <3>3
    <3>5. Bucket[c][w] < HardMax
      BY <2>2, <3>4 DEF LabInv, OnlyTheShareIsExposed
    <3> QED BY <3>3, <3>4, <3>5, <1>5
  <2> QED BY <2>1, <2>2
<1> QED BY <1>1, <1>2, <1>3, <1>4, <1>6, <1>7 DEF LabInv

\* A guest is shown a canary only within its share.
LEMMA Serving ==
  ASSUME LabInv, NEW c \in Customers, NEW v \in Versions, Serve(c, v)
  PROVE  LabInv'
<1> USE LabAssumption DEF Serve
<1>1. \/ lifecycle[v] = "promoted"
      \/ lifecycle[v] = "canary" /\ Bucket[c][v] < share[v]
  BY DEF Eligible, NewestIn, IsAllocatedToCanary
<1>2. Bucket[c][v] \in Nat
  OBVIOUS
<1>3. lifecycle[v] = "canary" => Bucket[c][v] < HardMax
  BY <1>1, <1>2 DEF LabInv, LabTypeOK, SharesBounded
<1>4. v # 0 => "canary" \in been[v]
  BY <1>1 DEF LabInv, RecordedWhereItIs, PromotedWasTried
<1>5. LabTypeOK'
  BY DEF LabInv, LabTypeOK
<1>6. SharesBounded' /\ RecordedWhereItIs'
  BY DEF LabInv, SharesBounded, RecordedWhereItIs
<1>7. ServedInCanary'
  BY <1>4 DEF LabInv, LabTypeOK, ServedInCanary
<1>8. OnlyTheShareIsExposed'
  BY <1>1, <1>3 DEF LabInv, LabTypeOK, OnlyTheShareIsExposed, RecordedWhereItIs
<1>9. PromotedWasTried'
  BY DEF LabInv, LabTypeOK, PromotedWasTried
<1> QED BY <1>5, <1>6, <1>7, <1>8, <1>9 DEF LabInv

LEMMA LabStep == LabInv /\ [LabNext]_labVars => LabInv'
<1> SUFFICES ASSUME LabInv, [LabNext]_labVars PROVE LabInv'
  OBVIOUS
<1> USE LabAssumption
<1>0. LabTypeOK
  BY DEF LabInv
<1>1. ASSUME NEW v \in Versions, Propose(v) PROVE LabInv'
  BY <1>0, <1>1, PathUntouched DEF Propose, LabTypeOK, LabStates
<1>2. ASSUME NEW v \in Versions, Simulate(v) PROVE LabInv'
  BY <1>0, <1>2, PathUntouched DEF Simulate, LabTypeOK
<1>3. ASSUME NEW v \in Versions, RaiseIncident(v) PROVE LabInv'
  BY <1>0, <1>3, PathUntouched DEF RaiseIncident, LabTypeOK
<1>4. ASSUME NEW v \in Versions, ResolveIncident(v) PROVE LabInv'
  BY <1>0, <1>4, PathUntouched DEF ResolveIncident, LabTypeOK
<1>5. ASSUME NEW v \in Versions, NEW to \in LabStates, NEW p \in Percentages,
             Advance(v, to, p)
      PROVE  LabInv'
  <2> DEFINE percentage == IF to = "canary" THEN p ELSE share[v]
  <2>1. EntersState(v, to, percentage)
    BY <1>5 DEF Advance
  <2>2. percentage \in Nat /\ percentage <= HardMax
    BY <1>0, <1>5 DEF Advance, WithinHardMax, LabTypeOK, LabInv, SharesBounded
  <2>3. to = "promoted" => served[v] >= minSample
    BY <1>5 DEF Advance, MayPromote
  <2> QED BY <2>1, <2>2, <2>3, Entering
<1>6. ASSUME NEW v \in Versions, NEW to \in LabStates, Kill(v, to) PROVE LabInv'
  <2>1. EntersState(v, to, share[v]) /\ to # "promoted"
    BY <1>6 DEF Kill
  <2>2. share[v] \in Nat /\ share[v] <= HardMax
    BY <1>0 DEF LabTypeOK, LabInv, SharesBounded
  <2> QED BY <2>1, <2>2, Entering
<1>7. ASSUME NEW n \in Samples, SetMinSample(n) PROVE LabInv'
  <2>1. minSample' \in Nat \ {0}
    BY <1>0, <1>7 DEF SetMinSample, LabTypeOK
  <2> QED BY <1>0, <1>7, <2>1, PathUntouched DEF SetMinSample, LabTypeOK
<1>8. ASSUME NEW c \in Customers, NEW v \in Versions, Serve(c, v) PROVE LabInv'
  BY <1>8, Serving
<1>9. CASE UNCHANGED labVars
  BY <1>0, <1>9, PathUntouched DEF labVars, LabTypeOK
<1> QED BY <1>1, <1>2, <1>3, <1>4, <1>5, <1>6, <1>7, <1>8, <1>9 DEF LabNext

THEOREM LabInvariance == LabSpec => []LabInv
BY LabInitially, LabStep, PTL DEF LabSpec

\* Whatever way a mechanic took to promotion, the kill switch's shortcuts among
\* them, it has shown itself in a canary to a customer a canary is for.
THEOREM TriedBeforePromotion == LabSpec => []PromotedWasTried
<1>1. LabInv => PromotedWasTried
  BY DEF LabInv
<1> QED BY <1>1, LabInvariance, PTL

\* Until a mechanic is promoted nobody outside the hard ceiling's share has seen it.
THEOREM ExposureBounded == LabSpec => []OnlyTheShareIsExposed
<1>1. LabInv => OnlyTheShareIsExposed
  BY DEF LabInv
<1> QED BY <1>1, LabInvariance, PTL
=============================================================================
