----------------------------- MODULE Deployment -----------------------------
(***************************************************************************)
(* One production instance and its database file, through deployments,     *)
(* upgrades, crashes, backups and restores: what db.js does before         *)
(* server.js may listen (the SuperAdmin there must be, the outlets that    *)
(* older sites lack, the migrations of lib/migrate.js), the shutdown, and  *)
(* scripts/backup-restore.js.                                              *)
(*                                                                         *)
(* Of the users only the account that the environment names is here, and   *)
(* of the file's tables what the boot reads and writes.                    *)
(***************************************************************************)
EXTENDS Naturals, FiniteSets

CONSTANTS
  Absent,
  ResetIds,   \* values of ADMIN_BOOTSTRAP_RESET_ID
  Sites,      \* properties
  Trades,     \* the merchants that a site of Phase 3 has
  Releases,   \* releases, each by the number of migrations it carries
  Recovery,   \* the migration that creates bootstrap_recovery
  MaxStarts   \* processes started, a bound for TLC

ASSUME RecoveryIsReleased == Recovery \in Nat /\ Releases \subseteq Nat
ASSUME TradesAssumption == Trades # {}
ASSUME AbsentAssumption == Absent \notin ResetIds \cup {"owner", "environment"}

VARIABLES
  file,         \* the tables of the database
  environment,  \* the variables of the deployment
  process,      \* "down", "bootstrap", "backfill", "migrate", "serving", "draining"
  copies,       \* the backups kept, each with the ids that its file had not forgotten
  starts,       \* processes started so far
  spent,        \* the ids that ever did reset the account, whatever the file says of it
  forgotten     \* those of them whose reset a file from before it has undone

deploymentVars == <<file, environment, process, copies, starts, spent, forgotten>>
resets == <<spent, forgotten>>

NoFile ==
  [account |-> "none", password |-> Absent, consumed |-> {},
   applied |-> 0, sites |-> {}, outlets |-> [s \in Sites |-> {}]]

Fail == process' = "down" /\ UNCHANGED file

Becomes(next, f) == process' = next /\ file' = f

-----------------------------------------------------------------------------

\* A new volume, or the database of any older release: the account that the
\* environment names may be missing, barred from signing in, or usable.
DeploymentInit ==
  /\ process = "down" /\ starts = 0 /\ copies = {}
  /\ spent = {} /\ forgotten = {}
  /\ environment = [volume |-> "missing", release |-> 0, named |-> FALSE, reset |-> Absent]
  /\ \E account \in {"none", "barred", "usable"}, n \in {0} \cup Releases :
       file = [NoFile EXCEPT !.account = account, !.applied = n,
                             !.password = IF account = "usable" THEN "owner" ELSE Absent,
                             !.sites = IF account = "none" THEN {} ELSE Sites]

\* The operator sets the variables: where the volume is, which release runs,
\* whether the bootstrap's name and password are there, and a reset id.
Configure(volume, release, named, reset) ==
  /\ process = "down"
  /\ environment' = [volume |-> volume, release |-> release, named |-> named, reset |-> reset]
  /\ UNCHANGED <<file, process, copies, starts, resets>>

\* resolveDbPath: there is no start without a directory that can be written.
\* One within the container's image is only warned of, and starts empty.
Start ==
  /\ process = "down"
  /\ environment.volume # "missing"
  /\ starts < MaxStarts
  /\ starts' = starts + 1
  /\ Becomes("bootstrap", IF environment.volume = "image" THEN NoFile ELSE file)
  /\ forgotten' = IF environment.volume = "image" THEN spent ELSE forgotten
  /\ UNCHANGED <<environment, copies, spent>>

\* As if it were enough that there are users.
AnyUser == file.account # "none"

\* usableSuperAdmins asks for what login asks.
Usable == file.account = "usable"

\* writeSuperAdmin creates the named account, or repairs it.
Written(f) == [f EXCEPT !.account = "usable", !.password = "environment"]

\* With no usable SuperAdmin the named one is written whatever the reset id,
\* which this does not consume; with no name there is no start.
BootstrapLocked ==
  /\ ~Usable
  /\ IF environment.named THEN Becomes("backfill", Written(file)) ELSE Fail
  /\ UNCHANGED resets

\* The environment's id resets the account of the file in use.
Resets(id) == spent' = spent \cup {id} /\ forgotten' = forgotten \ {id}

\* As if the id were recorded on its own, and a failure to do so let pass.
RecoversByParts ==
  IF environment.named
  THEN /\ Becomes("backfill",
            [Written(file) EXCEPT
               !.consumed = IF file.applied >= Recovery THEN @ \cup {environment.reset} ELSE @])
       /\ Resets(environment.reset)
  ELSE Fail /\ UNCHANGED resets

\* The reset, its consumption and its audit are one transaction, rolled back
\* where the table is yet to be created by a migration.
Recovers ==
  IF environment.named /\ file.applied >= Recovery
  THEN /\ Becomes("backfill", [Written(file) EXCEPT !.consumed = @ \cup {environment.reset}])
       /\ Resets(environment.reset)
  ELSE Fail /\ UNCHANGED resets

\* ensureBootstrapSuperAdmin.
EnsureBootstrap ==
  /\ process = "bootstrap"
  /\ \/ BootstrapLocked
     \/ /\ Usable
        /\ environment.reset \notin {Absent} \cup file.consumed
        /\ Recovers
     \/ /\ Usable
        /\ environment.reset \in {Absent} \cup file.consumed
        /\ Becomes("backfill", file)
        /\ UNCHANGED resets
  /\ UNCHANGED <<environment, copies, starts>>

Lacking == {s \in file.sites : file.outlets[s] = {}}

\* migratePhase4Outlets gives a site without outlets one for each merchant, a
\* statement each: a crash between them leaves the site with some.
Backfill(s, made) ==
  /\ process = "backfill"
  /\ s \in Lacking
  /\ made \subseteq Trades /\ made # {}
  /\ Becomes(IF made = Trades THEN "backfill" ELSE "down", [file EXCEPT !.outlets[s] = made])
  /\ UNCHANGED <<environment, copies, starts, resets>>

Backfilled ==
  /\ process = "backfill"
  /\ Lacking = {}
  /\ Becomes("migrate", file)
  /\ UNCHANGED <<environment, copies, starts, resets>>

\* runMigrations: the next one and its record in one transaction, or none of
\* both and no start. What a later release applied is not looked at.
Migrate ==
  /\ process = "migrate"
  /\ file.applied < environment.release
  /\ \/ Becomes("migrate", [file EXCEPT !.applied = @ + 1])
     \/ Fail
  /\ UNCHANGED <<environment, copies, starts, resets>>

Listen ==
  /\ process = "migrate"
  /\ file.applied >= environment.release
  /\ Becomes("serving", file)
  /\ UNCHANGED <<environment, copies, starts, resets>>

\* The account's owner takes a password of their own (Access).
TakeOwnPassword ==
  /\ process = "serving"
  /\ file' = [file EXCEPT !.password = "owner"]
  /\ UNCHANGED <<environment, process, copies, starts, resets>>

\* POST /api/admin/onboard writes the site, its merchant and its outlet one
\* by one.
Onboard(s, crashes) ==
  /\ process = "serving"
  /\ s \notin file.sites
  /\ Becomes(IF crashes THEN "down" ELSE "serving",
             [file EXCEPT !.sites = @ \cup {s},
                          !.outlets[s] = IF crashes THEN {} ELSE {CHOOSE t \in Trades : TRUE}])
  /\ UNCHANGED <<environment, copies, starts, resets>>

\* gracefulShutdown: /ready answers 503 and no connection is accepted.
Signal ==
  /\ process = "serving"
  /\ process' = "draining"
  /\ UNCHANGED <<file, environment, copies, starts, resets>>

\* The last request ends, the ten seconds pass, or the process is killed.
Exit ==
  /\ process # "down"
  /\ process' = "down"
  /\ UNCHANGED <<file, environment, copies, starts, resets>>

\* backup: a consistent snapshot beside the running server, kept if verify
\* finds migrations in it.
Backup ==
  /\ process = "serving"
  /\ file.applied > 0
  /\ copies' = {[file |-> file, spent |-> spent \ forgotten]}
  /\ UNCHANGED <<file, environment, process, starts, resets>>

\* restore puts the old file aside and copies the backup to its place; one
\* that dies in between leaves none. The ids spent since are not in it.
Restore(copy, dies) ==
  /\ process = "down"
  /\ copy \in copies
  /\ file' = IF dies THEN NoFile ELSE copy.file
  /\ forgotten' = IF dies THEN spent ELSE spent \ copy.spent
  /\ UNCHANGED <<environment, process, copies, starts, spent>>

DeploymentNext ==
  \/ \E volume \in {"persistent", "image", "missing"}, release \in Releases,
        named \in BOOLEAN, reset \in {Absent} \cup ResetIds :
       Configure(volume, release, named, reset)
  \/ Start
  \/ EnsureBootstrap
  \/ \E s \in Sites, made \in SUBSET Trades : Backfill(s, made)
  \/ Backfilled
  \/ Migrate
  \/ Listen
  \/ TakeOwnPassword
  \/ \E s \in Sites, crashes \in BOOLEAN : Onboard(s, crashes)
  \/ Signal
  \/ Exit
  \/ Backup
  \/ \E copy \in copies, dies \in BOOLEAN : Restore(copy, dies)

DeploymentSpec == DeploymentInit /\ [][DeploymentNext]_deploymentVars

-----------------------------------------------------------------------------

\* A reset id that has reset the password never takes back the one that its
\* owner chose since, so it is harmless to leave it configured: through refused
\* starts, crashes at any step of the boot, upgrades over the release that
\* brought the table it is recorded in, and restores of backups made after the
\* reset (ensureBootstrapSuperAdmin, markRecoveryConsumed). A file from before
\* the reset has forgotten it: there the id resets once more, and only once.
OwnPasswordStays ==
  [][\A r \in spent \ forgotten :
       process = "bootstrap" /\ environment.reset = r /\ file.password = "owner"
         => file'.password # "environment"]_deploymentVars

\* An instance that serves has a SuperAdmin who can sign in, all migrations of
\* its release and an outlet in each of its sites, whatever database it was
\* started on and wherever an earlier process died in the boot or in an
\* onboarding (db.js, lib/migrate.js).
ServesWhole ==
  process = "serving" =>
    /\ file.account = "usable"
    /\ file.applied >= environment.release
    /\ Lacking = {}
=============================================================================
