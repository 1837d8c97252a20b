---------------------------- MODULE EngageOutbox ----------------------------
(***************************************************************************)
(* The consumer of the transactional outbox: lib/engage-worker.js turns    *)
(* the confirmation of an order into an Engage pass, or skips it, with     *)
(* retries, backoff and a dead letter.                                     *)
(*                                                                         *)
(* processOutboxOnce runs without interruption by other code of the        *)
(* process, but each of its statements commits by itself, so a crash or an *)
(* exception may separate the insertion of a pass from the mark on the row *)
(* that asked for it.                                                      *)
(***************************************************************************)
EXTENDS EngageFlags

CONSTANTS
  Rows,         \* the engage_outbox rows, each of an order of its own
  NoRow,        \* the worker is between two rows
  MaxAttempts,  \* the column max_attempts
  MaxCrashes    \* bound on the crashes of a behaviour

ASSUME NoRowAssumption == NoRow \notin Rows
ASSUME MaxAttemptsAssumption == MaxAttempts \in Nat \ {0}
ASSUME MaxCrashesAssumption == MaxCrashes \in Nat

VARIABLES
  status,    \* engage_outbox.status, "none" before the row exists
  attempts,  \* engage_outbox.attempts
  waiting,   \* next_attempt_at lies in the future
  passes,    \* the engage_pass rows inserted for the row's order
  batch,     \* the rows this poll selected and has not come to the end of
  issuing,   \* the row whose pass is inserted and which is not yet marked
  crashes    \* so far

rowVars == <<status, attempts, waiting>>
vars == <<rowVars, passes, batch, issuing, crashes, flagVars>>

Settled == {"processed", "skipped", "dead_letter"}

Init ==
  /\ status = [r \in Rows |-> "none"]
  /\ attempts = [r \in Rows |-> 0]
  /\ waiting = [r \in Rows |-> FALSE]
  /\ passes = [r \in Rows |-> 0]
  /\ batch = {}
  /\ issuing = NoRow
  /\ crashes = 0
  /\ FlagsInit

\* The transaction that clears an order inserts its row, whatever the flags.
Confirm(r) ==
  /\ batch = {}
  /\ status[r] = "none"
  /\ status' = [status EXCEPT ![r] = "pending"]
  /\ UNCHANGED <<attempts, waiting, passes, batch, issuing, crashes, flagVars>>

EligibleOnce == {r \in Rows : status[r] = "pending" /\ attempts[r] = 0}

Eligible == {r \in Rows : status[r] = "pending" /\ ~waiting[r]}

\* setInterval fires. The rows are taken oldest first, an order nothing here
\* depends on.
Poll ==
  /\ batch = {}
  /\ Eligible # {}
  /\ batch' = Eligible
  /\ UNCHANGED <<rowVars, passes, issuing, crashes, flagVars>>

\* A row's turn ends: with a status, one attempt more and, if it must be
\* retried, a date for that.
Ends(r, outcome, backoff) ==
  /\ status' = [status EXCEPT ![r] = outcome]
  /\ attempts' = [attempts EXCEPT ![r] = @ + 1]
  /\ waiting' = [waiting EXCEPT ![r] = backoff]
  /\ batch' = batch \ {r}
  /\ issuing' = NoRow
  /\ UNCHANGED <<crashes, flagVars>>

Skip(r) ==
  /\ r \in batch
  /\ issuing = NoRow
  /\ ~EngageOn
  /\ Ends(r, "skipped", FALSE)
  /\ UNCHANGED passes

\* INSERT INTO engage_pass.
Issue(r) ==
  /\ r \in batch
  /\ issuing = NoRow
  /\ EngageOn
  /\ passes' = [passes EXCEPT ![r] = @ + 1]
  /\ issuing' = r
  /\ UNCHANGED <<rowVars, batch, crashes, flagVars>>

MarkProcessed(r) ==
  /\ issuing = r
  /\ Ends(r, "processed", FALSE)
  /\ UNCHANGED passes

FailUnmarked(r) ==
  /\ r \in batch
  /\ issuing \in {NoRow, r}
  /\ batch' = batch \ {r}
  /\ issuing' = NoRow
  /\ UNCHANGED <<rowVars, passes, crashes, flagVars>>

\* The catch: something threw, before the pass was inserted or after.
Fail(r) ==
  /\ r \in batch
  /\ issuing \in {NoRow, r}
  /\ IF attempts[r] + 1 >= MaxAttempts
       THEN Ends(r, "dead_letter", FALSE)
       ELSE Ends(r, "pending", TRUE)
  /\ UNCHANGED passes

BackoffElapses(r) ==
  /\ batch = {}
  /\ waiting[r]
  /\ waiting' = [waiting EXCEPT ![r] = FALSE]
  /\ UNCHANGED <<status, attempts, passes, batch, issuing, crashes, flagVars>>

\* The process dies and is started again; what was committed stays.
Crash ==
  /\ crashes < MaxCrashes
  /\ crashes' = crashes + 1
  /\ batch' = {}
  /\ issuing' = NoRow
  /\ UNCHANGED <<rowVars, passes, flagVars>>

\* An administrator's request is handled between polls.
SetFlags ==
  /\ batch = {}
  /\ FlagsNext
  /\ UNCHANGED <<rowVars, passes, batch, issuing, crashes>>

Works == \E r \in Rows : Skip(r) \/ Issue(r) \/ MarkProcessed(r) \/ Fail(r)

Next ==
  \/ \E r \in Rows : Confirm(r) \/ BackoffElapses(r)
  \/ Poll
  \/ Works
  \/ Crash
  \/ SetFlags

Spec == Init /\ [][Next]_vars

\* The interval keeps firing, time passes, and a poll that began is executed
\* to its end unless the process dies.
Fairness ==
  /\ WF_vars(Poll)
  /\ WF_vars(Works)
  /\ \A r \in Rows : WF_vars(BackoffElapses(r))

FairSpec == Spec /\ Fairness

-----------------------------------------------------------------------------

\* Every column has its type; only a pending row waits for a retry, and the
\* row in the middle of its turn is one of the batch.
TypeOK ==
  /\ FlagsTypeOK
  /\ status \in [Rows -> Settled \cup {"none", "pending"}]
  /\ attempts \in [Rows -> 0..MaxAttempts]
  /\ waiting \in [Rows -> BOOLEAN]
  /\ passes \in [Rows -> Nat]
  /\ batch \subseteq {r \in Rows : status[r] = "pending" /\ ~waiting[r]}
  /\ issuing \in batch \cup {NoRow}
  /\ crashes \in 0..MaxCrashes

\* The passes of an order are accounted for: one for each attempt on its row
\* and one for each crash, which is what a repetition costs.
PassesAreAccountedFor ==
  \A r \in Rows :
    passes[r] <= attempts[r] + crashes + IF issuing = r THEN 1 ELSE 0

\* A confirmation is given up only when all its attempts are used, and is
\* never attempted more often.
DeadOnlyWhenExhausted ==
  \A r \in Rows : /\ status[r] = "dead_letter" => attempts[r] = MaxAttempts
                  /\ status[r] = "pending" => attempts[r] < MaxAttempts

\* No pass is issued against the kill switch or without a contract, however
\* the overrides are set and however long the row waited for its retry.
ProhibitionsHold ==
  [][\A r \in Rows : passes'[r] > passes[r] => killSwitch /\ contract]_vars

Stage(r) ==
  CASE status[r] = "processed"   -> "issued"
    [] status[r] = "skipped"     -> "declined"
    [] status[r] = "dead_letter" -> "abandoned"
    [] OTHER                     -> status[r]

Promise == INSTANCE EventDelivery WITH
  Events <- Rows, stage <- [r \in Rows |-> Stage(r)]

\* Every confirmation is settled in the end and for good, and as issued only
\* after its pass was inserted, through failures, retries and crashes.
DeliversEvents == Promise!Spec
=============================================================================
