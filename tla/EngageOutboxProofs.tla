------------------------- MODULE EngageOutboxProofs -------------------------
(***************************************************************************)
(* Proofs about the outbox consumer, for any number of rows, attempts and  *)
(* crashes.                                                                *)
(***************************************************************************)
EXTENDS EngageOutbox, TLAPS

\* Why DeadOnlyWhenExhausted is kept: a row that does not exist yet has not
\* been attempted, and a row in the middle of its turn has a pass.
AttemptsInv ==
  /\ \A r \in Rows : status[r] = "none" => attempts[r] = 0
  /\ issuing # NoRow => passes[issuing] > 0

IInv == TypeOK /\ DeadOnlyWhenExhausted /\ AttemptsInv /\ PassesAreAccountedFor

\* The flags keep their types.
LEMMA FlagsStep == FlagsTypeOK /\ FlagsNext => FlagsTypeOK'
<1> SUFFICES ASSUME FlagsTypeOK, NEW enabled \in BOOLEAN,
                    \/ SetKillSwitch(enabled)
                    \/ SetContract(enabled)
                    \/ \E s \in Scopes : SetOverride(s, enabled)
             PROVE  FlagsTypeOK'
  BY DEF FlagsNext
<1>1. CASE SetKillSwitch(enabled)
  BY <1>1 DEF SetKillSwitch, FlagsTypeOK
<1>2. CASE SetContract(enabled)
  BY <1>2 DEF SetContract, FlagsTypeOK
<1>3. ASSUME NEW s \in Scopes, SetOverride(s, enabled) PROVE FlagsTypeOK'
  <2>1. Append(overrides[s], enabled) \in Seq(BOOLEAN)
    BY DEF FlagsTypeOK
  <2> QED BY <1>3, <2>1 DEF SetOverride, FlagsTypeOK
<1> QED BY <1>1, <1>2, <1>3

\* The end of a row's turn, whatever it is, keeps the invariant: the attempt
\* is counted, and the row leaves the batch.
LEMMA EndsStep ==
  ASSUME IInv, NEW r \in batch, issuing \in {NoRow, r},
         NEW outcome \in Settled \cup {"pending"}, NEW backoff \in BOOLEAN,
         Ends(r, outcome, backoff), passes' = passes,
         outcome = "pending" => attempts[r] + 1 < MaxAttempts,
         outcome = "dead_letter" => attempts[r] + 1 >= MaxAttempts
  PROVE  IInv'
<1> USE NoRowAssumption, MaxAttemptsAssumption, MaxCrashesAssumption
<1>1. r \in Rows /\ status[r] = "pending" /\ attempts[r] < MaxAttempts
  BY DEF IInv, TypeOK, DeadOnlyWhenExhausted
<1>2. TypeOK'
  <2>1. FlagsTypeOK'
    BY DEF IInv, TypeOK, FlagsTypeOK, Ends, flagVars
  <2>2. /\ status' \in [Rows -> Settled \cup {"none", "pending"}]
        /\ attempts' \in [Rows -> 0..MaxAttempts]
        /\ waiting' \in [Rows -> BOOLEAN]
        /\ passes' \in [Rows -> Nat]
    BY <1>1 DEF IInv, TypeOK, Ends
  <2>3. batch' \subseteq {p \in Rows : status'[p] = "pending" /\ ~waiting'[p]}
    BY <1>1 DEF IInv, TypeOK, Ends
  <2>4. issuing' \in batch' \cup {NoRow} /\ crashes' \in 0..MaxCrashes
    BY DEF IInv, TypeOK, Ends
  <2> QED BY <2>1, <2>2, <2>3, <2>4 DEF TypeOK
<1>3. DeadOnlyWhenExhausted'
  BY <1>1 DEF IInv, TypeOK, DeadOnlyWhenExhausted, Ends
<1>4. AttemptsInv'
  BY <1>1 DEF IInv, TypeOK, AttemptsInv, Ends, Settled
<1>5. PassesAreAccountedFor'
  BY <1>1 DEF IInv, TypeOK, PassesAreAccountedFor, Ends
<1> QED BY <1>2, <1>3, <1>4, <1>5 DEF IInv

\* Every step keeps the invariant.
LEMMA InvStep == IInv /\ [Next]_vars => IInv'
<1> SUFFICES ASSUME IInv, [Next]_vars PROVE IInv'
  OBVIOUS
<1> USE NoRowAssumption, MaxAttemptsAssumption, MaxCrashesAssumption
<1>1. ASSUME NEW r \in Rows, Confirm(r) PROVE IInv'
  <2>1. FlagsTypeOK'
    BY <1>1 DEF IInv, TypeOK, FlagsTypeOK, Confirm, flagVars
  <2>2. TypeOK'
    BY <1>1, <2>1 DEF IInv, TypeOK, Confirm
  <2>3. DeadOnlyWhenExhausted' /\ AttemptsInv' /\ PassesAreAccountedFor'
    BY <1>1 DEF IInv, TypeOK, DeadOnlyWhenExhausted, AttemptsInv,
                PassesAreAccountedFor, Confirm
  <2> QED BY <2>2, <2>3 DEF IInv
<1>2. ASSUME NEW r \in Rows, BackoffElapses(r) PROVE IInv'
  <2>1. FlagsTypeOK'
    BY <1>2 DEF IInv, TypeOK, FlagsTypeOK, BackoffElapses, flagVars
  <2>2. TypeOK'
    BY <1>2, <2>1 DEF IInv, TypeOK, BackoffElapses
  <2>3. DeadOnlyWhenExhausted' /\ AttemptsInv' /\ PassesAreAccountedFor'
    BY <1>2 DEF IInv, DeadOnlyWhenExhausted, AttemptsInv,
                PassesAreAccountedFor, BackoffElapses
  <2> QED BY <2>2, <2>3 DEF IInv
<1>3. CASE Poll
  <2>1. FlagsTypeOK'
    BY <1>3 DEF IInv, TypeOK, FlagsTypeOK, Poll, rowVars, flagVars
  <2>2. TypeOK'
    BY <1>3, <2>1 DEF IInv, TypeOK, Poll, Eligible, rowVars
  <2>3. DeadOnlyWhenExhausted' /\ AttemptsInv' /\ PassesAreAccountedFor'
    BY <1>3 DEF IInv, DeadOnlyWhenExhausted, AttemptsInv,
                PassesAreAccountedFor, Poll, rowVars
  <2> QED BY <2>2, <2>3 DEF IInv
<1>4. ASSUME NEW r \in Rows, Skip(r) PROVE IInv'
  BY <1>4, EndsStep DEF Skip, Settled
<1>5. ASSUME NEW r \in Rows, Issue(r) PROVE IInv'
  <2>1. FlagsTypeOK'
    BY <1>5 DEF IInv, TypeOK, FlagsTypeOK, Issue, flagVars
  <2>2. TypeOK'
    BY <1>5, <2>1 DEF IInv, TypeOK, Issue, rowVars
  <2>3. DeadOnlyWhenExhausted' /\ AttemptsInv'
    BY <1>5 DEF IInv, TypeOK, DeadOnlyWhenExhausted, AttemptsInv, Issue, rowVars
  <2>4. PassesAreAccountedFor'
    BY <1>5 DEF IInv, TypeOK, PassesAreAccountedFor, Issue, rowVars
  <2> QED BY <2>2, <2>3, <2>4 DEF IInv
<1>6. ASSUME NEW r \in Rows, MarkProcessed(r) PROVE IInv'
  <2>1. r \in batch
    BY <1>6 DEF IInv, TypeOK, MarkProcessed
  <2> QED BY <1>6, <2>1, EndsStep DEF MarkProcessed, Settled
<1>7. ASSUME NEW r \in Rows, Fail(r) PROVE IInv'
  <2>1. CASE attempts[r] + 1 >= MaxAttempts
    <3>1. Ends(r, "dead_letter", FALSE)
      BY <1>7, <2>1 DEF Fail
    <3> QED BY <1>7, <2>1, <3>1, EndsStep DEF Fail, Settled
  <2>2. CASE ~(attempts[r] + 1 >= MaxAttempts)
    <3>1. Ends(r, "pending", TRUE)
      BY <1>7, <2>2 DEF Fail
    <3>2. attempts[r] + 1 < MaxAttempts
      BY <2>2 DEF IInv, TypeOK
    <3> QED BY <1>7, <3>1, <3>2, EndsStep DEF Fail
  <2> QED BY <2>1, <2>2
<1>8. CASE Crash
  <2>1. FlagsTypeOK'
    BY <1>8 DEF IInv, TypeOK, FlagsTypeOK, Crash, flagVars
  <2>2. TypeOK'
    BY <1>8, <2>1 DEF IInv, TypeOK, Crash, rowVars
  <2>3. DeadOnlyWhenExhausted' /\ AttemptsInv'
    BY <1>8 DEF IInv, DeadOnlyWhenExhausted, AttemptsInv, Crash, rowVars
  <2>4. PassesAreAccountedFor'
    BY <1>8 DEF IInv, TypeOK, PassesAreAccountedFor, Crash, rowVars
  <2> QED BY <2>2, <2>3, <2>4 DEF IInv
<1>9. CASE SetFlags
  <2>1. FlagsTypeOK'
    BY <1>9, FlagsStep DEF IInv, TypeOK, SetFlags
  <2>2. TypeOK'
    BY <1>9, <2>1 DEF IInv, TypeOK, SetFlags, rowVars
  <2>3. DeadOnlyWhenExhausted' /\ AttemptsInv' /\ PassesAreAccountedFor'
    BY <1>9 DEF IInv, DeadOnlyWhenExhausted, AttemptsInv,
                PassesAreAccountedFor, SetFlags, rowVars
  <2> QED BY <2>2, <2>3 DEF IInv
<1>10. CASE UNCHANGED vars
  BY <1>10 DEF IInv, TypeOK, FlagsTypeOK, DeadOnlyWhenExhausted, AttemptsInv,
               PassesAreAccountedFor, vars, rowVars, flagVars
<1> QED
  BY <1>1, <1>2, <1>3, <1>4, <1>5, <1>6, <1>7, <1>8, <1>9, <1>10
  DEF Next, Works

\* The invariant holds of every behaviour.
LEMMA Invariant == Spec => []IInv
<1> USE NoRowAssumption, MaxAttemptsAssumption, MaxCrashesAssumption
<1>1. Init => IInv
  <2> SUFFICES ASSUME Init PROVE IInv
    OBVIOUS
  <2>1. FlagsTypeOK
    <3>1. <<>> \in Seq(BOOLEAN)
      OBVIOUS
    <3> QED BY <3>1 DEF Init, FlagsInit, FlagsTypeOK
  <2>2. TypeOK
    BY <2>1 DEF Init, TypeOK
  <2>3. DeadOnlyWhenExhausted /\ AttemptsInv /\ PassesAreAccountedFor
    BY DEF Init, DeadOnlyWhenExhausted, AttemptsInv, PassesAreAccountedFor
  <2> QED BY <2>2, <2>3 DEF IInv
<1> QED BY <1>1, InvStep, PTL DEF Spec

-----------------------------------------------------------------------------

\* A pass is issued twice for a confirmation only at the cost of an attempt or
\* a crash, whatever the number of rows, attempts and crashes.
THEOREM PassesBounded == Spec => []PassesAreAccountedFor
<1>1. IInv => PassesAreAccountedFor
  BY DEF IInv
<1> QED BY <1>1, Invariant, PTL

\* No confirmation is abandoned with an attempt left, or attempted beyond the
\* last.
THEOREM NeverGivenUpEarly == Spec => []DeadOnlyWhenExhausted
<1>1. IInv => DeadOnlyWhenExhausted
  BY DEF IInv
<1> QED BY <1>1, Invariant, PTL

\* No pass is issued against the kill switch or without a contract: the flags
\* are read in the turn that inserts the pass.
THEOREM Prohibited == Spec => ProhibitionsHold
<1>1. TypeOK /\ [Next]_vars =>
        [\A r \in Rows : passes'[r] > passes[r] => killSwitch /\ contract]_vars
  <2> SUFFICES ASSUME TypeOK, Next, NEW r \in Rows, passes'[r] > passes[r]
               PROVE  killSwitch /\ contract
    OBVIOUS
  <2>1. passes' # passes
    BY DEF TypeOK
  <2>2. PICK p \in Rows : Issue(p)
    BY <2>1 DEF Next, Works, Confirm, BackoffElapses, Poll, Skip,
                MarkProcessed, Fail, Crash, SetFlags
  <2> QED BY <2>2 DEF Issue, EngageOn
<1>2. IInv => TypeOK
  BY DEF IInv
<1> QED BY <1>1, <1>2, Invariant, PTL DEF Spec, ProhibitionsHold

-----------------------------------------------------------------------------
(* The safety part of the refinement of EventDelivery. *)

\* The end of a turn settles the row as the promise allows, or leaves it
\* pending.
LEMMA EndsRefines ==
  ASSUME IInv, NEW r \in batch, Ends(r, "processed", FALSE)
                                \/ Ends(r, "skipped", FALSE)
                                \/ Ends(r, "dead_letter", FALSE)
                                \/ Ends(r, "pending", TRUE),
         passes' = passes, Ends(r, "processed", FALSE) => issuing = r
  PROVE  Promise!Next \/ UNCHANGED Promise!vars
<1>1. r \in Rows /\ status[r] = "pending"
  BY DEF IInv, TypeOK
<1>2. ASSUME NEW outcome \in {"processed", "skipped", "dead_letter"},
             Ends(r, outcome, FALSE), outcome = "processed" => passes[r] > 0
      PROVE  Promise!Settle(r)
  <2>1. Stage(r) = "pending"
    BY <1>1 DEF Stage
  <2>2. [p \in Rows |-> Stage(p)]' =
          [[p \in Rows |-> Stage(p)] EXCEPT ![r] = Stage(r)']
    BY <1>1, <1>2 DEF Stage, Ends, IInv, TypeOK
  <2>3. Stage(r)' \in {"declined", "abandoned"}
                        \cup (IF passes[r] > 0 THEN {"issued"} ELSE {})
    BY <1>1, <1>2 DEF Stage, Ends, IInv, TypeOK
  <2> QED BY <1>1, <2>1, <2>2, <2>3 DEF Promise!Settle
<1>3. CASE Ends(r, "processed", FALSE)
  <2>1. passes[r] > 0
    BY <1>1, <1>3, NoRowAssumption DEF IInv, AttemptsInv
  <2> QED BY <1>1, <1>2, <1>3, <2>1 DEF Promise!Next
<1>4. CASE Ends(r, "skipped", FALSE)
  BY <1>1, <1>2, <1>4 DEF Promise!Next
<1>5. CASE Ends(r, "dead_letter", FALSE)
  BY <1>1, <1>2, <1>5 DEF Promise!Next
<1>6. CASE Ends(r, "pending", TRUE)
  <2>1. status' = status
    BY <1>1, <1>6 DEF Ends, IInv, TypeOK
  <2> QED BY <2>1 DEF Promise!vars, Stage
<1> QED BY <1>3, <1>4, <1>5, <1>6

\* The steps of the consumer are steps of the promise or leave it as it is: a
\* confirmation counts as issued only after a pass exists for it, is settled
\* once, and no pass is issued for a settled one.
THEOREM DeliversSafely == Spec => Promise!Init /\ [][Promise!Next]_(Promise!vars)
<1>1. Init => Promise!Init
  BY DEF Init, Promise!Init, Stage
<1>2. IInv /\ [Next]_vars => [Promise!Next]_(Promise!vars)
  <2> SUFFICES ASSUME IInv, [Next]_vars
               PROVE  Promise!Next \/ UNCHANGED Promise!vars
    OBVIOUS
  <2>1. ASSUME NEW r \in Rows, Confirm(r) PROVE Promise!Next
    <3>1. Stage(r) = "none"
      BY <2>1 DEF Confirm, Stage
    <3>2. [p \in Rows |-> Stage(p)]' =
            [[p \in Rows |-> Stage(p)] EXCEPT ![r] = "pending"]
      BY <2>1 DEF Stage, Confirm, IInv, TypeOK
    <3>3. Promise!Publish(r)
      BY <2>1, <3>1, <3>2 DEF Promise!Publish, Confirm
    <3> QED BY <3>3 DEF Promise!Next
  <2>2. ASSUME NEW r \in Rows, Skip(r) \/ Fail(r) \/ MarkProcessed(r)
        PROVE  Promise!Next \/ UNCHANGED Promise!vars
    <3>1. r \in batch
      BY <2>2, NoRowAssumption DEF Skip, Fail, MarkProcessed, IInv, TypeOK
    <3>2. Ends(r, "processed", FALSE) => MarkProcessed(r)
      BY <2>2, <3>1 DEF Skip, Fail, MarkProcessed, Ends, IInv, TypeOK
    <3> QED
      BY <2>2, <3>1, <3>2, EndsRefines DEF Skip, Fail, MarkProcessed
  <2>3. ASSUME NEW r \in Rows, Issue(r) PROVE Promise!Next
    <3>1. Stage(r) = "pending"
      BY <2>3 DEF Issue, Stage, IInv, TypeOK
    <3>2. [p \in Rows |-> Stage(p)]' = [p \in Rows |-> Stage(p)]
      BY <2>3 DEF Stage, Issue, rowVars
    <3>3. Promise!Issue(r)
      BY <2>3, <3>1, <3>2 DEF Promise!Issue, Issue
    <3> QED BY <3>3 DEF Promise!Next
  <2>4. CASE \/ \E r \in Rows : BackoffElapses(r)
             \/ Poll \/ Crash \/ SetFlags \/ UNCHANGED vars
    <3>1. status' = status /\ passes' = passes
      BY <2>4 DEF BackoffElapses, Poll, Crash, SetFlags, vars, rowVars
    <3> QED BY <3>1 DEF Promise!vars, Stage
  <2> QED BY <2>1, <2>2, <2>3, <2>4 DEF Next, Works
<1> QED BY <1>1, <1>2, Invariant, PTL DEF Spec
=============================================================================
