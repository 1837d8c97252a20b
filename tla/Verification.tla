---------------------------- MODULE Verification ----------------------------
(***************************************************************************)
(* Proving that a guest's phone is the guest's (lib/verification.js): one  *)
(* customer of one partner, the challenges sent to it, and the answers.    *)
(* The provider is awaited after the challenge was inserted, so a guest    *)
(* may answer, or ask for another code, before the provider has.           *)
(***************************************************************************)
EXTENDS Naturals, FiniteSets

CONSTANTS
  MaxChallenges,  \* bound on the challenges of a behaviour
  MaxAttempts     \* lib/verification.js MAX_ATTEMPTS

ASSUME ChallengesAssumption == MaxChallenges \in Nat
ASSUME AttemptsAssumption == MaxAttempts \in Nat \ {0}

Ids == 1..MaxChallenges  \* in the order of created_at

VARIABLES
  sent,       \* the challenges with a row
  state,      \* verification_challenges.status
  attempts,   \* verification_challenges.attempts
  lapsed,     \* the challenges whose five minutes are over
  cooling,    \* the last challenge is not a minute old
  awaiting,   \* the challenges whose provider has not answered
  proved      \* loyalty_accounts.verification_status is 'verified'

verificationVars ==
  <<sent, state, attempts, lapsed, cooling, awaiting, proved>>

Pending == {i \in sent : state[i] = "pending"}

-----------------------------------------------------------------------------

VerificationInit ==
  /\ sent = {}
  /\ state = [i \in Ids |-> "none"]
  /\ attempts = [i \in Ids |-> 0]
  /\ lapsed = {}
  /\ cooling = FALSE
  /\ awaiting = {}
  /\ proved = FALSE

\* Every code stays good for its five minutes.
KeepsPending == state

Superseded == [i \in Ids |-> IF i \in Pending THEN "expired" ELSE state[i]]

\* sendChallenge up to its await: what is still pending is superseded.
SendChallenge ==
  LET i == Cardinality(sent) + 1 IN
  /\ ~cooling
  /\ i \in Ids
  /\ sent' = sent \cup {i}
  /\ state' = [Superseded EXCEPT ![i] = "pending"]
  /\ cooling' = TRUE
  /\ awaiting' = awaiting \cup {i}
  /\ UNCHANGED <<attempts, lapsed, proved>>

\* The provider has delivered the code.
Delivered(i) ==
  /\ i \in awaiting
  /\ awaiting' = awaiting \ {i}
  /\ UNCHANGED <<sent, state, attempts, lapsed, cooling, proved>>

\* The provider declines or throws: its challenge is expired, whatever became of
\* it meanwhile.
DeliveryFails(i) ==
  /\ i \in awaiting
  /\ awaiting' = awaiting \ {i}
  /\ state' = [state EXCEPT ![i] = "expired"]
  /\ UNCHANGED <<sent, attempts, lapsed, cooling, proved>>

\* The process dies during the await: the row stays as it was inserted.
ProviderLost ==
  /\ awaiting # {}
  /\ awaiting' = {}
  /\ UNCHANGED <<sent, state, attempts, lapsed, cooling, proved>>

NewestOf(challenges) ==
  {i \in challenges : \A j \in challenges : j <= i}

\* verifyChallenge finds the newest pending challenge expired.
AnswerTooLate(i) ==
  /\ i \in NewestOf(Pending)
  /\ i \in lapsed
  /\ state' = [state EXCEPT ![i] = "expired"]
  /\ UNCHANGED <<sent, attempts, lapsed, cooling, awaiting, proved>>

\* The wrong guess that uses up the attempts locks the challenge. verifyChallenge
\* also asks beforehand; no pending challenge has ever come so far.
Locks(i) == attempts[i] + 1 >= MaxAttempts

\* verifyChallenge compares a wrong code with it.
AnswerWrong(i) ==
  /\ i \in NewestOf(Pending)
  /\ i \notin lapsed /\ attempts[i] < MaxAttempts
  /\ attempts' = [attempts EXCEPT ![i] = @ + 1]
  /\ state' = [state EXCEPT ![i] = IF Locks(i) THEN "locked" ELSE "pending"]
  /\ UNCHANGED <<sent, lapsed, cooling, awaiting, proved>>

\* verifyChallenge is given its code, which is used up with it.
AnswerRight(i) ==
  /\ i \in NewestOf(Pending)
  /\ i \notin lapsed /\ attempts[i] < MaxAttempts
  /\ state' = [state EXCEPT ![i] = "verified"]
  /\ proved' = TRUE
  /\ UNCHANGED <<sent, attempts, lapsed, cooling, awaiting>>

\* A minute passes since the last challenge, and five since a challenge.
CooldownPasses ==
  /\ cooling' = FALSE
  /\ UNCHANGED <<sent, state, attempts, lapsed, awaiting, proved>>

Lapse(i) ==
  /\ i \in sent
  /\ \A j \in sent : j < i => j \in lapsed
  /\ lapsed' = lapsed \cup {i}
  /\ cooling' = (cooling /\ i # Cardinality(sent))
  /\ UNCHANGED <<sent, state, attempts, awaiting, proved>>

VerificationNext ==
  \/ SendChallenge
  \/ ProviderLost
  \/ CooldownPasses
  \/ \E i \in Ids : \/ Delivered(i)
                    \/ DeliveryFails(i)
                    \/ AnswerTooLate(i)
                    \/ AnswerWrong(i)
                    \/ AnswerRight(i)
                    \/ Lapse(i)

VerificationSpec == VerificationInit /\ [][VerificationNext]_verificationVars

-----------------------------------------------------------------------------

\* However slow the provider is, at most one challenge can be answered, and it
\* is the last one that was sent.
OnlyNewestIsPending == \A i \in Pending : \A j \in sent : j <= i
=============================================================================
