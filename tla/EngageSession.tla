---------------------------- MODULE EngageSession ----------------------------
(***************************************************************************)
(* The sessions a customer opens with the passes of several orders: the    *)
(* moments they are served, generated or from the approved pool, what the  *)
(* customer is remembered to have seen, and the groups they invite.        *)
(*                                                                         *)
(* A moment from the pool is served without interruption. A generated one  *)
(* awaits the providers and the embedding provider, up to twice each;      *)
(* meanwhile other requests are handled. The comparison with the memory    *)
(* runs in the same turn as the writes that follow it.                     *)
(*                                                                         *)
(* A content is a number, and similar contents are the same number. The    *)
(* memory's window is longer than a behaviour.                             *)
(***************************************************************************)
EXTENDS Naturals, Sequences

CONSTANTS
  Passes,       \* active passes of one customer, one session each
  NoPass,
  Handlers,     \* requests that may await a provider at a time
  Rooms,        \* the groups that may be invited
  PoolSize,     \* the pool is 0 .. PoolSize - 1
  Ideas,        \* the contents a provider comes up with
  Ceilings,     \* what resolveCeiling may return
  Seats,        \* what createInvite may make of the wanted size
  MaxAttempts,  \* MAX_JOIN_ATTEMPTS
  MaxCrashes    \* bound on the crashes of a behaviour

ASSUME PassesAssumption == NoPass \notin Passes
ASSUME NumbersAssumption ==
  /\ PoolSize \in Nat \ {0}
  /\ Ideas \subseteq Nat
  /\ Ceilings \subseteq Nat
  /\ Seats \subseteq Nat
  /\ MaxAttempts \in Nat
  /\ MaxCrashes \in Nat

VARIABLES
  status,    \* engage_session.status, "none" before the row exists
  used,      \* ceiling_moments_used
  limit,     \* ceiling_moments_max
  moments,   \* the session's moment rows with their payload_version
  memory,    \* the customer's exposure_memory, with a vector or without
  aiOn,      \* resolveAIGenerationEnabled
  handler,   \* the requests that await a provider
  host,      \* the session that invited to a group, NoPass before that
  seats,     \* group_room.max_participants
  taken,     \* the engage_participant rows of the group
  stale,     \* the invitation's half hour is over
  attempts,  \* joins tried in the last minute, in the process's memory
  crashes    \* so far

sessionVars == <<status, used, limit, moments, memory>>
roomVars == <<host, seats, taken, stale, attempts>>
vars == <<sessionVars, aiOn, handler, roomVars, crashes>>

Pool == 0 .. PoolSize - 1

Idle == [phase |-> "idle"]

Init ==
  /\ status = [p \in Passes |-> "none"]
  /\ used = [p \in Passes |-> 0]
  /\ limit = [p \in Passes |-> 0]
  /\ moments = [p \in Passes |-> <<>>]
  /\ memory = {}
  /\ aiOn = FALSE
  /\ handler = [h \in Handlers |-> Idle]
  /\ host = [r \in Rooms |-> NoPass]
  /\ seats = [r \in Rooms |-> 0]
  /\ taken = [r \in Rooms |-> 0]
  /\ stale = [r \in Rooms |-> FALSE]
  /\ attempts = [r \in Rooms |-> 0]
  /\ crashes = 0

-----------------------------------------------------------------------------
(* Sessions. *)

StillRunning(p) == status[p] = "running"

\* The pass has had a session, whatever became of it.
Existing(p) == status[p] # "none"

\* POST /api/engage/session/start. Of an existing session nothing changes.
Start(p, ceiling) ==
  /\ ~Existing(p)
  /\ status' = [status EXCEPT ![p] = "running"]
  /\ used' = [used EXCEPT ![p] = 0]
  /\ limit' = [limit EXCEPT ![p] = ceiling]
  /\ UNCHANGED <<moments, memory, aiOn, handler, roomVars, crashes>>

\* POST .../end.
End(p) ==
  /\ status[p] = "running"
  /\ status' = [status EXCEPT ![p] = "ended"]
  /\ UNCHANGED <<used, limit, moments, memory, aiOn, handler, roomVars, crashes>>

ClaimsWhileRunning(p) ==
  /\ status[p] = "running"
  /\ used' = [used EXCEPT ![p] = @ + 1]

\* One UPDATE statement claims a slot of the ceiling.
Claims(p) ==
  /\ status[p] = "running"
  /\ used[p] < limit[p]
  /\ used' = [used EXCEPT ![p] = @ + 1]

NewMoment(p) == [index |-> used[p], payload |-> {}, source |-> "none"]

Remembered == {m.content : m \in memory}

RememberedVectors == {m.content : m \in {n \in memory : n.embedded}}

Natural(index) == index % PoolSize

NaturalAlways(index) == Natural(index)

\* The first content of the pool, from the natural one on, that is not
\* remembered, or the natural one.
StaticChoice(index) ==
  LET fresh == {i \in Pool : Natural(index + i) \notin Remembered}
  IN  IF fresh = {}
        THEN Natural(index)
        ELSE Natural(index + CHOOSE i \in fresh : \A j \in fresh : i <= j)

EndsAfterCeiling(index, p) == index >= limit[p]

\* The request that claimed the last slot ends the session.
IsLast(index, p) == index + 1 >= limit[p]

\* What the requests held is lost, and so are the recorded attempts.
Dies ==
  /\ crashes < MaxCrashes
  /\ crashes' = crashes + 1
  /\ handler' = [h \in Handlers |-> Idle]
  /\ attempts' = [r \in Rooms |-> 0]
  /\ UNCHANGED <<aiOn, host, seats, taken, stale>>

Written(rows, n, content, source) ==
  [rows EXCEPT ![n].payload = {content}, ![n].source = source]

Exposed(content, embedded) ==
  memory \cup {[content |-> content, embedded |-> embedded]}

\* The end of serveNextMoment, on the rows with the moment's own at n.
Serves(p, rows, n, content, source, embedded) ==
  /\ moments' = [moments EXCEPT ![p] = Written(rows, n, content, source)]
  /\ memory' = Exposed(content, embedded)
  /\ status' = IF IsLast(rows[n].index, p)
                 THEN [status EXCEPT ![p] = "ended"] ELSE status
  /\ UNCHANGED <<limit, aiOn, roomVars, crashes>>

\* The process dies before the session is ended, or even before the content
\* is remembered.
ServesAndDies(p, rows, n, content, source, embedded) ==
  /\ moments' = [moments EXCEPT ![p] = Written(rows, n, content, source)]
  /\ memory' \in {memory, Exposed(content, embedded)}
  /\ Dies
  /\ UNCHANGED <<status, limit>>

\* POST .../next-moment without generation.
ServeStatic(p) ==
  /\ ~aiOn
  /\ Claims(p)
  /\ Serves(p, Append(moments[p], NewMoment(p)), Len(moments[p]) + 1,
            StaticChoice(used[p]), "static", FALSE)
  /\ UNCHANGED handler

\* No version of a mechanic is eligible: status 500, and the slot is gone.
ServeNothing(p) ==
  /\ Claims(p)
  /\ UNCHANGED <<status, limit, moments, memory, aiOn, handler, roomVars, crashes>>

\* POST .../next-moment up to the first await.
ServeBegin(h, p) ==
  /\ aiOn
  /\ handler[h] = Idle
  /\ Claims(p)
  /\ moments' = [moments EXCEPT ![p] = Append(@, NewMoment(p))]
  /\ handler' = [handler EXCEPT ![h] =
       [phase |-> "generating", pass |-> p, row |-> Len(moments[p]) + 1,
        attempt |-> 1]]
  /\ UNCHANGED <<status, limit, memory, aiOn, roomVars, crashes>>

-----------------------------------------------------------------------------
(* generateWithOrchestration and what follows it. *)

Finish(h, content, source, embedded) ==
  /\ \/ /\ Serves(handler[h].pass, moments[handler[h].pass], handler[h].row,
                  content, source, embedded)
        /\ handler' = [handler EXCEPT ![h] = Idle]
     \/ ServesAndDies(handler[h].pass, moments[handler[h].pass], handler[h].row,
                      content, source, embedded)
  /\ UNCHANGED used

AttemptsAgain(h) ==
  /\ handler' = [handler EXCEPT ![h] =
       [phase |-> "generating", pass |-> handler[h].pass,
        row |-> handler[h].row, attempt |-> handler[h].attempt]]
  /\ UNCHANGED <<sessionVars, aiOn, roomVars, crashes>>

\* After the first provider the second one is asked, after the second the
\* natural content of the pool is served, remembered or not.
GivesUpAttempt(h) ==
  \/ /\ handler[h].attempt = 1
     /\ handler' = [handler EXCEPT ![h] =
          [phase |-> "generating", pass |-> handler[h].pass,
           row |-> handler[h].row, attempt |-> 2]]
     /\ UNCHANGED <<sessionVars, aiOn, roomVars, crashes>>
  \/ /\ handler[h].attempt = 2
     /\ Finish(h, Natural(moments[handler[h].pass][handler[h].row].index),
               "fallback", FALSE)

\* A provider answers with a content that passes the safety gate.
Generated(h, idea) ==
  /\ handler[h].phase = "generating"
  /\ handler' = [handler EXCEPT ![h] =
       [phase |-> "embedding", pass |-> handler[h].pass, row |-> handler[h].row,
        attempt |-> handler[h].attempt, idea |-> idea]]
  /\ UNCHANGED <<sessionVars, aiOn, roomVars, crashes>>

\* A timeout, an error, a malformed or an unsafe answer.
GenerationFails(h) ==
  /\ handler[h].phase = "generating"
  /\ GivesUpAttempt(h)

\* Compared with the vectors that are remembered, or, when the embedding
\* provider fails, with the words of everything that is.
Seen(idea, embedded) ==
  idea \in IF embedded THEN RememberedVectors ELSE Remembered

Embedded(h, embedded) ==
  /\ handler[h].phase = "embedding"
  /\ IF Seen(handler[h].idea, embedded)
       THEN GivesUpAttempt(h)
       ELSE Finish(h, handler[h].idea, "generated", embedded)

-----------------------------------------------------------------------------
(* Groups. *)

\* POST .../invite/create: the host takes the first seat.
Invite(r, p, size) ==
  /\ host[r] = NoPass
  /\ status[p] = "running"
  /\ host' = [host EXCEPT ![r] = p]
  /\ seats' = [seats EXCEPT ![r] = size]
  /\ taken' = [taken EXCEPT ![r] = 1]
  /\ UNCHANGED <<sessionVars, aiOn, handler, stale, attempts, crashes>>

InvitationExpires(r) ==
  /\ host[r] # NoPass
  /\ ~stale[r]
  /\ stale' = [stale EXCEPT ![r] = TRUE]
  /\ UNCHANGED <<sessionVars, aiOn, handler, host, seats, taken, attempts, crashes>>

Open(r) == host[r] # NoPass /\ ~stale[r] /\ status[host[r]] = "running"

HasSeatCountingInvitees(r) == taken[r] <= seats[r]

HasSeat(r) == taken[r] < seats[r]

\* isJoinRateLimited, negated.
RateAllows(r) == attempts[r] < MaxAttempts

\* POST /api/engage/invite/:inviteToken/join: the attempt counts, though the
\* group be closed or full.
Join(r) ==
  /\ host[r] # NoPass
  /\ RateAllows(r)
  /\ attempts' = [attempts EXCEPT ![r] = @ + 1]
  /\ taken' = IF Open(r) /\ HasSeat(r) THEN [taken EXCEPT ![r] = @ + 1] ELSE taken
  /\ UNCHANGED <<sessionVars, aiOn, handler, host, seats, stale, crashes>>

AttemptAges(r) ==
  /\ attempts[r] > 0
  /\ attempts' = [attempts EXCEPT ![r] = @ - 1]
  /\ UNCHANGED <<sessionVars, aiOn, handler, host, seats, taken, stale, crashes>>

-----------------------------------------------------------------------------

\* POST /api/admin/engage/kill-switch, policy-overrides.
SetGeneration(on) ==
  /\ aiOn' = on
  /\ UNCHANGED <<sessionVars, handler, roomVars, crashes>>

Crash == Dies /\ UNCHANGED sessionVars

\* The process dies after the claim, after the insertion of the moment or, if
\* it was served in the same turn, after that of its content.
ServeCutShort(p) ==
  /\ Claims(p)
  /\ \/ Dies /\ UNCHANGED <<status, limit, moments, memory>>
     \/ /\ Dies
        /\ moments' = [moments EXCEPT ![p] = Append(@, NewMoment(p))]
        /\ UNCHANGED <<status, limit, memory>>
     \/ /\ ~aiOn
        /\ ServesAndDies(p, Append(moments[p], NewMoment(p)), Len(moments[p]) + 1,
                         StaticChoice(used[p]), "static", FALSE)

Next ==
  \/ \E p \in Passes, ceiling \in Ceilings : Start(p, ceiling)
  \/ \E p \in Passes : End(p) \/ ServeStatic(p) \/ ServeNothing(p) \/ ServeCutShort(p)
  \/ \E h \in Handlers, p \in Passes : ServeBegin(h, p)
  \/ \E h \in Handlers, idea \in Ideas : Generated(h, idea)
  \/ \E h \in Handlers : GenerationFails(h)
  \/ \E h \in Handlers, embedded \in BOOLEAN : Embedded(h, embedded)
  \/ \E r \in Rooms, p \in Passes, size \in Seats : Invite(r, p, size)
  \/ \E r \in Rooms : InvitationExpires(r) \/ Join(r) \/ AttemptAges(r)
  \/ \E on \in BOOLEAN : SetGeneration(on)
  \/ Crash

Spec == Init /\ [][Next]_vars

\* The timeouts of the two providers fire; nobody else is trusted to answer.
Fairness ==
  \A h \in Handlers : WF_vars(GenerationFails(h)) /\ WF_vars(Embedded(h, FALSE))

FairSpec == Spec /\ Fairness

-----------------------------------------------------------------------------

Sources == {"none", "static", "generated", "fallback"}

\* Every column has its type; a suspended request is about a moment that has
\* no content yet, and a minute holds no more joins than the limiter allows.
TypeOK ==
  /\ status \in [Passes -> {"none", "running", "ended"}]
  /\ used \in [Passes -> Nat]
  /\ limit \in [Passes -> Ceilings \cup {0}]
  /\ moments \in [Passes -> Seq([index : Nat, payload : SUBSET (Pool \cup Ideas),
                                source : Sources])]
  /\ memory \subseteq [content : Pool \cup Ideas, embedded : BOOLEAN]
  /\ aiOn \in BOOLEAN
  /\ \A h \in Handlers :
       \/ handler[h] = Idle
       \/ /\ handler[h].phase \in {"generating", "embedding"}
          /\ handler[h].pass \in Passes
          /\ handler[h].row \in 1 .. Len(moments[handler[h].pass])
          /\ moments[handler[h].pass][handler[h].row].payload = {}
          /\ handler[h].attempt \in {1, 2}
          /\ handler[h].phase = "embedding" => handler[h].idea \in Ideas
  /\ host \in [Rooms -> Passes \cup {NoPass}]
  /\ seats \in [Rooms -> Seats \cup {0}]
  /\ taken \in [Rooms -> Nat]
  /\ stale \in [Rooms -> BOOLEAN]
  /\ attempts \in [Rooms -> 0 .. MaxAttempts]
  /\ crashes \in 0 .. MaxCrashes

\* No session gives more moments than its ceiling, nor the same slot of it
\* twice, however many requests await a provider at once, and whatever ends,
\* restarts or re-enters it.
CeilingHolds ==
  \A p \in Passes :
    /\ Len(moments[p]) <= used[p]
    /\ used[p] <= limit[p]
    /\ \A m, n \in 1 .. Len(moments[p]) :
         m # n => moments[p][m].index # moments[p][n].index

\* A session whose last moment was served is over, in whatever order the
\* providers answered, unless the process died on the way. (A session with a
\* ceiling of zero is never over by itself.)
OverWhenAllServed ==
  \A p \in Passes :
    /\ crashes = 0
    /\ limit[p] > 0
    /\ Len(moments[p]) = limit[p]
    /\ \A n \in 1 .. Len(moments[p]) : moments[p][n].payload # {}
    => status[p] = "ended"

\* A content of the pool is served a second time only when the customer has
\* seen all of them, while generation comes and goes in between.
NoPrematureRepeat ==
  [][\A p \in Passes : \A n \in Len(moments[p]) + 1 .. Len(moments'[p]) :
       /\ moments'[p][n].source = "static"
       /\ moments'[p][n].payload \subseteq Remembered
       => Pool \subseteq Remembered]_vars

\* Nobody is in a group beyond its seats, but for the host, who sits down in
\* a group of none.
NoGroupOverfull ==
  \A r \in Rooms : taken[r] <= IF seats[r] = 0 THEN 1 ELSE seats[r]

\* A group whose invitation is stale, or whose host's session is over, stays
\* as it is for good: no session ever runs again.
ClosedGroupsStayClosed ==
  [][\A r \in Rooms :
       host[r] # NoPass /\ (stale[r] \/ status[host[r]] # "running") =>
         /\ taken'[r] = taken[r]
         /\ stale'[r] \/ status'[host[r]] # "running"]_vars

\* The customer is never left without an answer: every moment gets its
\* content though no provider ever replies, unless the process dies.
EveryMomentIsServed ==
  \A p \in Passes : \A n \in UNION {1 .. c : c \in Ceilings} :
    n <= Len(moments[p]) ~>
      crashes > 0 \/ (n <= Len(moments[p]) /\ moments[p][n].payload # {})

Promise == INSTANCE MomentAllowance WITH
  Allowances <- Ceilings, stage <- status, enjoyed <- [p \in Passes |-> Len(moments[p])]

\* A pass has one session with one allowance, and nothing after its end,
\* though contents still arrive in a session that is over.
KeepsAllowance == Promise!Spec
=============================================================================
