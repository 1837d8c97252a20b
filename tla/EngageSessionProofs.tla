------------------------- MODULE EngageSessionProofs -------------------------
(***************************************************************************)
(* Proofs about Engage's sessions and groups, for any number of passes,    *)
(* requests, groups and crashes, any ceilings and any pool.                *)
(***************************************************************************)
EXTENDS EngageSession, Integers, WellFoundedInduction, TLAPS

Row == [index : Nat, payload : SUBSET (Pool \cup Ideas), source : Sources]

\* The sessions: their types, the ceiling, and why it is kept. Slots are
\* claimed in their order, and a session that was not started has no moments.
SessionInv ==
  /\ status \in [Passes -> {"none", "running", "ended"}]
  /\ used \in [Passes -> Nat]
  /\ limit \in [Passes -> Ceilings \cup {0}]
  /\ moments \in [Passes -> Seq(Row)]
  /\ CeilingHolds
  /\ \A p \in Passes :
       /\ \A n \in 1 .. Len(moments[p]) : moments[p][n].index < used[p]
       /\ status[p] = "none" => moments[p] = <<>> /\ used[p] = 0

\* A step that leaves the sessions alone keeps what is said of them.
LEMMA SessionUnchanged ==
  ASSUME SessionInv, UNCHANGED <<status, used, limit, moments>>
  PROVE  SessionInv'
BY DEF SessionInv, CeilingHolds

\* The row n of s gets its content, and t is the result.
OnlyWrites(s, t, n, c) ==
  /\ t \in Seq(Row)
  /\ Len(t) = Len(s)
  /\ \A i \in 1 .. Len(s) : t[i].index = s[i].index
  /\ n \in 1 .. Len(s) => t[n].payload = {c}
  /\ \A i \in 1 .. Len(s) : i # n => t[i] = s[i]

\* Writing a moment's content changes neither the number of the rows nor
\* their slots.
LEMMA RowWritten ==
  ASSUME NEW s \in Seq(Row), NEW n \in Nat, NEW c \in Pool \cup Ideas,
         NEW source \in Sources
  PROVE  OnlyWrites(s, Written(s, n, c, source), n, c)
<1> DEFINE t == [s EXCEPT ![n].payload = {c}, ![n].source = source]
<1>1. DOMAIN t = 1 .. Len(s) /\ t = [i \in 1 .. Len(s) |-> t[i]]
  <2>1. DOMAIN s = 1 .. Len(s)
    OBVIOUS
  <2>2. DOMAIN t = DOMAIN s /\ t = [i \in DOMAIN s |-> t[i]]
    BY Zenon
  <2> QED BY <2>1, <2>2, Zenon
<1>2. \A i \in 1 .. Len(s) : s[i] \in Row
  OBVIOUS
<1>3. \A i \in 1 .. Len(s) : i # n => t[i] = s[i]
  BY <1>1
<1>4. n \in 1 .. Len(s) =>
        t[n] = [[s[n] EXCEPT !.payload = {c}] EXCEPT !.source = source]
  BY <1>1, <1>2
<1> HIDE DEF t
<1>5. n \in 1 .. Len(s) =>
        /\ t[n] \in Row
        /\ t[n].index = s[n].index
        /\ t[n].payload = {c}
  <2> SUFFICES ASSUME n \in 1 .. Len(s)
               PROVE  /\ t[n] \in Row
                      /\ t[n].index = s[n].index
                      /\ t[n].payload = {c}
    OBVIOUS
  <2>1. PICK row \in Row : row = s[n]
    BY <1>2
  <2>2. t[n] = [index |-> row.index, payload |-> {c}, source |-> source]
    BY <1>4, <2>1 DEF Row
  <2> QED BY <2>1, <2>2 DEF Row
<1>6. \A i \in 1 .. Len(s) : t[i] \in Row /\ t[i].index = s[i].index
  BY <1>2, <1>3, <1>5
<1>7. t \in [1 .. Len(s) -> Row]
  BY <1>1, <1>6
<1>8. t \in Seq(Row) /\ Len(t) = Len(s)
  BY <1>7
<1> QED BY <1>3, <1>5, <1>6, <1>8 DEF t, Written, OnlyWrites

\* One session's rows change: a content is written, or a slot that was claimed
\* in the same step gets its row.
LEMMA SessionStep ==
  ASSUME SessionInv, NEW p \in Passes, status[p] # "none",
         NEW rows \in Seq(Row), moments' = [moments EXCEPT ![p] = rows],
         limit' = limit,
         NEW s \in {"running", "ended"},
         status' = status \/ status' = [status EXCEPT ![p] = s],
         \A n \in 1 .. Len(moments[p]) : rows[n].index = moments[p][n].index,
         \/ used' = used /\ Len(rows) = Len(moments[p])
         \/ /\ Claims(p)
            /\ Len(rows) = Len(moments[p])
         \/ /\ Claims(p)
            /\ Len(rows) = Len(moments[p]) + 1
            /\ rows[Len(rows)].index = used[p]
  PROVE  SessionInv'
<1>a. /\ status \in [Passes -> {"none", "running", "ended"}]
      /\ limit \in [Passes -> Ceilings \cup {0}]
      /\ moments \in [Passes -> Seq(Row)]
      /\ used \in [Passes -> Nat]
  BY DEF SessionInv
<1>b. limit[p] \in Nat /\ used[p] \in Nat
  <2>1. limit[p] \in Ceilings \cup {0}
    BY <1>a
  <2>2. \A c \in Ceilings : c \in Nat
    BY NumbersAssumption
  <2>3. limit[p] \in Nat
    BY <2>1, <2>2
  <2>4. used[p] \in Nat
    BY <1>a
  <2> QED BY <2>3, <2>4
<1>c. \/ used' = used
      \/ used' = [used EXCEPT ![p] = used[p] + 1] /\ used[p] < limit[p]
  BY DEF Claims
<1>1. /\ status' \in [Passes -> {"none", "running", "ended"}]
      /\ limit' \in [Passes -> Ceilings \cup {0}]
      /\ moments' \in [Passes -> Seq(Row)]
      /\ used' \in [Passes -> Nat]
      /\ status'[p] # "none"
  <2>1. status' \in [Passes -> {"none", "running", "ended"}] /\ status'[p] # "none"
    BY <1>a
  <2>2. limit' \in [Passes -> Ceilings \cup {0}]
    BY <1>a
  <2>3. moments' \in [Passes -> Seq(Row)]
    BY <1>a
  <2>4. used' \in [Passes -> Nat]
    <3>1. CASE used' = used
      BY <3>1, <1>a
    <3>2. CASE used' = [used EXCEPT ![p] = used[p] + 1]
      BY <3>2, <1>a, <1>b
    <3> QED BY <3>1, <3>2, <1>c
  <2> QED BY <2>1, <2>2, <2>3, <2>4
<1>2. \A q \in Passes : q # p =>
        /\ moments'[q] = moments[q] /\ used'[q] = used[q]
        /\ limit'[q] = limit[q] /\ status'[q] = status[q]
  BY <1>a, <1>c
<1>3. /\ moments'[p] = rows
      /\ Len(rows) \in Nat /\ Len(moments[p]) \in Nat
      /\ used[p] \in Nat /\ limit[p] \in Nat /\ limit'[p] = limit[p]
      /\ used'[p] = used[p] \/ (used'[p] = used[p] + 1 /\ used[p] < limit[p])
  BY <1>a, <1>b, <1>c
<1>4. /\ Len(moments[p]) <= used[p]
      /\ used[p] <= limit[p]
      /\ \A m, n \in 1 .. Len(moments[p]) :
           m # n => moments[p][m].index # moments[p][n].index
      /\ \A n \in 1 .. Len(moments[p]) : moments[p][n].index < used[p]
  BY DEF SessionInv, CeilingHolds
<1>5. \A n \in 1 .. Len(moments[p]) : rows[n].index \in Nat
  <2>1. \A n \in 1 .. Len(moments[p]) : moments[p][n] \in Row
    BY <1>a
  <2> QED BY <2>1 DEF Row
<1>6. /\ Len(rows) <= used'[p]
      /\ used'[p] <= limit[p]
      /\ \A n \in 1 .. Len(rows) : rows[n].index < used'[p]
      /\ \A m, n \in 1 .. Len(rows) : m # n => rows[m].index # rows[n].index
  <2>1. CASE used' = used /\ Len(rows) = Len(moments[p])
    BY <2>1, <1>3, <1>4, <1>5
  <2>2. CASE Claims(p) /\ Len(rows) = Len(moments[p])
    <3>1. used'[p] = used[p] + 1 /\ used[p] < limit[p]
      BY <2>2, <1>a, <1>b DEF Claims
    <3> QED BY <2>2, <3>1, <1>3, <1>4, <1>5
  <2>3. CASE /\ Claims(p)
             /\ Len(rows) = Len(moments[p]) + 1
             /\ rows[Len(rows)].index = used[p]
    <3>1. used'[p] = used[p] + 1 /\ used[p] < limit[p]
      BY <2>3, <1>a, <1>b DEF Claims
    <3>2. \A n \in 1 .. Len(rows) : n \in 1 .. Len(moments[p]) \/ n = Len(rows)
      BY <2>3, <1>3
    <3>3. Len(rows) <= used'[p] /\ used'[p] <= limit[p]
      BY <2>3, <3>1, <1>3, <1>4
    <3>4. ASSUME NEW n \in 1 .. Len(rows) PROVE rows[n].index < used'[p]
      <4>1. CASE n \in 1 .. Len(moments[p])
        BY <4>1, <3>1, <1>3, <1>4, <1>5
      <4>2. CASE n = Len(rows)
        BY <4>2, <2>3, <3>1, <1>3
      <4> QED BY <4>1, <4>2, <3>2
    <3>5. ASSUME NEW m \in 1 .. Len(rows), NEW n \in 1 .. Len(rows), m # n
          PROVE  rows[m].index # rows[n].index
      <4>1. CASE m \in 1 .. Len(moments[p]) /\ n \in 1 .. Len(moments[p])
        BY <4>1, <3>5, <1>4
      <4>2. CASE m \in 1 .. Len(moments[p]) /\ n = Len(rows)
        BY <4>2, <2>3, <1>3, <1>4, <1>5
      <4>3. CASE m = Len(rows) /\ n \in 1 .. Len(moments[p])
        BY <4>3, <2>3, <1>3, <1>4, <1>5
      <4> QED BY <4>1, <4>2, <4>3, <3>2, <3>5
    <3> QED BY <3>3, <3>4, <3>5
  <2> QED BY <2>1, <2>2, <2>3
<1>7. CeilingHolds'
  <2> SUFFICES ASSUME NEW q \in Passes
               PROVE  /\ Len(moments'[q]) <= used'[q]
                      /\ used'[q] <= limit'[q]
                      /\ \A m, n \in 1 .. Len(moments'[q]) :
                           m # n => moments'[q][m].index # moments'[q][n].index
    BY DEF CeilingHolds
  <2>1. CASE q = p
    BY <2>1, <1>3, <1>6
  <2>2. CASE q # p
    BY <2>2, <1>2 DEF SessionInv, CeilingHolds
  <2> QED BY <2>1, <2>2
<1>8. \A q \in Passes :
        /\ \A n \in 1 .. Len(moments'[q]) : moments'[q][n].index < used'[q]
        /\ status'[q] = "none" => moments'[q] = <<>> /\ used'[q] = 0
  <2> SUFFICES ASSUME NEW q \in Passes
               PROVE  /\ \A n \in 1 .. Len(moments'[q]) :
                           moments'[q][n].index < used'[q]
                      /\ status'[q] = "none" => moments'[q] = <<>> /\ used'[q] = 0
    OBVIOUS
  <2>1. CASE q = p
    BY <2>1, <1>1, <1>3, <1>6
  <2>2. CASE q # p
    BY <2>2, <1>2 DEF SessionInv
  <2> QED BY <2>1, <2>2
<1> QED BY <1>1, <1>7, <1>8 DEF SessionInv

-----------------------------------------------------------------------------
(* The rotation through the pool. *)

LEMMA Least ==
  ASSUME NEW T, T \subseteq Nat, T # {}
  PROVE  \E x \in T : \A y \in T : x <= y
<1> DEFINE R == OpToRel(<, Nat)
<1>1. IsWellFoundedOn(R, Nat)
  BY NatLessThanWellFounded
<1>2. \A ss \in Nat \X Nat : ss[1] < ss[2] => ss \in R
  BY DEF OpToRel
<1> HIDE DEF R
<1>3. PICK x \in T : \A y \in T : ~(<<y, x>> \in R)
  BY <1>1, WFMin
<1>4. ASSUME NEW y \in T PROVE x <= y
  <2>1. <<y, x>> \notin R
    BY <1>3
  <2>2. ~(y < x)
    BY <2>1, <1>2
  <2> QED BY <2>2
<1> QED BY <1>4

\* From any place on, the rotation comes to every content of the pool.
LEMMA RotationCovers ==
  ASSUME NEW index \in Nat, NEW c \in Pool
  PROVE  \E i \in Pool : Natural(index + i) = c
<1> DEFINE P == PoolSize
<1> DEFINE r == index % P
<1> DEFINE q == index \div P
<1>1. P \in Nat \ {0} /\ c \in 0 .. P - 1
  BY NumbersAssumption DEF Pool
<1>2. r \in 0 .. P - 1 /\ q \in Nat /\ index = P * q + r
  BY <1>1
<1> HIDE DEF r, q
<1>3. \E i \in 0 .. P - 1 : (index + i) % P = c
  <2>1. CASE c >= r
    <3>1. c - r \in 0 .. P - 1 /\ index + (c - r) = P * q + c
      BY <1>1, <1>2, <2>1
    <3>2. (P * q + c) % P = c
      BY <1>1, <1>2
    <3> QED BY <3>1, <3>2
  <2>2. CASE c < r
    <3>1. c - r + P \in 0 .. P - 1 /\ index + (c - r + P) = P * (q + 1) + c
      BY <1>1, <1>2, <2>2
    <3>2. (P * (q + 1) + c) % P = c
      BY <1>1, <1>2
    <3> QED BY <3>1, <3>2
  <2> QED BY <1>1, <1>2, <2>1, <2>2
<1> QED BY <1>3 DEF Natural, Pool

\* The choice is a content of the pool, a remembered one only if all are.
LEMMA StaticChoiceFresh ==
  ASSUME NEW index \in Nat
  PROVE  /\ StaticChoice(index) \in Pool
         /\ StaticChoice(index) \in Remembered => Pool \subseteq Remembered
<1> DEFINE fresh == {i \in Pool : Natural(index + i) \notin Remembered}
<1>1. \A n \in Nat : Natural(n) \in Pool
  BY NumbersAssumption DEF Natural, Pool
<1>2. Pool \subseteq Nat
  BY NumbersAssumption DEF Pool
<1>3. CASE fresh = {}
  <2>1. StaticChoice(index) = Natural(index)
    BY <1>3 DEF StaticChoice
  <2>2. ASSUME NEW c \in Pool PROVE c \in Remembered
    <3>1. PICK i \in Pool : Natural(index + i) = c
      BY RotationCovers
    <3> QED BY <3>1, <1>3
  <2> QED BY <2>1, <2>2, <1>1
<1>4. CASE fresh # {}
  <2> DEFINE first == CHOOSE i \in fresh : \A j \in fresh : i <= j
  <2>1. \E i \in fresh : \A j \in fresh : i <= j
    BY <1>2, <1>4, Least
  <2>2. first \in fresh
    BY <2>1
  <2>3. StaticChoice(index) = Natural(index + first)
    BY <1>4 DEF StaticChoice
  <2> HIDE DEF first
  <2>4. first \in Nat /\ index + first \in Nat
    BY <2>2, <1>2
  <2> QED BY <2>2, <2>3, <2>4, <1>1
<1> QED BY <1>3, <1>4

-----------------------------------------------------------------------------
(* The suspended requests and the groups. *)

\* A request's row is its own, and still without content.
OwnRow(h) ==
  /\ handler[h].phase \in {"generating", "embedding"}
  /\ handler[h].pass \in Passes
  /\ handler[h].row \in 1 .. Len(moments[handler[h].pass])
  /\ moments[handler[h].pass][handler[h].row].payload = {}
  /\ handler[h].attempt \in {1, 2}
  /\ handler[h].phase = "embedding" => handler[h].idea \in Ideas
  /\ status[handler[h].pass] # "none"

HandlerInv ==
  /\ \A h \in Handlers : handler[h] = Idle \/ OwnRow(h)
  /\ \A g, h \in Handlers :
       g # h /\ handler[g] # Idle /\ handler[h] # Idle =>
         handler[g].pass # handler[h].pass \/ handler[g].row # handler[h].row
  /\ DOMAIN handler = Handlers

RestInv ==
  /\ memory \subseteq [content : Pool \cup Ideas, embedded : BOOLEAN]
  /\ aiOn \in BOOLEAN
  /\ host \in [Rooms -> Passes \cup {NoPass}]
  /\ seats \in [Rooms -> Seats \cup {0}]
  /\ taken \in [Rooms -> Nat]
  /\ stale \in [Rooms -> BOOLEAN]
  /\ attempts \in [Rooms -> 0 .. MaxAttempts]
  /\ crashes \in 0 .. MaxCrashes
  /\ NoGroupOverfull

IInv == SessionInv /\ HandlerInv /\ RestInv

LEMMA InitInv == Init => IInv
<1> SUFFICES ASSUME Init PROVE IInv
  OBVIOUS
<1>1. SessionInv
  <2>1. \A p \in Passes : moments[p] = <<>>
    BY DEF Init
  <2>2. <<>> \in Seq(Row) /\ Len(<<>>) = 0
    OBVIOUS
  <2>3. moments \in [Passes -> Seq(Row)]
    BY <2>1, <2>2 DEF Init
  <2> QED BY <2>1, <2>2, <2>3 DEF Init, SessionInv, CeilingHolds
<1>2. HandlerInv
  BY DEF Init, HandlerInv
<1>3. RestInv
  <2>1. 0 \in 0 .. MaxAttempts /\ 0 \in 0 .. MaxCrashes
    BY NumbersAssumption
  <2>2. attempts \in [Rooms -> 0 .. MaxAttempts] /\ crashes \in 0 .. MaxCrashes
    BY <2>1 DEF Init
  <2>3. NoGroupOverfull
    BY DEF Init, NoGroupOverfull
  <2> QED BY <2>2, <2>3 DEF Init, RestInv
<1> QED BY <1>1, <1>2, <1>3 DEF IInv

\* Rows that are there stay as they are, and no session vanishes: then the
\* suspended requests are as well off as before.
LEMMA HandlersKept ==
  ASSUME HandlerInv, handler' = handler,
         \A p \in Passes :
           /\ \A n \in 1 .. Len(moments[p]) :
                n \in 1 .. Len(moments'[p]) /\ moments'[p][n] = moments[p][n]
           /\ status[p] # "none" => status'[p] # "none"
  PROVE  HandlerInv'
<1>1. ASSUME NEW h \in Handlers, OwnRow(h) PROVE OwnRow(h)'
  BY <1>1 DEF OwnRow
<1> QED BY <1>1 DEF HandlerInv

LEMMA RestUnchanged ==
  ASSUME RestInv, UNCHANGED <<memory, aiOn, roomVars, crashes>>
  PROVE  RestInv'
BY DEF RestInv, roomVars, NoGroupOverfull

\* A claimed slot's new row.
LEMMA RowAppended ==
  ASSUME SessionInv, NEW p \in Passes
  PROVE  LET rows == Append(moments[p], NewMoment(p))
         IN  /\ rows \in Seq(Row)
             /\ Len(rows) = Len(moments[p]) + 1
             /\ Len(moments[p]) \in Nat
             /\ \A n \in 1 .. Len(moments[p]) : rows[n] = moments[p][n]
             /\ rows[Len(rows)].index = used[p]
             /\ rows[Len(rows)].payload = {}
<1>1. moments[p] \in Seq(Row) /\ used[p] \in Nat
  BY DEF SessionInv
<1>2. NewMoment(p) \in Row
  BY <1>1 DEF NewMoment, Row, Sources
<1>3. /\ NewMoment(p).index = used[p]
      /\ NewMoment(p).payload = {}
  BY DEF NewMoment
<1> HIDE DEF NewMoment
<1> QED BY <1>1, <1>2, <1>3

\* A handler that died is idle, whatever the sessions are.
LEMMA HandlersIdle ==
  ASSUME handler' = [h \in Handlers |-> Idle]
  PROVE  HandlerInv'
BY DEF HandlerInv

\* One request moves on within its row, which is still without content.
LEMMA HandlerMoves ==
  ASSUME HandlerInv, NEW h \in Handlers, OwnRow(h), UNCHANGED <<moments, status>>,
         NEW r, handler' = [handler EXCEPT ![h] = r],
         r.pass = handler[h].pass, r.row = handler[h].row,
         r.attempt \in {1, 2}, r.phase \in {"generating", "embedding"},
         r.phase = "embedding" => r.idea \in Ideas
  PROVE  HandlerInv'
<1>1. handler'[h] = r /\ \A g \in Handlers : g # h => handler'[g] = handler[g]
  BY DEF HandlerInv
<1>2. OwnRow(h)'
  BY <1>1 DEF OwnRow
<1>3. ASSUME NEW g \in Handlers, g # h, OwnRow(g) PROVE OwnRow(g)'
  BY <1>1, <1>3 DEF OwnRow
<1>4. handler[h] # Idle
  BY DEF OwnRow, Idle
<1>5. DOMAIN handler' = Handlers
  BY DEF HandlerInv
<1>6. \A g \in Handlers : handler'[g] = Idle \/ OwnRow(g)'
  BY <1>1, <1>2, <1>3 DEF HandlerInv
<1>7. \A f, g \in Handlers :
        f # g /\ handler'[f] # Idle /\ handler'[g] # Idle =>
          handler'[f].pass # handler'[g].pass \/ handler'[f].row # handler'[g].row
  BY <1>1, <1>4 DEF HandlerInv
<1> QED BY <1>5, <1>6, <1>7 DEF HandlerInv

-----------------------------------------------------------------------------
(* The actions. *)

LEMMA StartStep ==
  ASSUME IInv, NEW p \in Passes, NEW ceiling \in Ceilings, Start(p, ceiling)
  PROVE  IInv'
<1>1. status[p] = "none" /\ moments[p] = <<>> /\ moments' = moments
  BY DEF IInv, SessionInv, Start, Existing
<1>2. ceiling \in Nat
  BY NumbersAssumption
<1>3. SessionInv'
  <2>1. /\ status' \in [Passes -> {"none", "running", "ended"}]
        /\ used' \in [Passes -> Nat]
        /\ limit' \in [Passes -> Ceilings \cup {0}]
        /\ moments' \in [Passes -> Seq(Row)]
        /\ status'[p] = "running" /\ used'[p] = 0 /\ limit'[p] = ceiling
    BY <1>1 DEF IInv, SessionInv, Start
  <2>2. \A q \in Passes : q # p =>
          status'[q] = status[q] /\ used'[q] = used[q] /\ limit'[q] = limit[q]
    BY DEF IInv, SessionInv, Start
  <2>3. Len(<<>>) = 0
    OBVIOUS
  <2>4. CeilingHolds'
    <3> SUFFICES ASSUME NEW q \in Passes
                 PROVE  /\ Len(moments'[q]) <= used'[q]
                        /\ used'[q] <= limit'[q]
                        /\ \A m, n \in 1 .. Len(moments'[q]) :
                             m # n => moments'[q][m].index # moments'[q][n].index
      BY DEF CeilingHolds
    <3>1. CASE q = p
      BY <3>1, <1>1, <1>2, <2>1, <2>3
    <3>2. CASE q # p
      BY <3>2, <1>1, <2>2 DEF IInv, SessionInv, CeilingHolds
    <3> QED BY <3>1, <3>2
  <2>5. \A q \in Passes :
          /\ \A n \in 1 .. Len(moments'[q]) : moments'[q][n].index < used'[q]
          /\ status'[q] = "none" => moments'[q] = <<>> /\ used'[q] = 0
    BY <1>1, <2>1, <2>2, <2>3 DEF IInv, SessionInv
  <2> QED BY <2>1, <2>4, <2>5 DEF SessionInv
<1>4. HandlerInv'
  BY HandlersKept DEF IInv, SessionInv, Start
<1>5. RestInv'
  BY RestUnchanged DEF IInv, Start
<1> QED BY <1>3, <1>4, <1>5 DEF IInv

LEMMA EndStep ==
  ASSUME IInv, NEW p \in Passes, End(p)
  PROVE  IInv'
<1>1. SessionInv'
  <2>1. moments[p] \in Seq(Row) /\ moments' = [moments EXCEPT ![p] = moments[p]]
    BY DEF IInv, SessionInv, End
  <2>2. status' = [status EXCEPT ![p] = "ended"] /\ status[p] # "none"
    BY DEF End
  <2>3. used' = used /\ limit' = limit
    BY DEF End
  <2> QED BY <2>1, <2>2, <2>3, SessionStep DEF IInv
<1>2. HandlerInv'
  BY HandlersKept DEF IInv, SessionInv, End
<1>3. RestInv'
  BY RestUnchanged DEF IInv, End
<1> QED BY <1>1, <1>2, <1>3 DEF IInv

LEMMA ServeNothingStep ==
  ASSUME IInv, NEW p \in Passes, ServeNothing(p)
  PROVE  IInv'
<1>1. SessionInv'
  <2>1. moments[p] \in Seq(Row) /\ moments' = [moments EXCEPT ![p] = moments[p]]
    BY DEF IInv, SessionInv, ServeNothing
  <2>2. Claims(p) /\ status[p] # "none"
    BY DEF ServeNothing, Claims
  <2>3. status' = status /\ limit' = limit
    BY DEF ServeNothing
  <2> QED BY <2>1, <2>2, <2>3, SessionStep DEF IInv
<1>2. HandlerInv'
  BY HandlersKept DEF IInv, SessionInv, ServeNothing
<1>3. RestInv'
  BY RestUnchanged DEF IInv, ServeNothing
<1> QED BY <1>1, <1>2, <1>3 DEF IInv

\* What the end of serveNextMoment does to the memory.
LEMMA Remembers ==
  ASSUME RestInv, NEW p, NEW rows, NEW n, NEW c \in Pool \cup Ideas,
         NEW source, NEW embedded \in BOOLEAN,
         Serves(p, rows, n, c, source, embedded)
  PROVE  RestInv'
<1>1. memory' \subseteq [content : Pool \cup Ideas, embedded : BOOLEAN]
  BY DEF RestInv, Serves, Exposed
<1> QED BY <1>1 DEF RestInv, Serves, roomVars, NoGroupOverfull

LEMMA DiesKeepsRest ==
  ASSUME RestInv, Dies,
         \/ memory' = memory
         \/ \E c \in Pool \cup Ideas, embedded \in BOOLEAN :
              memory' \in {memory, Exposed(c, embedded)}
  PROVE  RestInv'
<1>1. crashes \in 0 .. MaxCrashes /\ 0 \in 0 .. MaxAttempts
  BY NumbersAssumption DEF RestInv
<1>2. crashes' \in 0 .. MaxCrashes
  BY <1>1, NumbersAssumption DEF Dies
<1>3. attempts' \in [Rooms -> 0 .. MaxAttempts]
  BY <1>1 DEF Dies
<1>4. memory' \subseteq [content : Pool \cup Ideas, embedded : BOOLEAN]
  BY DEF RestInv, Exposed
<1> QED BY <1>2, <1>3, <1>4 DEF RestInv, Dies, NoGroupOverfull

\* A slot is claimed and its moment served in the same turn.
LEMMA ServedAtOnce ==
  ASSUME IInv, NEW p \in Passes, Claims(p), limit' = limit,
         moments' = [moments EXCEPT ![p] =
           Written(Append(moments[p], NewMoment(p)), Len(moments[p]) + 1,
                   StaticChoice(used[p]), "static")],
         status' = status \/ status' = [status EXCEPT ![p] = "ended"]
  PROVE  /\ SessionInv'
         /\ handler' = handler => HandlerInv'
<1> DEFINE rows == Append(moments[p], NewMoment(p))
<1> DEFINE last == Len(moments[p]) + 1
<1> DEFINE c == StaticChoice(used[p])
<1> DEFINE written == Written(rows, last, c, "static")
<1>1. used[p] \in Nat /\ c \in Pool \cup Ideas
  BY StaticChoiceFresh DEF IInv, SessionInv
<1>3. /\ rows \in Seq(Row)
      /\ Len(rows) = last
      /\ Len(moments[p]) \in Nat
      /\ \A n \in 1 .. Len(moments[p]) : rows[n] = moments[p][n]
      /\ rows[Len(rows)].index = used[p]
  BY RowAppended DEF IInv
<1>4. /\ moments' = [moments EXCEPT ![p] = written]
      /\ status' = status \/ status' = [status EXCEPT ![p] = "ended"]
      /\ status[p] = "running"
  BY DEF Claims
<1> HIDE DEF rows, c, last
<1>5. /\ written \in Seq(Row)
      /\ Len(written) = Len(rows)
      /\ \A i \in 1 .. Len(rows) : written[i].index = rows[i].index
      /\ \A i \in 1 .. Len(rows) : i # last => written[i] = rows[i]
  <2>1. last \in Nat /\ "static" \in Sources
    BY <1>3 DEF last, Sources
  <2>2. rows \in Seq(Row)
    BY <1>3
  <2>3. c \in Pool \cup Ideas
    BY <1>1
  <2>4. OnlyWrites(rows, written, last, c)
    BY <2>1, <2>2, <2>3, RowWritten
  <2> HIDE DEF written
  <2> QED BY <2>4 DEF OnlyWrites
<1> USE DEF last
<1> HIDE DEF written
<1>6. /\ Len(written) = Len(moments[p]) + 1
      /\ written[Len(written)].index = used[p]
      /\ \A n \in 1 .. Len(moments[p]) :
           n \in 1 .. Len(written) /\ written[n] = moments[p][n]
  BY <1>3, <1>5
<1>7. SessionInv'
  BY <1>4, <1>5, <1>6, SessionStep DEF IInv
<1>8. handler' = handler => HandlerInv'
  BY <1>4, <1>6, HandlersKept DEF IInv, SessionInv
<1> QED BY <1>7, <1>8

LEMMA ServeStaticStep ==
  ASSUME IInv, NEW p \in Passes, ServeStatic(p)
  PROVE  IInv'
<1>1. Serves(p, Append(moments[p], NewMoment(p)), Len(moments[p]) + 1,
             StaticChoice(used[p]), "static", FALSE)
  BY DEF ServeStatic
<1>2. SessionInv' /\ HandlerInv'
  BY <1>1, ServedAtOnce DEF ServeStatic, Serves
<1>3. StaticChoice(used[p]) \in Pool \cup Ideas
  BY StaticChoiceFresh DEF IInv, SessionInv
<1>4. RestInv'
  BY <1>1, <1>3, Remembers DEF IInv
<1> QED BY <1>2, <1>4 DEF IInv

LEMMA ServeBeginStep ==
  ASSUME IInv, NEW h \in Handlers, NEW p \in Passes, ServeBegin(h, p)
  PROVE  IInv'
<1> DEFINE rows == Append(moments[p], NewMoment(p))
<1> DEFINE r == [phase |-> "generating", pass |-> p,
                 row |-> Len(moments[p]) + 1, attempt |-> 1]
<1>1. /\ handler[h] = Idle
      /\ Claims(p)
      /\ status[p] = "running"
      /\ handler' = [handler EXCEPT ![h] = r]
      /\ UNCHANGED <<status, limit, memory, aiOn, roomVars, crashes>>
  BY DEF ServeBegin, Claims
<1>2. /\ rows \in Seq(Row)
      /\ Len(rows) = Len(moments[p]) + 1
      /\ Len(moments[p]) \in Nat
      /\ \A n \in 1 .. Len(moments[p]) : rows[n] = moments[p][n]
      /\ rows[Len(rows)].index = used[p]
      /\ rows[Len(rows)].payload = {}
  BY RowAppended DEF IInv
<1>3. moments' = [moments EXCEPT ![p] = rows] /\ moments \in [Passes -> Seq(Row)]
  BY DEF ServeBegin, IInv, SessionInv
<1>4. /\ r.phase = "generating" /\ r.pass = p /\ r.row = Len(moments[p]) + 1
      /\ r.attempt = 1
  OBVIOUS
<1> HIDE DEF rows, r
<1>5. SessionInv'
  BY <1>1, <1>2, <1>3, SessionStep DEF IInv
<1>6. moments'[p] = rows /\ \A q \in Passes : q # p => moments'[q] = moments[q]
  BY <1>3
<1>7. HandlerInv'
  <2>1. handler'[h] = r /\ \A g \in Handlers : g # h => handler'[g] = handler[g]
    BY <1>1 DEF IInv, HandlerInv
  <2>2. DOMAIN handler' = Handlers
    BY <1>1 DEF IInv, HandlerInv
  <2>3. OwnRow(h)'
    BY <1>1, <1>2, <1>4, <1>6, <2>1 DEF OwnRow
  <2>4. ASSUME NEW g \in Handlers, g # h, handler[g] # Idle
        PROVE  OwnRow(g)' /\ (handler[g].pass # p \/ handler[g].row # r.row)
    <3>1. OwnRow(g)
      BY <2>4 DEF IInv, HandlerInv
    <3>2. CASE handler[g].pass = p
      <4>1. handler[g].row \in 1 .. Len(moments[p]) /\ handler'[g] = handler[g]
        BY <3>1, <3>2, <2>1, <2>4 DEF OwnRow
      <4>2. handler[g].row # r.row
        BY <4>1, <1>2, <1>4
      <4>3. /\ handler[g].row \in 1 .. Len(rows)
            /\ rows[handler[g].row] = moments[p][handler[g].row]
        BY <4>1, <1>2
      <4>4. OwnRow(g)'
        BY <3>1, <3>2, <4>1, <4>3, <1>1, <1>6 DEF OwnRow
      <4> QED BY <4>2, <4>4
    <3>3. CASE handler[g].pass # p
      BY <3>1, <3>3, <1>1, <1>6, <2>1, <2>4 DEF OwnRow
    <3> QED BY <3>2, <3>3
  <2>5. \A g \in Handlers : handler'[g] = Idle \/ OwnRow(g)'
    BY <2>1, <2>3, <2>4
  <2>6. \A f, g \in Handlers :
          f # g /\ handler'[f] # Idle /\ handler'[g] # Idle =>
            handler'[f].pass # handler'[g].pass \/ handler'[f].row # handler'[g].row
    BY <1>4, <2>1, <2>4 DEF IInv, HandlerInv
  <2> QED BY <2>2, <2>5, <2>6 DEF HandlerInv
<1>8. RestInv'
  BY <1>1, RestUnchanged DEF IInv
<1> QED BY <1>5, <1>7, <1>8 DEF IInv

\* A request writes its own row, which nobody else holds, and is done.
LEMMA FinishStep ==
  ASSUME IInv, NEW h \in Handlers, OwnRow(h), NEW c \in Pool \cup Ideas,
         NEW source \in Sources, NEW embedded \in BOOLEAN,
         Finish(h, c, source, embedded)
  PROVE  IInv'
<1> DEFINE p == handler[h].pass
<1> DEFINE n == handler[h].row
<1> DEFINE rows == Written(moments[p], n, c, source)
<1>1. \/ /\ Serves(p, moments[p], n, c, source, embedded)
         /\ handler' = [handler EXCEPT ![h] = Idle]
      \/ ServesAndDies(p, moments[p], n, c, source, embedded)
  BY DEF Finish
<1>2. used' = used
  BY DEF Finish
<1>3. p \in Passes /\ n \in 1 .. Len(moments[p]) /\ status[p] # "none"
  BY DEF OwnRow
<1>4. /\ moments \in [Passes -> Seq(Row)]
      /\ status \in [Passes -> {"none", "running", "ended"}]
      /\ moments[p] \in Seq(Row)
  BY <1>3 DEF IInv, SessionInv
<1>5. /\ moments' = [moments EXCEPT ![p] = rows]
      /\ status' = status \/ status' = [status EXCEPT ![p] = "ended"]
      /\ limit' = limit
  BY <1>1 DEF Serves, ServesAndDies
<1> HIDE DEF p, n
<1>6. /\ rows \in Seq(Row)
      /\ Len(rows) = Len(moments[p])
      /\ \A i \in 1 .. Len(moments[p]) : rows[i].index = moments[p][i].index
      /\ \A i \in 1 .. Len(moments[p]) : i # n => rows[i] = moments[p][i]
  <2>1. n \in Nat
    BY <1>3, <1>4
  <2>2. OnlyWrites(moments[p], rows, n, c)
    BY <2>1, <1>4, RowWritten
  <2> HIDE DEF rows
  <2> QED BY <2>2 DEF OnlyWrites
<1> HIDE DEF rows
<1>7. SessionInv'
  BY <1>2, <1>3, <1>5, <1>6, SessionStep DEF IInv
<1>8. /\ moments'[p] = rows
      /\ \A q \in Passes : q # p => moments'[q] = moments[q]
      /\ \A q \in Passes : status[q] # "none" => status'[q] # "none"
  BY <1>3, <1>4, <1>5
<1>9. ASSUME handler' = [handler EXCEPT ![h] = Idle] PROVE HandlerInv'
  <2>1. handler'[h] = Idle /\ \A g \in Handlers : g # h => handler'[g] = handler[g]
    BY <1>9 DEF IInv, HandlerInv
  <2>2. DOMAIN handler' = Handlers
    BY <1>9 DEF IInv, HandlerInv
  <2>3. handler[h] # Idle
    BY DEF OwnRow, Idle
  <2>4. ASSUME NEW g \in Handlers, g # h, handler[g] # Idle
        PROVE  OwnRow(g)'
    <3>1. OwnRow(g)
      BY <2>4 DEF IInv, HandlerInv
    <3>2. handler[g].pass # p \/ handler[g].row # n
      BY <2>3, <2>4 DEF IInv, HandlerInv, p, n
    <3>3. CASE handler[g].pass = p
      BY <3>1, <3>2, <3>3, <1>6, <1>8, <2>1, <2>4 DEF OwnRow
    <3>4. CASE handler[g].pass # p
      BY <3>1, <3>4, <1>8, <2>1, <2>4 DEF OwnRow
    <3> QED BY <3>3, <3>4
  <2>5. \A g \in Handlers : handler'[g] = Idle \/ OwnRow(g)'
    BY <2>1, <2>4
  <2>6. \A f, g \in Handlers :
          f # g /\ handler'[f] # Idle /\ handler'[g] # Idle =>
            handler'[f].pass # handler'[g].pass \/ handler'[f].row # handler'[g].row
    BY <2>1 DEF IInv, HandlerInv
  <2> QED BY <2>2, <2>5, <2>6 DEF HandlerInv
<1>10. CASE /\ Serves(p, moments[p], n, c, source, embedded)
            /\ handler' = [handler EXCEPT ![h] = Idle]
  BY <1>7, <1>9, <1>10, Remembers DEF IInv
<1>11. CASE ServesAndDies(p, moments[p], n, c, source, embedded)
  <2>1. Dies /\ memory' \in {memory, Exposed(c, embedded)}
    BY <1>11 DEF ServesAndDies
  <2>2. HandlerInv'
    BY <2>1, HandlersIdle DEF Dies
  <2>3. RestInv'
    BY <2>1, DiesKeepsRest DEF IInv
  <2> QED BY <1>7, <2>2, <2>3 DEF IInv
<1> QED BY <1>1, <1>10, <1>11

LEMMA GivesUpStep ==
  ASSUME IInv, NEW h \in Handlers, OwnRow(h), GivesUpAttempt(h)
  PROVE  IInv'
<1>1. CASE handler[h].attempt = 1
  <2> DEFINE r == [phase |-> "generating", pass |-> handler[h].pass,
                   row |-> handler[h].row, attempt |-> 2]
  <2>1. /\ handler' = [handler EXCEPT ![h] = r]
        /\ UNCHANGED <<sessionVars, aiOn, roomVars, crashes>>
    BY <1>1 DEF GivesUpAttempt
  <2>2. /\ r.phase = "generating" /\ r.pass = handler[h].pass
        /\ r.row = handler[h].row /\ r.attempt = 2
    OBVIOUS
  <2> HIDE DEF r
  <2>3. HandlerInv'
    BY <2>1, <2>2, HandlerMoves DEF IInv, sessionVars
  <2>4. SessionInv'
    BY <2>1, SessionUnchanged DEF IInv, sessionVars
  <2>5. RestInv'
    BY <2>1, RestUnchanged DEF IInv, sessionVars
  <2> QED BY <2>3, <2>4, <2>5 DEF IInv
<1>2. CASE handler[h].attempt = 2
  <2> DEFINE index == moments[handler[h].pass][handler[h].row].index
  <2>1. Finish(h, Natural(index), "fallback", FALSE)
    <3>1. handler[h].attempt # 1
      BY <1>2
    <3> QED BY <3>1, Zenon DEF GivesUpAttempt
  <2>2. index \in Nat
    <3>1. moments[handler[h].pass] \in Seq(Row)
      BY DEF IInv, SessionInv, OwnRow
    <3>2. moments[handler[h].pass][handler[h].row] \in Row
      BY <3>1 DEF OwnRow
    <3> QED BY <3>2 DEF Row
  <2> HIDE DEF index
  <2>3. Natural(index) \in Pool \cup Ideas
    BY <2>2, NumbersAssumption DEF Natural, Pool
  <2>4. "fallback" \in Sources
    BY DEF Sources
  <2> QED BY <2>1, <2>3, <2>4, FinishStep
<1> QED BY <1>1, <1>2 DEF OwnRow

LEMMA GeneratedStep ==
  ASSUME IInv, NEW h \in Handlers, NEW idea \in Ideas, Generated(h, idea)
  PROVE  IInv'
<1> DEFINE r == [phase |-> "embedding", pass |-> handler[h].pass,
                 row |-> handler[h].row, attempt |-> handler[h].attempt,
                 idea |-> idea]
<1>1. /\ handler' = [handler EXCEPT ![h] = r]
      /\ UNCHANGED <<sessionVars, aiOn, roomVars, crashes>>
      /\ handler[h].phase = "generating"
  BY DEF Generated
<1>2. OwnRow(h)
  BY <1>1 DEF IInv, HandlerInv, Idle
<1>3. /\ r.phase = "embedding" /\ r.pass = handler[h].pass
      /\ r.row = handler[h].row /\ r.attempt \in {1, 2} /\ r.idea \in Ideas
  BY <1>2 DEF OwnRow
<1> HIDE DEF r
<1>4. HandlerInv'
  BY <1>1, <1>2, <1>3, HandlerMoves DEF IInv, sessionVars
<1>5. SessionInv'
  BY <1>1, SessionUnchanged DEF IInv, sessionVars
<1>6. RestInv'
  BY <1>1, RestUnchanged DEF IInv, sessionVars
<1> QED BY <1>4, <1>5, <1>6 DEF IInv

LEMMA GenerationFailsStep ==
  ASSUME IInv, NEW h \in Handlers, GenerationFails(h)
  PROVE  IInv'
<1>1. OwnRow(h)
  BY DEF IInv, HandlerInv, GenerationFails, Idle
<1> QED BY <1>1, GivesUpStep DEF GenerationFails

LEMMA EmbeddedStep ==
  ASSUME IInv, NEW h \in Handlers, NEW embedded \in BOOLEAN, Embedded(h, embedded)
  PROVE  IInv'
<1>1. OwnRow(h) /\ handler[h].idea \in Ideas
  BY DEF IInv, HandlerInv, OwnRow, Embedded, Idle
<1>2. CASE GivesUpAttempt(h)
  BY <1>1, <1>2, GivesUpStep
<1>3. CASE Finish(h, handler[h].idea, "generated", embedded)
  <2>1. "generated" \in Sources
    BY DEF Sources
  <2> QED BY <1>1, <1>3, <2>1, FinishStep
<1> QED BY <1>2, <1>3 DEF Embedded

LEMMA InviteStep ==
  ASSUME IInv, NEW r \in Rooms, NEW p \in Passes, NEW size \in Seats,
         Invite(r, p, size)
  PROVE  IInv'
<1>1. SessionInv'
  BY SessionUnchanged DEF IInv, Invite, sessionVars
<1>2. HandlerInv'
  BY HandlersKept DEF IInv, SessionInv, Invite, sessionVars
<1>3. RestInv'
  <2>1. /\ host' \in [Rooms -> Passes \cup {NoPass}]
        /\ seats' \in [Rooms -> Seats \cup {0}] /\ seats'[r] = size
        /\ taken' \in [Rooms -> Nat] /\ taken'[r] = 1
        /\ \A o \in Rooms : o # r => seats'[o] = seats[o] /\ taken'[o] = taken[o]
    BY DEF IInv, RestInv, Invite
  <2>2. size \in Nat
    BY NumbersAssumption
  <2>3. NoGroupOverfull'
    BY <2>1, <2>2 DEF IInv, RestInv, NoGroupOverfull
  <2> QED BY <2>1, <2>3 DEF IInv, RestInv, Invite, sessionVars
<1> QED BY <1>1, <1>2, <1>3 DEF IInv

LEMMA InvitationExpiresStep ==
  ASSUME IInv, NEW r \in Rooms, InvitationExpires(r)
  PROVE  IInv'
<1>1. SessionInv'
  BY SessionUnchanged DEF IInv, InvitationExpires, sessionVars
<1>2. HandlerInv'
  BY HandlersKept DEF IInv, SessionInv, InvitationExpires, sessionVars
<1>3. RestInv'
  BY DEF IInv, RestInv, InvitationExpires, sessionVars, NoGroupOverfull
<1> QED BY <1>1, <1>2, <1>3 DEF IInv

LEMMA JoinStep ==
  ASSUME IInv, NEW r \in Rooms, Join(r)
  PROVE  IInv'
<1>1. SessionInv'
  BY SessionUnchanged DEF IInv, Join, sessionVars
<1>2. HandlerInv'
  BY HandlersKept DEF IInv, SessionInv, Join, sessionVars
<1>3. RestInv'
  <2>1. /\ taken \in [Rooms -> Nat] /\ attempts \in [Rooms -> 0 .. MaxAttempts]
        /\ seats \in [Rooms -> Seats \cup {0}]
    BY DEF IInv, RestInv
  <2>2. attempts' \in [Rooms -> 0 .. MaxAttempts]
    BY <2>1, NumbersAssumption DEF Join, RateAllows
  <2>3. \A o \in Rooms : taken[o] \in Nat /\ seats[o] \in Nat
    <3>1. \A z \in Seats \cup {0} : z \in Nat
      BY NumbersAssumption
    <3> QED BY <2>1, <3>1
  <2>4. \/ taken' = taken
        \/ taken[r] < seats[r] /\ taken' = [taken EXCEPT ![r] = taken[r] + 1]
    BY DEF Join, HasSeat
  <2>5. taken' \in [Rooms -> Nat]
    BY <2>1, <2>3, <2>4
  <2>6. NoGroupOverfull'
    <3>1. seats' = seats /\ NoGroupOverfull
      BY DEF Join, IInv, RestInv
    <3>2. CASE taken' = taken
      BY <3>1, <3>2 DEF NoGroupOverfull
    <3>3. CASE taken[r] < seats[r] /\ taken' = [taken EXCEPT ![r] = taken[r] + 1]
      BY <3>1, <3>3, <2>1, <2>3 DEF NoGroupOverfull
    <3> QED BY <2>4, <3>2, <3>3
  <2> QED BY <2>2, <2>5, <2>6 DEF IInv, RestInv, Join, sessionVars
<1> QED BY <1>1, <1>2, <1>3 DEF IInv

LEMMA AttemptAgesStep ==
  ASSUME IInv, NEW r \in Rooms, AttemptAges(r)
  PROVE  IInv'
<1>1. SessionInv'
  BY SessionUnchanged DEF IInv, AttemptAges, sessionVars
<1>2. HandlerInv'
  BY HandlersKept DEF IInv, SessionInv, AttemptAges, sessionVars
<1>3. RestInv'
  <2>1. attempts \in [Rooms -> 0 .. MaxAttempts]
    BY DEF IInv, RestInv
  <2>2. attempts' \in [Rooms -> 0 .. MaxAttempts]
    BY <2>1, NumbersAssumption DEF AttemptAges
  <2> QED BY <2>2 DEF IInv, RestInv, AttemptAges, sessionVars, NoGroupOverfull
<1> QED BY <1>1, <1>2, <1>3 DEF IInv

LEMMA SetGenerationStep ==
  ASSUME IInv, NEW on \in BOOLEAN, SetGeneration(on)
  PROVE  IInv'
<1>1. SessionInv'
  BY SessionUnchanged DEF IInv, SetGeneration, sessionVars
<1>2. HandlerInv'
  BY HandlersKept DEF IInv, SessionInv, SetGeneration, sessionVars
<1>3. RestInv'
  BY DEF IInv, RestInv, SetGeneration, sessionVars, roomVars, NoGroupOverfull
<1> QED BY <1>1, <1>2, <1>3 DEF IInv

LEMMA CrashStep ==
  ASSUME IInv, Crash
  PROVE  IInv'
<1>1. SessionInv'
  BY SessionUnchanged DEF IInv, Crash, sessionVars
<1>2. HandlerInv'
  BY HandlersIdle DEF Crash, Dies
<1>3. RestInv'
  BY DiesKeepsRest DEF IInv, Crash, sessionVars
<1> QED BY <1>1, <1>2, <1>3 DEF IInv

LEMMA ServeCutShortStep ==
  ASSUME IInv, NEW p \in Passes, ServeCutShort(p)
  PROVE  IInv'
<1>1. /\ Claims(p) /\ status[p] # "none"
      /\ status' = status /\ limit' = limit /\ Dies
  BY DEF ServeCutShort, ServesAndDies, Claims
<1>2. moments[p] \in Seq(Row) /\ moments \in [Passes -> Seq(Row)]
  BY DEF IInv, SessionInv
<1>3. HandlerInv'
  BY <1>1, HandlersIdle DEF Dies
<1>4. CASE moments' = moments /\ memory' = memory
  <2>1. moments' = [moments EXCEPT ![p] = moments[p]]
    BY <1>2, <1>4
  <2>2. SessionInv'
    BY <2>1, <1>1, <1>2, SessionStep DEF IInv
  <2>3. RestInv'
    BY <1>1, <1>4, DiesKeepsRest DEF IInv
  <2> QED BY <1>3, <2>2, <2>3 DEF IInv
<1>5. CASE /\ moments' = [moments EXCEPT ![p] = Append(moments[p], NewMoment(p))]
           /\ memory' = memory
  <2> DEFINE rows == Append(moments[p], NewMoment(p))
  <2>1. /\ rows \in Seq(Row)
        /\ Len(rows) = Len(moments[p]) + 1
        /\ \A n \in 1 .. Len(moments[p]) : rows[n] = moments[p][n]
        /\ rows[Len(rows)].index = used[p]
    BY RowAppended DEF IInv
  <2>2. moments' = [moments EXCEPT ![p] = rows]
    BY <1>5
  <2> HIDE DEF rows
  <2>3. SessionInv'
    BY <2>1, <2>2, <1>1, SessionStep DEF IInv
  <2>4. RestInv'
    BY <1>1, <1>5, DiesKeepsRest DEF IInv
  <2> QED BY <1>3, <2>3, <2>4 DEF IInv
<1>6. CASE ServesAndDies(p, Append(moments[p], NewMoment(p)), Len(moments[p]) + 1,
                         StaticChoice(used[p]), "static", FALSE)
  <2>1. SessionInv'
    BY <1>1, <1>6, ServedAtOnce DEF ServesAndDies
  <2>2. StaticChoice(used[p]) \in Pool \cup Ideas
    BY StaticChoiceFresh DEF IInv, SessionInv
  <2>3. memory' \in {memory, Exposed(StaticChoice(used[p]), FALSE)}
    BY <1>6 DEF ServesAndDies
  <2>4. RestInv'
    BY <1>1, <2>2, <2>3, DiesKeepsRest DEF IInv
  <2> QED BY <1>3, <2>1, <2>4 DEF IInv
<1> QED BY <1>4, <1>5, <1>6 DEF ServeCutShort

LEMMA NextInv == IInv /\ [Next]_vars => IInv'
<1> SUFFICES ASSUME IInv, [Next]_vars PROVE IInv'
  OBVIOUS
<1>1. ASSUME NEW p \in Passes, NEW ceiling \in Ceilings, Start(p, ceiling)
      PROVE  IInv'
  BY <1>1, StartStep
<1>2. ASSUME NEW p \in Passes, End(p) PROVE IInv'
  BY <1>2, EndStep
<1>3. ASSUME NEW p \in Passes, ServeStatic(p) PROVE IInv'
  BY <1>3, ServeStaticStep
<1>4. ASSUME NEW p \in Passes, ServeNothing(p) PROVE IInv'
  BY <1>4, ServeNothingStep
<1>5. ASSUME NEW p \in Passes, ServeCutShort(p) PROVE IInv'
  BY <1>5, ServeCutShortStep
<1>6. ASSUME NEW h \in Handlers, NEW p \in Passes, ServeBegin(h, p) PROVE IInv'
  BY <1>6, ServeBeginStep
<1>7. ASSUME NEW h \in Handlers, NEW idea \in Ideas, Generated(h, idea) PROVE IInv'
  BY <1>7, GeneratedStep
<1>8. ASSUME NEW h \in Handlers, GenerationFails(h) PROVE IInv'
  BY <1>8, GenerationFailsStep
<1>9. ASSUME NEW h \in Handlers, NEW embedded \in BOOLEAN, Embedded(h, embedded)
      PROVE  IInv'
  BY <1>9, EmbeddedStep
<1>10. ASSUME NEW r \in Rooms, NEW p \in Passes, NEW size \in Seats,
              Invite(r, p, size)
       PROVE  IInv'
  BY <1>10, InviteStep
<1>11. ASSUME NEW r \in Rooms,
              InvitationExpires(r) \/ Join(r) \/ AttemptAges(r)
       PROVE  IInv'
  BY <1>11, InvitationExpiresStep, JoinStep, AttemptAgesStep
<1>12. ASSUME NEW on \in BOOLEAN, SetGeneration(on) PROVE IInv'
  BY <1>12, SetGenerationStep
<1>13. CASE Crash
  BY <1>13, CrashStep
<1>14. CASE UNCHANGED vars
  <2>1. UNCHANGED <<sessionVars, aiOn, handler, roomVars, crashes>>
    BY <1>14 DEF vars
  <2>2. SessionInv'
    BY <2>1, SessionUnchanged DEF IInv, sessionVars
  <2>3. HandlerInv'
    BY <2>1, HandlersKept DEF IInv, SessionInv, sessionVars
  <2>4. RestInv'
    BY <2>1, RestUnchanged DEF IInv, sessionVars
  <2> QED BY <2>2, <2>3, <2>4 DEF IInv
<1> QED BY <1>1, <1>2, <1>3, <1>4, <1>5, <1>6, <1>7, <1>8, <1>9, <1>10,
           <1>11, <1>12, <1>13, <1>14 DEF Next

-----------------------------------------------------------------------------

\* The invariant of the specification: what the sessions, the suspended
\* requests and the groups are like in every reachable state.
THEOREM Invariance == Spec => []IInv
BY InitInv, NextInv, PTL DEF Spec

\* Every column has its type, and a suspended request a row of its own.
THEOREM TypeCorrect == Spec => []TypeOK
<1>1. IInv => TypeOK
  <2> SUFFICES ASSUME IInv PROVE TypeOK
    OBVIOUS
  <2>1. moments \in [Passes -> Seq([index : Nat, payload : SUBSET (Pool \cup Ideas),
                                   source : Sources])]
    BY DEF IInv, SessionInv, Row
  <2> QED BY <2>1 DEF IInv, SessionInv, HandlerInv, OwnRow, RestInv, TypeOK
<1> QED BY <1>1, Invariance, PTL

\* No session gives more moments than its ceiling, nor a slot twice.
THEOREM CeilingKept == Spec => []CeilingHolds
<1>1. IInv => CeilingHolds
  BY DEF IInv, SessionInv
<1> QED BY <1>1, Invariance, PTL

\* Nobody is in a group beyond its seats.
THEOREM GroupsKept == Spec => []NoGroupOverfull
<1>1. IInv => NoGroupOverfull
  BY DEF IInv, RestInv
<1> QED BY <1>1, Invariance, PTL

-----------------------------------------------------------------------------
(* What a step does to the sessions. *)

\* A slot is claimed and gets its row, perhaps with its content.
Appends(p) ==
  /\ Claims(p)
  /\ \E rows \in Seq(Row) :
       /\ moments' = [moments EXCEPT ![p] = rows]
       /\ Len(rows) = Len(moments[p]) + 1
       /\ \A i \in 1 .. Len(moments[p]) : rows[i] = moments[p][i]
       /\ rows[Len(rows)].index = used[p]
       /\ rows[Len(rows)].source = "static" =>
            rows[Len(rows)].payload = {StaticChoice(used[p])}
       /\ rows[Len(rows)].payload # {} /\ IsLast(used[p], p) =>
            status' = [status EXCEPT ![p] = "ended"] \/ crashes' > 0
  /\ limit' = limit
  /\ status' = status \/ status' = [status EXCEPT ![p] = "ended"]

\* A row gets its content.
Rewrites(p) ==
  /\ status[p] # "none"
  /\ \E rows \in Seq(Row) :
       /\ moments' = [moments EXCEPT ![p] = rows]
       /\ Len(rows) = Len(moments[p])
       /\ \E n \in 1 .. Len(moments[p]) :
            /\ \A i \in 1 .. Len(moments[p]) :
                 /\ rows[i].index = moments[p][i].index
                 /\ i # n => rows[i] = moments[p][i]
            /\ IsLast(moments[p][n].index, p) =>
                 status' = [status EXCEPT ![p] = "ended"] \/ crashes' > 0
  /\ limit' = limit
  /\ status' = status \/ status' = [status EXCEPT ![p] = "ended"]

LEMMA ServedAppends ==
  ASSUME IInv, NEW p \in Passes, Claims(p), limit' = limit,
         moments' = [moments EXCEPT ![p] =
           Written(Append(moments[p], NewMoment(p)), Len(moments[p]) + 1,
                   StaticChoice(used[p]), "static")],
         status' = status \/ status' = [status EXCEPT ![p] = "ended"],
         IsLast(used[p], p) =>
           status' = [status EXCEPT ![p] = "ended"] \/ crashes' > 0
  PROVE  Appends(p)
<1> DEFINE rows == Append(moments[p], NewMoment(p))
<1> DEFINE n == Len(moments[p]) + 1
<1> DEFINE c == StaticChoice(used[p])
<1> DEFINE written == Written(rows, n, c, "static")
<1>1. moments' = [moments EXCEPT ![p] = written]
  OBVIOUS
<1>2. c \in Pool \cup Ideas
  BY StaticChoiceFresh DEF IInv, SessionInv
<1>3. /\ rows \in Seq(Row) /\ Len(rows) = n /\ n \in Nat /\ n \in 1 .. Len(rows)
      /\ Len(moments[p]) \in Nat
      /\ \A i \in 1 .. Len(moments[p]) :
           rows[i] = moments[p][i] /\ i # n /\ i \in 1 .. Len(rows)
      /\ rows[n].index = used[p]
  BY RowAppended DEF IInv
<1> HIDE DEF rows, n
<1>4. "static" \in Sources
  BY DEF Sources
<1>5. /\ written \in Seq(Row) /\ Len(written) = Len(rows)
      /\ \A i \in 1 .. Len(rows) : written[i].index = rows[i].index
      /\ written[n].payload = {c}
      /\ \A i \in 1 .. Len(rows) : i # n => written[i] = rows[i]
  <2>1. rows \in Seq(Row) /\ n \in Nat
    BY <1>3
  <2>2. OnlyWrites(rows, written, n, c)
    BY <2>1, <1>2, <1>4, RowWritten
  <2> HIDE DEF written
  <2> QED BY <2>2, <1>3 DEF OnlyWrites
<1> HIDE DEF written, c
<1>6. /\ \A i \in 1 .. Len(moments[p]) : written[i] = moments[p][i]
      /\ written[n].index = used[p]
      /\ Len(written) = n
  BY <1>3, <1>5
<1> QED BY <1>1, <1>3, <1>5, <1>6 DEF Appends, n, c

LEMMA ServeStaticAppends ==
  ASSUME IInv, NEW p \in Passes, ServeStatic(p)
  PROVE  Appends(p)
<1> DEFINE rows == Append(moments[p], NewMoment(p))
<1> DEFINE n == Len(moments[p]) + 1
<1>1. rows[n].index = used[p]
  BY RowAppended DEF IInv
<1>2. Serves(p, rows, n, StaticChoice(used[p]), "static", FALSE)
  BY DEF ServeStatic
<1>3. /\ moments' = [moments EXCEPT ![p] =
           Written(rows, n, StaticChoice(used[p]), "static")]
      /\ status' = IF IsLast(rows[n].index, p)
                      THEN [status EXCEPT ![p] = "ended"] ELSE status
      /\ limit' = limit
  BY <1>2, Zenon DEF Serves
<1>4. Claims(p)
  BY DEF ServeStatic
<1>5. IsLast(used[p], p) => status' = [status EXCEPT ![p] = "ended"]
  BY <1>1, <1>3
<1>6. status' = status \/ status' = [status EXCEPT ![p] = "ended"]
  BY <1>3
<1> QED BY <1>3, <1>4, <1>5, <1>6, ServedAppends

LEMMA DeathCounts ==
  ASSUME IInv, Dies
  PROVE  crashes' > 0
BY DEF IInv, RestInv, Dies

LEMMA RowAppends ==
  ASSUME IInv, NEW p \in Passes, Claims(p), UNCHANGED <<status, limit>>,
         moments' = [moments EXCEPT ![p] = Append(moments[p], NewMoment(p))]
  PROVE  Appends(p)
<1> DEFINE rows == Append(moments[p], NewMoment(p))
<1>1. /\ rows \in Seq(Row) /\ Len(rows) = Len(moments[p]) + 1
      /\ \A i \in 1 .. Len(moments[p]) : rows[i] = moments[p][i]
      /\ rows[Len(rows)].index = used[p]
      /\ rows[Len(rows)].payload = {}
  BY RowAppended DEF IInv
<1>2. moments[p] \in Seq(Row)
  BY DEF IInv, SessionInv
<1>3. rows[Len(rows)].source # "static"
  <2>1. rows[Len(rows)] = NewMoment(p)
    BY <1>1, <1>2
  <2> QED BY <2>1 DEF NewMoment
<1> HIDE DEF rows
<1> QED BY <1>1, <1>3 DEF Appends, rows

LEMMA FinishRewrites ==
  ASSUME IInv, NEW h \in Handlers, OwnRow(h), NEW c \in Pool \cup Ideas,
         NEW source \in Sources, NEW embedded, Finish(h, c, source, embedded)
  PROVE  Rewrites(handler[h].pass)
<1> DEFINE p == handler[h].pass
<1> DEFINE n == handler[h].row
<1> DEFINE rows == Written(moments[p], n, c, source)
<1>1. /\ moments' = [moments EXCEPT ![p] = rows]
      /\ status' = status \/ status' = [status EXCEPT ![p] = "ended"]
      /\ limit' = limit
      /\ IsLast(moments[p][n].index, p) =>
           status' = [status EXCEPT ![p] = "ended"] \/ crashes' > 0
  <2>1. CASE Serves(p, moments[p], n, c, source, embedded)
    BY <2>1 DEF Serves
  <2>2. CASE ServesAndDies(p, moments[p], n, c, source, embedded)
    BY <2>2, DeathCounts DEF ServesAndDies
  <2> QED BY <2>1, <2>2 DEF Finish
<1>2. p \in Passes /\ n \in 1 .. Len(moments[p]) /\ status[p] # "none"
  BY DEF OwnRow
<1>3. moments[p] \in Seq(Row)
  BY <1>2 DEF IInv, SessionInv
<1>4. n \in Nat
  BY <1>2, <1>3
<1> HIDE DEF p, n
<1>5. /\ rows \in Seq(Row) /\ Len(rows) = Len(moments[p])
      /\ \A i \in 1 .. Len(moments[p]) : rows[i].index = moments[p][i].index
      /\ \A i \in 1 .. Len(moments[p]) : i # n => rows[i] = moments[p][i]
  <2>1. OnlyWrites(moments[p], rows, n, c)
    BY <1>3, <1>4, RowWritten
  <2> HIDE DEF rows
  <2> QED BY <2>1 DEF OnlyWrites
<1> HIDE DEF rows
<1>6. Rewrites(p)
  BY <1>1, <1>2, <1>5 DEF Rewrites
<1> QED BY <1>6 DEF p

Shape ==
  \/ UNCHANGED <<status, limit, moments>>
  \/ \E p \in Passes, ceiling \in Ceilings : Start(p, ceiling)
  \/ \E p \in Passes : End(p) \/ Appends(p) \/ Rewrites(p)

LEMMA StepShape ==
  ASSUME IInv, Next
  PROVE  Shape
<1> USE DEF Shape
<1>1. ASSUME NEW p \in Passes, ServeStatic(p) PROVE Shape
  BY <1>1, ServeStaticAppends
<1>2. ASSUME NEW p \in Passes, ServeNothing(p) PROVE Shape
  BY <1>2 DEF ServeNothing
<1>3. ASSUME NEW p \in Passes, ServeCutShort(p) PROVE Shape
  <2>1. Claims(p) /\ UNCHANGED <<status, limit>> /\ Dies
    BY <1>3 DEF ServeCutShort, ServesAndDies
  <2>2. CASE moments' = moments
    BY <2>1, <2>2
  <2>3. CASE moments' = [moments EXCEPT ![p] = Append(moments[p], NewMoment(p))]
    <3>1. Appends(p)
      BY <2>1, <2>3, RowAppends
    <3> QED BY <3>1
  <2>4. CASE moments' = [moments EXCEPT ![p] =
               Written(Append(moments[p], NewMoment(p)), Len(moments[p]) + 1,
                       StaticChoice(used[p]), "static")]
    <3>1. Appends(p)
      BY <2>1, <2>4, DeathCounts, ServedAppends
    <3> QED BY <3>1
  <2> QED BY <1>3, <2>2, <2>3, <2>4 DEF ServeCutShort, ServesAndDies
<1>4. ASSUME NEW h \in Handlers, NEW p \in Passes, ServeBegin(h, p) PROVE Shape
  <2>1. Appends(p)
    BY <1>4, RowAppends DEF ServeBegin
  <2> QED BY <2>1
<1>5. ASSUME NEW h \in Handlers, OwnRow(h), GivesUpAttempt(h) PROVE Shape
  <2>1. CASE UNCHANGED <<sessionVars, aiOn, roomVars, crashes>>
    BY <2>1 DEF sessionVars
  <2>2. CASE Finish(h, Natural(moments[handler[h].pass][handler[h].row].index),
                    "fallback", FALSE)
    <3> DEFINE index == moments[handler[h].pass][handler[h].row].index
    <3>1. index \in Nat
      <4>1. moments[handler[h].pass] \in Seq(Row)
        BY <1>5 DEF IInv, SessionInv, OwnRow
      <4>2. moments[handler[h].pass][handler[h].row] \in Row
        BY <1>5, <4>1 DEF OwnRow
      <4> QED BY <4>2 DEF Row
    <3>2. Natural(index) \in Pool \cup Ideas /\ "fallback" \in Sources
      <4> HIDE DEF index
      <4> QED BY <3>1, NumbersAssumption DEF Natural, Pool, Sources
    <3>3. Finish(h, Natural(index), "fallback", FALSE)
      BY <2>2, Zenon
    <3> HIDE DEF index
    <3>4. Rewrites(handler[h].pass) /\ handler[h].pass \in Passes
      BY <1>5, <3>2, <3>3, FinishRewrites DEF OwnRow
    <3> QED BY <3>4
  <2>3. \/ UNCHANGED <<sessionVars, aiOn, roomVars, crashes>>
        \/ Finish(h, Natural(moments[handler[h].pass][handler[h].row].index),
                  "fallback", FALSE)
    BY <1>5, Zenon DEF GivesUpAttempt
  <2> QED BY <2>1, <2>2, <2>3
<1>6. ASSUME NEW h \in Handlers, NEW embedded \in BOOLEAN, Embedded(h, embedded)
      PROVE  Shape
  <2>1. OwnRow(h) /\ handler[h].idea \in Ideas
    BY <1>6 DEF IInv, HandlerInv, OwnRow, Embedded, Idle
  <2>2. CASE GivesUpAttempt(h)
    BY <2>1, <2>2, <1>5
  <2>3. CASE Finish(h, handler[h].idea, "generated", embedded)
    <3>1. "generated" \in Sources
      BY DEF Sources
    <3>2. Rewrites(handler[h].pass) /\ handler[h].pass \in Passes
      BY <2>1, <2>3, <3>1, FinishRewrites DEF OwnRow
    <3> QED BY <3>2
  <2> QED BY <1>6, <2>2, <2>3 DEF Embedded
<1>7. ASSUME NEW h \in Handlers, GenerationFails(h) PROVE Shape
  <2>1. OwnRow(h) /\ GivesUpAttempt(h)
    BY <1>7 DEF IInv, HandlerInv, GenerationFails, Idle
  <2> QED BY <2>1, <1>5
<1>8. ASSUME NEW h \in Handlers, NEW idea \in Ideas, Generated(h, idea) PROVE Shape
  BY <1>8 DEF Generated, sessionVars
<1>9. ASSUME NEW r \in Rooms, NEW p \in Passes, NEW size \in Seats,
             Invite(r, p, size)
      PROVE  Shape
  BY <1>9 DEF Invite, sessionVars
<1>10. ASSUME NEW r \in Rooms,
              InvitationExpires(r) \/ Join(r) \/ AttemptAges(r)
       PROVE  Shape
  BY <1>10 DEF InvitationExpires, Join, AttemptAges, sessionVars
<1>11. ASSUME NEW on \in BOOLEAN, SetGeneration(on) PROVE Shape
  BY <1>11 DEF SetGeneration, sessionVars
<1>12. CASE Crash
  BY <1>12 DEF Crash, sessionVars
<1>13. ASSUME NEW p \in Passes, NEW ceiling \in Ceilings, Start(p, ceiling)
       PROVE  Shape
  BY <1>13
<1>14. ASSUME NEW p \in Passes, End(p) PROVE Shape
  BY <1>14
<1> HIDE DEF Shape
<1> QED
  BY <1>1, <1>2, <1>3, <1>4, <1>6, <1>7, <1>8, <1>9, <1>10, <1>11, <1>12,
     <1>13, <1>14 DEF Next

-----------------------------------------------------------------------------

\* A content of the pool comes back only when all of them were seen, whatever
\* generation and other sessions remember in between.
THEOREM NoRepeatBeforeAll == Spec => NoPrematureRepeat
<1>1. IInv /\ [Next]_vars =>
        [\A p \in Passes : \A n \in Len(moments[p]) + 1 .. Len(moments'[p]) :
           /\ moments'[p][n].source = "static"
           /\ moments'[p][n].payload \subseteq Remembered
           => Pool \subseteq Remembered]_vars
  <2> SUFFICES ASSUME IInv, Next, NEW p \in Passes,
                      NEW n \in Len(moments[p]) + 1 .. Len(moments'[p]),
                      moments'[p][n].source = "static",
                      moments'[p][n].payload \subseteq Remembered
               PROVE  Pool \subseteq Remembered
    OBVIOUS
  <2>1. moments \in [Passes -> Seq(Row)] /\ used[p] \in Nat
    BY DEF IInv, SessionInv
  <2>2. Len(moments[p]) \in Nat
    BY <2>1
  <2>3. ASSUME NEW q \in Passes, Appends(q) PROVE Pool \subseteq Remembered
    <3>1. PICK rows \in Seq(Row) :
            /\ moments' = [moments EXCEPT ![q] = rows]
            /\ Len(rows) = Len(moments[q]) + 1
            /\ rows[Len(rows)].source = "static" =>
                 rows[Len(rows)].payload = {StaticChoice(used[q])}
      BY <2>3 DEF Appends
    <3>2. q = p
      BY <2>1, <2>2, <3>1
    <3>3. n = Len(rows) /\ moments'[p][n] = rows[Len(rows)]
      BY <2>1, <2>2, <3>1, <3>2
    <3>4. StaticChoice(used[p]) \in Remembered
      BY <3>1, <3>2, <3>3
    <3> QED BY <2>1, <3>4, StaticChoiceFresh
  <2>4. ASSUME NEW q \in Passes, Rewrites(q) PROVE FALSE
    <3>1. PICK rows \in Seq(Row) :
            /\ moments' = [moments EXCEPT ![q] = rows]
            /\ Len(rows) = Len(moments[q])
      BY <2>4 DEF Rewrites
    <3>2. Len(moments'[p]) = Len(moments[p])
      BY <2>1, <3>1
    <3> QED BY <2>2, <3>2
  <2>5. CASE moments' = moments
    BY <2>2, <2>5
  <2> QED BY <2>3, <2>4, <2>5, StepShape DEF Shape, Start, End
<1> QED BY <1>1, Invariance, PTL DEF Spec, NoPrematureRepeat

-----------------------------------------------------------------------------
(* Groups stay closed. *)

LEMMA SessionsGoForward ==
  ASSUME IInv, Next, NEW p \in Passes, status[p] # "none"
  PROVE  /\ status'[p] # "none"
         /\ status[p] # "running" => status'[p] # "running"
<1> USE DEF IInv, SessionInv
<1>1. ASSUME NEW q \in Passes, NEW ceiling \in Ceilings, Start(q, ceiling)
      PROVE  status'[p] = status[p]
  BY <1>1 DEF Start, Existing
<1>2. ASSUME NEW q \in Passes, End(q) \/ Appends(q) \/ Rewrites(q)
      PROVE  status'[p] = status[p] \/ status'[p] = "ended"
  BY <1>2 DEF End, Appends, Rewrites
<1> QED BY <1>1, <1>2, StepShape DEF Shape

RoomsUnchanged ==
  /\ UNCHANGED <<host, seats, taken, stale>>
  /\ crashes' = crashes \/ crashes' = crashes + 1

RoomShape ==
  \/ RoomsUnchanged
  \/ \E r \in Rooms, p \in Passes, size \in Seats : Invite(r, p, size)
  \/ \E r \in Rooms : InvitationExpires(r) \/ Join(r)

LEMMA RoomStepShape ==
  ASSUME Next
  PROVE  RoomShape
<1> USE DEF RoomsUnchanged, roomVars
<1>1. ASSUME NEW p \in Passes, NEW ceiling \in Ceilings, Start(p, ceiling)
      PROVE  RoomsUnchanged
  BY <1>1 DEF Start
<1>2. ASSUME NEW p \in Passes,
             End(p) \/ ServeStatic(p) \/ ServeNothing(p) \/ ServeCutShort(p)
      PROVE  RoomsUnchanged
  BY <1>2 DEF End, ServeStatic, Serves, ServeNothing, ServeCutShort, ServesAndDies, Dies
<1>3. ASSUME NEW h \in Handlers, NEW p \in Passes, ServeBegin(h, p)
      PROVE  RoomsUnchanged
  BY <1>3 DEF ServeBegin
<1>4. ASSUME NEW h \in Handlers, NEW idea \in Ideas, Generated(h, idea)
      PROVE  RoomsUnchanged
  BY <1>4 DEF Generated
<1>5. ASSUME NEW h \in Handlers, GivesUpAttempt(h) PROVE RoomsUnchanged
  BY <1>5 DEF GivesUpAttempt, Finish, Serves, ServesAndDies, Dies
<1>6. ASSUME NEW h \in Handlers, GenerationFails(h) PROVE RoomsUnchanged
  BY <1>6, <1>5 DEF GenerationFails
<1>7. ASSUME NEW h \in Handlers, NEW embedded \in BOOLEAN, Embedded(h, embedded)
      PROVE  RoomsUnchanged
  BY <1>7, <1>5 DEF Embedded, Finish, Serves, ServesAndDies, Dies
<1>8. ASSUME NEW r \in Rooms, AttemptAges(r) PROVE RoomsUnchanged
  BY <1>8 DEF AttemptAges
<1>9. ASSUME NEW on \in BOOLEAN, SetGeneration(on) PROVE RoomsUnchanged
  BY <1>9 DEF SetGeneration
<1>10. ASSUME Crash PROVE RoomsUnchanged
  BY <1>10 DEF Crash, Dies
<1> HIDE DEF RoomsUnchanged, roomVars
<1> QED BY <1>1, <1>2, <1>3, <1>4, <1>6, <1>7, <1>8, <1>9, <1>10
        DEF RoomShape, Next

LEMMA CrashesGrow ==
  ASSUME IInv, [Next]_vars, crashes' = 0
  PROVE  crashes = 0
<1>1. crashes' = crashes \/ crashes' = crashes + 1
  BY RoomStepShape DEF vars, RoomShape, RoomsUnchanged, Invite, InvitationExpires, Join
<1>2. crashes \in Nat
  BY DEF IInv, RestInv
<1> QED BY <1>1, <1>2

\* Whoever invited has had a session.
HostInv == \A r \in Rooms : host[r] # NoPass => status[host[r]] # "none"

LEMMA HostInvariance == Spec => []HostInv
<1>1. Init => HostInv
  BY DEF Init, HostInv
<1>2. IInv /\ HostInv /\ [Next]_vars => HostInv'
  <2> SUFFICES ASSUME IInv, HostInv, Next, NEW r \in Rooms, host'[r] # NoPass
               PROVE  status'[host'[r]] # "none"
    BY DEF HostInv, vars, sessionVars, roomVars
  <2>1. host \in [Rooms -> Passes \cup {NoPass}]
    BY DEF IInv, RestInv
  <2>2. ASSUME host'[r] = host[r] PROVE status'[host'[r]] # "none"
    BY <2>1, <2>2, SessionsGoForward DEF HostInv
  <2>3. ASSUME NEW o \in Rooms, NEW p \in Passes, NEW size \in Seats,
               Invite(o, p, size)
        PROVE  status'[host'[r]] # "none"
    <3>1. CASE o = r
      <4>1. host'[r] = p /\ status[p] # "none"
        BY <2>1, <2>3, <3>1 DEF Invite
      <4> QED BY <4>1, SessionsGoForward
    <3>2. CASE o # r
      <4>1. host'[r] = host[r]
        BY <2>1, <2>3, <3>2 DEF Invite
      <4> QED BY <4>1, <2>2
    <3> QED BY <3>1, <3>2
  <2> QED BY <2>2, <2>3, RoomStepShape
          DEF RoomShape, RoomsUnchanged, InvitationExpires, Join
<1> QED BY <1>1, <1>2, Invariance, PTL DEF Spec

\* A group that is closed to the public stays as it is.
THEOREM ClosedForGood == Spec => ClosedGroupsStayClosed
<1>1. IInv /\ HostInv /\ [Next]_vars =>
        [\A r \in Rooms :
           host[r] # NoPass /\ (stale[r] \/ status[host[r]] # "running") =>
             /\ taken'[r] = taken[r]
             /\ stale'[r] \/ status'[host[r]] # "running"]_vars
  <2> SUFFICES ASSUME IInv, HostInv, Next, NEW r \in Rooms, host[r] # NoPass,
                      stale[r] \/ status[host[r]] # "running"
               PROVE  /\ taken'[r] = taken[r]
                      /\ stale'[r] \/ status'[host[r]] # "running"
    OBVIOUS
  <2>1. /\ host \in [Rooms -> Passes \cup {NoPass}]
        /\ taken \in [Rooms -> Nat]
        /\ stale \in [Rooms -> BOOLEAN]
    BY DEF IInv, RestInv
  <2>2. status[host[r]] # "running" => status'[host[r]] # "running"
    BY <2>1, SessionsGoForward DEF HostInv
  <2>3. taken'[r] = taken[r] /\ (stale[r] => stale'[r])
    <3>1. ASSUME NEW o \in Rooms, NEW p \in Passes, NEW size \in Seats,
                 Invite(o, p, size)
          PROVE  taken'[r] = taken[r] /\ stale'[r] = stale[r]
      BY <2>1, <3>1 DEF Invite
    <3>2. ASSUME NEW o \in Rooms, InvitationExpires(o)
          PROVE  taken'[r] = taken[r] /\ (stale[r] => stale'[r])
      BY <2>1, <3>2 DEF InvitationExpires
    <3>3. ASSUME NEW o \in Rooms, Join(o)
          PROVE  taken'[r] = taken[r] /\ stale'[r] = stale[r]
      <4>1. stale' = stale
        BY <3>3 DEF Join
      <4>2. CASE o = r
        BY <2>1, <3>3, <4>2 DEF Join, Open
      <4>3. CASE o # r
        BY <2>1, <3>3, <4>3 DEF Join
      <4> QED BY <4>1, <4>2, <4>3
    <3> QED BY <3>1, <3>2, <3>3, RoomStepShape DEF RoomShape, RoomsUnchanged
  <2> QED BY <2>2, <2>3
<1> QED BY <1>1, Invariance, HostInvariance, PTL DEF Spec, ClosedGroupsStayClosed

-----------------------------------------------------------------------------
(* A session is over with its last moment. *)

\* Rows are appended in the order of their slots, so the last of as many rows
\* as the ceiling has the last slot; and whoever fills it ends the session,
\* unless the process dies.
OverInv ==
  \A p \in Passes : \A n \in 1 .. Len(moments[p]) :
    /\ moments[p][n].index >= n - 1
    /\ crashes = 0 /\ moments[p][n].payload # {}
       /\ IsLast(moments[p][n].index, p) => status[p] # "running"

LEMMA OverInvariance == Spec => []OverInv
<1>1. Init => OverInv
  BY DEF Init, OverInv
<1>2. IInv /\ OverInv /\ [Next]_vars => OverInv'
  <2> SUFFICES ASSUME IInv, OverInv, [Next]_vars, NEW p \in Passes,
                      NEW n \in 1 .. Len(moments'[p])
               PROVE  /\ moments'[p][n].index >= n - 1
                      /\ crashes' = 0 /\ moments'[p][n].payload # {}
                         /\ moments'[p][n].index + 1 >= limit'[p] =>
                           status'[p] # "running"
    BY DEF OverInv, IsLast
  <2> DEFINE Concl == /\ moments'[p][n].index >= n - 1
                      /\ crashes' = 0 /\ moments'[p][n].payload # {}
                         /\ moments'[p][n].index + 1 >= limit'[p] =>
                           status'[p] # "running"
  <2>1. crashes' = 0 => crashes = 0 /\ ~(crashes' > 0)
    BY CrashesGrow
  <2>2. /\ status \in [Passes -> {"none", "running", "ended"}]
        /\ limit \in [Passes -> Ceilings \cup {0}]
        /\ moments \in [Passes -> Seq(Row)]
        /\ used[p] \in Nat
        /\ Len(moments[p]) \in Nat
        /\ Len(moments[p]) <= used[p]
    BY DEF IInv, SessionInv, CeilingHolds
  <2>3. \A i \in 1 .. Len(moments[p]) :
          /\ moments[p][i].index >= i - 1
          /\ crashes = 0 /\ moments[p][i].payload # {}
             /\ moments[p][i].index + 1 >= limit[p] => status[p] # "running"
    BY DEF OverInv, IsLast
  <2>4. ASSUME moments'[p] = moments[p], limit'[p] = limit[p],
               status[p] # "running" => status'[p] # "running"
        PROVE  Concl
    BY <2>1, <2>3, <2>4
  <2>5. ASSUME NEW q \in Passes, NEW ceiling \in Ceilings, Start(q, ceiling)
        PROVE  Concl
    <3>1. moments'[p] = moments[p] /\ moments[q] = <<>>
      BY <2>5 DEF Start, Existing, IInv, SessionInv
    <3>2. q # p
      BY <3>1
    <3> QED BY <2>2, <2>4, <2>5, <3>1, <3>2 DEF Start
  <2>6. ASSUME NEW q \in Passes, End(q) PROVE Concl
    BY <2>2, <2>4, <2>6 DEF End
  <2>7. ASSUME NEW q \in Passes, Appends(q) PROVE Concl
    <3>1. PICK rows \in Seq(Row) :
            /\ moments' = [moments EXCEPT ![q] = rows]
            /\ Len(rows) = Len(moments[q]) + 1
            /\ \A i \in 1 .. Len(moments[q]) : rows[i] = moments[q][i]
            /\ rows[Len(rows)].index = used[q]
            /\ rows[Len(rows)].payload # {} /\ IsLast(used[q], q) =>
                 status' = [status EXCEPT ![q] = "ended"] \/ crashes' > 0
      BY <2>7 DEF Appends
    <3>2. limit' = limit
      BY <2>7 DEF Appends
    <3>3. status[p] # "running" => status'[p] # "running"
      BY <2>2, <2>7 DEF Appends
    <3>4. CASE q # p
      BY <2>2, <2>4, <3>1, <3>2, <3>3, <3>4
    <3>5. CASE q = p /\ n \in 1 .. Len(moments[p])
      <4>1. moments'[p][n] = moments[p][n]
        BY <2>2, <3>1, <3>5
      <4> QED BY <2>1, <2>3, <3>2, <3>3, <3>5, <4>1
    <3>6. CASE q = p /\ n = Len(rows)
      <4>1. moments'[p][n] = rows[Len(rows)] /\ n = Len(moments[p]) + 1
        BY <2>2, <3>1, <3>6
      <4>2. (crashes' = 0 /\ rows[Len(rows)].payload # {} /\ used[p] + 1 >= limit[p]) =>
              status'[p] # "running"
        BY <2>1, <2>2, <3>1, <3>6 DEF IsLast
      <4> QED BY <2>2, <3>1, <3>2, <3>6, <4>1, <4>2
    <3> QED BY <2>2, <3>1, <3>4, <3>5, <3>6
  <2>8. ASSUME NEW q \in Passes, Rewrites(q) PROVE Concl
    <3>1. PICK rows \in Seq(Row) :
            /\ moments' = [moments EXCEPT ![q] = rows]
            /\ Len(rows) = Len(moments[q])
            /\ \E k \in 1 .. Len(moments[q]) :
                 /\ \A i \in 1 .. Len(moments[q]) :
                      /\ rows[i].index = moments[q][i].index
                      /\ i # k => rows[i] = moments[q][i]
                 /\ IsLast(moments[q][k].index, q) =>
                      status' = [status EXCEPT ![q] = "ended"] \/ crashes' > 0
      BY <2>8 DEF Rewrites
    <3>2. limit' = limit
      BY <2>8 DEF Rewrites
    <3>3. status[p] # "running" => status'[p] # "running"
      BY <2>2, <2>8 DEF Rewrites
    <3>4. CASE q # p
      BY <2>2, <2>4, <3>1, <3>2, <3>3, <3>4
    <3>5. CASE q = p
      <4>1. moments'[p] = rows /\ n \in 1 .. Len(moments[p])
        BY <2>2, <3>1, <3>5
      <4>2. PICK k \in 1 .. Len(moments[p]) :
              /\ \A i \in 1 .. Len(moments[p]) :
                   /\ rows[i].index = moments[p][i].index
                   /\ i # k => rows[i] = moments[p][i]
              /\ IsLast(moments[p][k].index, p) =>
                   status' = [status EXCEPT ![p] = "ended"] \/ crashes' > 0
        BY <3>1, <3>5
      <4>3. CASE n = k
        <5>1. crashes' = 0 /\ moments[p][n].index + 1 >= limit[p] =>
                status'[p] # "running"
          BY <2>1, <2>2, <4>2, <4>3 DEF IsLast
        <5> QED BY <2>3, <3>2, <4>1, <4>2, <5>1
      <4>4. CASE n # k
        BY <2>1, <2>3, <3>2, <3>3, <4>1, <4>2, <4>4
      <4> QED BY <4>3, <4>4
    <3> QED BY <3>4, <3>5
  <2>9. ASSUME UNCHANGED <<status, limit, moments>> PROVE Concl
    BY <2>4, <2>9
  <2> HIDE DEF Concl
  <2>10. Concl
    BY <2>5, <2>6, <2>7, <2>8, <2>9, StepShape DEF Shape, vars, sessionVars
  <2> QED BY <2>10 DEF Concl
<1> QED BY <1>1, <1>2, Invariance, PTL DEF Spec

\* A session whose last moment was served is over, in whatever order the
\* providers answered, unless the process died.
THEOREM OverInTheEnd == Spec => []OverWhenAllServed
<1>1. IInv /\ OverInv => OverWhenAllServed
  <2> SUFFICES ASSUME IInv, OverInv, NEW p \in Passes,
                      crashes = 0, limit[p] > 0, Len(moments[p]) = limit[p],
                      \A n \in 1 .. Len(moments[p]) : moments[p][n].payload # {}
               PROVE  status[p] = "ended"
    BY DEF OverWhenAllServed
  <2>1. /\ status[p] \in {"none", "running", "ended"}
        /\ limit[p] \in Ceilings \cup {0}
        /\ moments[p] \in Seq(Row)
        /\ status[p] = "none" => moments[p] = <<>>
    BY DEF IInv, SessionInv
  <2>2. limit[p] \in Nat
    <3>1. \A c \in Ceilings \cup {0} : c \in Nat
      BY NumbersAssumption
    <3> QED BY <2>1, <3>1
  <2>3. status[p] # "none"
    BY <2>1, <2>2
  <2>4. limit[p] \in 1 .. Len(moments[p])
    BY <2>2
  <2>5. /\ moments[p][limit[p]].index >= limit[p] - 1
        /\ moments[p][limit[p]].index + 1 >= limit[p] => status[p] # "running"
    BY <2>4 DEF OverInv, IsLast
  <2>6. moments[p][limit[p]].index \in Nat
    <3>1. moments[p][limit[p]] \in Row
      BY <2>1, <2>4
    <3> QED BY <3>1 DEF Row
  <2>7. status[p] # "running"
    BY <2>2, <2>5, <2>6
  <2> QED BY <2>1, <2>3, <2>7
<1> QED BY <1>1, Invariance, OverInvariance, PTL

-----------------------------------------------------------------------------
(* The refinement of MomentAllowance. *)

Enjoyed == [p \in Passes |-> Len(moments[p])]

LEMMA AppendsRefines ==
  ASSUME IInv, NEW p \in Passes, Appends(p)
  PROVE  Promise!Enjoy(p)
<1>1. PICK rows \in Seq(Row) :
        /\ moments' = [moments EXCEPT ![p] = rows]
        /\ Len(rows) = Len(moments[p]) + 1
  BY DEF Appends
<1>2. /\ status \in [Passes -> {"none", "running", "ended"}]
      /\ moments \in [Passes -> Seq(Row)]
      /\ used[p] \in Nat
      /\ limit[p] \in Ceilings \cup {0}
  BY DEF IInv, SessionInv
<1>3. limit[p] \in Nat /\ Len(moments[p]) \in Nat
  <2>1. \A c \in Ceilings \cup {0} : c \in Nat
    BY NumbersAssumption
  <2> QED BY <2>1, <1>2
<1>4. status[p] = "running" /\ used[p] < limit[p] /\ Len(moments[p]) <= used[p]
  BY DEF Appends, Claims, IInv, SessionInv, CeilingHolds
<1>5. Enjoyed[p] = Len(moments[p]) /\ Enjoyed[p] < limit[p]
  BY <1>2, <1>3, <1>4 DEF Enjoyed
<1>6. Enjoyed' = [Enjoyed EXCEPT ![p] = Enjoyed[p] + 1]
  <2>1. \A q \in Passes : Len(moments'[q]) = IF q = p THEN Len(moments[q]) + 1
                                                   ELSE Len(moments[q])
    BY <1>1, <1>2
  <2> QED BY <2>1 DEF Enjoyed
<1>7. \E s \in {"running", "ended"} : status' = [status EXCEPT ![p] = s]
  <2>1. CASE status' = status
    <3>1. status' = [status EXCEPT ![p] = "running"]
      BY <2>1, <1>2, <1>4
    <3> QED BY <3>1
  <2>2. CASE status' = [status EXCEPT ![p] = "ended"]
    BY <2>2
  <2> QED BY <2>1, <2>2 DEF Appends
<1>8. limit' = limit
  BY DEF Appends
<1> QED BY <1>4, <1>5, <1>6, <1>7, <1>8, Zenon DEF Promise!Enjoy, Enjoyed

LEMMA RewritesRefines ==
  ASSUME IInv, NEW p \in Passes, Rewrites(p)
  PROVE  Promise!Close(p) \/ UNCHANGED Promise!vars
<1>1. PICK rows \in Seq(Row) :
        /\ moments' = [moments EXCEPT ![p] = rows]
        /\ Len(rows) = Len(moments[p])
  BY DEF Rewrites
<1>2. /\ status \in [Passes -> {"none", "running", "ended"}]
      /\ moments \in [Passes -> Seq(Row)]
  BY DEF IInv, SessionInv
<1>3. Enjoyed' = Enjoyed
  BY <1>1, <1>2 DEF Enjoyed
<1>4. limit' = limit
  BY DEF Rewrites
<1>5. CASE status' = status
  BY <1>3, <1>4, <1>5, Zenon DEF Promise!vars, Enjoyed
<1>6. CASE status' = [status EXCEPT ![p] = "ended"] /\ status[p] = "running"
  BY <1>3, <1>4, <1>6, Zenon DEF Promise!Close, Enjoyed
<1>7. CASE status' = [status EXCEPT ![p] = "ended"] /\ status[p] = "ended"
  <2>1. status' = status
    BY <1>2, <1>7
  <2> QED BY <2>1, <1>5
<1> QED BY <1>2, <1>5, <1>6, <1>7 DEF Rewrites

\* A pass has one session with one allowance, and nothing after its end.
THEOREM RefinesMomentAllowance == Spec => KeepsAllowance
<1>1. Init => Promise!Init
  <2> SUFFICES ASSUME Init PROVE Promise!Init
    OBVIOUS
  <2>1. \A p \in Passes : Len(moments[p]) = 0
    BY DEF Init
  <2>2. [p \in Passes |-> Len(moments[p])] = [p \in Passes |-> 0]
    BY <2>1
  <2> QED BY <2>2, Zenon DEF Init, Promise!Init
<1>2. IInv /\ [Next]_vars => [Promise!Next]_Promise!vars
  <2> SUFFICES ASSUME IInv, [Next]_vars
               PROVE  Promise!Next \/ UNCHANGED Promise!vars
    OBVIOUS
  <2>1. CASE UNCHANGED <<status, limit, moments>>
    <3>1. Enjoyed' = Enjoyed
      BY <2>1 DEF Enjoyed
    <3> QED BY <2>1, <3>1, Zenon DEF Promise!vars, Enjoyed
  <2>2. ASSUME NEW p \in Passes, NEW ceiling \in Ceilings, Start(p, ceiling)
        PROVE  Promise!Open(p)
    <3>1. status[p] = "none"
      BY <2>2 DEF Start, Existing
    <3>2. Enjoyed' = Enjoyed
      BY <2>2 DEF Start, Enjoyed
    <3>3. /\ status' = [status EXCEPT ![p] = "running"]
          /\ limit' = [limit EXCEPT ![p] = ceiling]
      BY <2>2 DEF Start
    <3> QED BY <3>1, <3>2, <3>3, <2>2, Zenon DEF Promise!Open, Enjoyed
  <2>3. ASSUME NEW p \in Passes, End(p) PROVE Promise!Close(p)
    <3>1. Enjoyed' = Enjoyed
      BY <2>3 DEF End, Enjoyed
    <3> QED BY <3>1, <2>3, Zenon DEF End, Promise!Close, Enjoyed
  <2>4. ASSUME Next PROVE Shape
    BY <2>4, StepShape
  <2>5. ASSUME UNCHANGED vars PROVE Shape
    BY <2>5 DEF vars, sessionVars, Shape
  <2> QED BY <2>1, <2>2, <2>3, <2>4, <2>5, AppendsRefines, RewritesRefines
          DEF Shape, Promise!Next
<1> QED BY <1>1, <1>2, Invariance, PTL DEF Spec, KeepsAllowance, Promise!Spec
=============================================================================
