----------------------------- MODULE GuestProofs -----------------------------
(***************************************************************************)
(* Theorems about the guest's page (GuestApp). They hold for any number of *)
(* visits, orders and calls under way.                                     *)
(*                                                                         *)
(* A visit is charged once because the page holds on to the first order it *)
(* was answered: what can be charged is what the page has or had in hand,  *)
(* and of each visit that is one order, although answers of earlier visits *)
(* may still come and bring their orders back to the page.                 *)
(***************************************************************************)
EXTENDS GuestApp, FiniteSetTheorems, TLAPS

-----------------------------------------------------------------------------
(* The calls.                                                              *)

Kinds == {"create", "policy", "pay", "track", "poll", "feedback"}
AboutAnOrder == {"pay", "track", "poll", "feedback"}

\* A call's row of the table, against a page and a server.
Call(r) ==
  /\ DOMAIN r = {"kind", "order", "visit", "stage", "answer"}
  /\ r.kind \in Kinds /\ r.stage \in {"sent", "answered", "abandoned"}
  /\ r.visit \in Nat /\ r.visit <= visit
  /\ r.kind \in AboutAnOrder => r.order \in DOMAIN orders
  /\ r.stage = "answered" =>
       /\ r.kind = "create" => r.answer.id \in DOMAIN orders /\ r.answer.status \in Statuses
       /\ r.kind \in {"pay", "track", "poll"} => r.answer \in Statuses

\* What a patient guest waits for.
Foreground(r) == r # Idle /\ r.stage # "abandoned" /\ r.kind \notin Background

Creating(r) == r # Idle /\ r.stage # "abandoned" /\ r.kind = "create"

About(r) == r # Idle /\ r.kind \in AboutAnOrder

Order == [status : Statuses, captured : BOOLEAN, visit : Nat]

GuestTypes ==
  /\ orders \in Seq(Order)
  /\ visit \in Nat /\ \A o \in DOMAIN orders : orders[o].visit <= visit
  /\ mine = None \/ mine \in [id : DOMAIN orders, status : Statuses]
  /\ calls = [c \in Slots |-> calls[c]]
  /\ \A c \in Slots : calls[c] # Idle => Call(calls[c])

\* The order was charged, is the page's, or a call is about it that may still
\* charge it or bring it back to the page.
Held(o) ==
  \/ orders[o].captured
  \/ mine # None /\ mine.id = o
  \/ \E c \in Slots : About(calls[c]) /\ calls[c].order = o

NothingYet == \A o \in DOMAIN orders : orders[o].visit = visit => ~Held(o)

OneHeld ==
  \A o, p \in DOMAIN orders : Held(o) /\ Held(p) /\ orders[o].visit = orders[p].visit => o = p

OneAwaited ==
  \A c, d \in Slots : Foreground(calls[c]) /\ Foreground(calls[d]) => c = d

\* While the visit's order is being created, none is held.
CreatesFirst ==
  \A c \in Slots : Creating(calls[c]) =>
    /\ calls[c].visit = visit /\ NothingYet
    /\ calls[c].stage = "answered" => orders[calls[c].answer.id].visit = visit

GuestInv ==
  /\ GuestTypes /\ OneHeld /\ OneAwaited /\ CreatesFirst
  /\ mine = None => NothingYet

\* The orders change by what the server and the kitchen do: more of them, and
\* charges of those that were held.
OrdersKeep ==
  /\ orders' \in Seq(Order)
  /\ DOMAIN orders \subseteq DOMAIN orders'
  /\ \A o \in DOMAIN orders : orders'[o].visit = orders[o].visit
  /\ \A o \in DOMAIN orders' : orders'[o].visit <= visit
  /\ \A o \in DOMAIN orders' : orders'[o].captured => o \in DOMAIN orders /\ Held(o)

LEMMA OrdersStay ==
  ASSUME GuestInv, orders' = orders
  PROVE  OrdersKeep
BY DEF GuestInv, GuestTypes, OrdersKeep, Held

\* What is held afterwards was held before: then nothing else is to be shown of
\* what is held.
LEMMA HeldKept ==
  ASSUME GuestInv, OrdersKeep, visit' = visit, mine' = None => mine = None,
         \A o \in DOMAIN orders' : Held(o)' => o \in DOMAIN orders /\ Held(o)
  PROVE  OneHeld' /\ (NothingYet => NothingYet') /\ (mine' = None => NothingYet')
<1>1. OneHeld'
  <2> SUFFICES ASSUME NEW o \in DOMAIN orders', NEW p \in DOMAIN orders',
                      Held(o)', Held(p)', orders'[o].visit = orders'[p].visit
               PROVE  o = p
    BY DEF OneHeld
  <2> QED BY DEF GuestInv, OneHeld, OrdersKeep
<1>2. NothingYet => NothingYet'
  BY DEF NothingYet, OrdersKeep
<1> QED BY <1>1, <1>2 DEF GuestInv

\* One slot of the table is written, with nothing or with a call that follows
\* from what the page holds.
LEMMA CallWritten ==
  ASSUME GuestInv, OrdersKeep, visit' = visit, mine' = None => mine = None,
         \/ mine' = None
         \/ mine' \in [id : DOMAIN orders, status : Statuses] /\ Held(mine'.id),
         NEW c, NEW r, calls' = [calls EXCEPT ![c] = r],
         r # Idle => Call(r)',
         About(r) => r.order \in DOMAIN orders /\ Held(r.order),
         Foreground(r) => \/ c \in Slots /\ Foreground(calls[c])
                          \/ \A d \in Slots : ~Foreground(calls[d]),
         Creating(r) => /\ r.visit = visit /\ NothingYet
                        /\ r.stage = "answered" => orders'[r.answer.id].visit = visit
  PROVE  GuestInv'
<1>1. \A d \in Slots : calls'[d] = calls[d] \/ (d = c /\ calls'[d] = r)
  BY DEF GuestInv, GuestTypes
<1>2. \A o \in DOMAIN orders' : Held(o)' => o \in DOMAIN orders /\ Held(o)
  <2> SUFFICES ASSUME NEW o \in DOMAIN orders', Held(o)'
               PROVE  o \in DOMAIN orders /\ Held(o)
    OBVIOUS
  <2>1. CASE orders'[o].captured
    BY <2>1 DEF OrdersKeep
  <2>2. CASE mine' # None /\ mine'.id = o
    BY <2>2
  <2>3. ASSUME NEW d \in Slots, About(calls'[d]), calls'[d].order = o
        PROVE  o \in DOMAIN orders /\ Held(o)
    <3>1. CASE calls'[d] = r
      BY <2>3, <3>1
    <3>2. CASE calls'[d] = calls[d]
      BY <2>3, <3>2 DEF Held, About, GuestInv, GuestTypes, Call
    <3> QED BY <1>1, <3>1, <3>2
  <2>4. Slots' = Slots
    BY DEF Slots
  <2> QED BY <2>1, <2>2, <2>3, <2>4 DEF Held
<1>3. OneHeld' /\ (NothingYet => NothingYet') /\ (mine' = None => NothingYet')
  BY <1>2, HeldKept
<1>4. \A d \in Slots : calls'[d] # Idle => Call(calls[d])'
  <2> SUFFICES ASSUME NEW d \in Slots, calls'[d] # Idle PROVE Call(calls[d])'
    OBVIOUS
  <2>1. CASE calls'[d] = r
    BY <2>1 DEF Call
  <2>2. CASE calls'[d] = calls[d]
    <3>1. Call(calls[d])
      BY <2>2 DEF GuestInv, GuestTypes
    <3> QED BY <2>2, <3>1 DEF Call, OrdersKeep
  <2> QED BY <1>1, <2>1, <2>2
<1>5. GuestTypes'
  <2>1. mine' = None \/ mine' \in [id : DOMAIN orders', status : Statuses]
    BY DEF OrdersKeep
  <2>2. calls' = [d \in Slots |-> calls'[d]] /\ Slots' = Slots
    <3>1. calls = [d \in Slots |-> calls[d]]
      BY DEF GuestInv, GuestTypes
    <3>2. calls' = [d \in Slots |-> IF d = c THEN r ELSE calls[d]]
      BY <3>1
    <3> QED BY <3>2 DEF Slots
  <2> QED BY <1>4, <2>1, <2>2 DEF GuestInv, GuestTypes, OrdersKeep
<1>6. OneAwaited'
  <2> SUFFICES ASSUME NEW d \in Slots, NEW e \in Slots,
                      Foreground(calls'[d]), Foreground(calls'[e])
               PROVE  d = e
    BY DEF OneAwaited, Slots
  <2> QED BY <1>1 DEF GuestInv, OneAwaited
<1>7. CreatesFirst'
  <2> SUFFICES ASSUME NEW d \in Slots, Creating(calls'[d])
               PROVE  /\ calls'[d].visit = visit /\ NothingYet
                      /\ calls'[d].stage = "answered" => orders'[calls'[d].answer.id].visit = visit
    BY <1>3 DEF CreatesFirst, Slots
  <2>1. CASE calls'[d] = r
    BY <2>1
  <2>2. CASE calls'[d] = calls[d]
    <3>1. calls[d].visit = visit /\ NothingYet
            /\ (calls[d].stage = "answered" => orders[calls[d].answer.id].visit = visit)
      BY <2>2 DEF GuestInv, CreatesFirst
    <3>2. calls[d].stage = "answered" => calls[d].answer.id \in DOMAIN orders
      BY <2>2 DEF GuestInv, GuestTypes, Call, Creating
    <3> QED BY <2>2, <3>1, <3>2 DEF OrdersKeep
  <2> QED BY <1>1, <2>1, <2>2
<1> QED BY <1>3, <1>5, <1>6, <1>7 DEF GuestInv

LEMMA CallsStay ==
  ASSUME GuestInv, OrdersKeep, visit' = visit, mine' = mine, calls' = calls
  PROVE  GuestInv'
<1>1. mine = None \/ (mine \in [id : DOMAIN orders, status : Statuses] /\ Held(mine.id))
  BY DEF GuestInv, GuestTypes, Held
<1>2. PICK c : c \notin Slots
  <2>1. 0 \notin Slots
    BY DEF Slots
  <2> QED BY <2>1
<1>3. calls' = [calls EXCEPT ![c] = Idle]
  <2>1. calls = [d \in Slots |-> calls[d]]
    BY DEF GuestInv, GuestTypes
  <2> QED BY <1>2, <2>1
<1> QED BY <1>1, <1>3, CallWritten DEF About, Foreground, Creating

LEMMA Writes ==
  ASSUME GuestInv, visit' = visit, mine' = mine, orders' = orders,
         NEW c, NEW r, calls' = [calls EXCEPT ![c] = r],
         r # Idle => Call(r),
         About(r) => r.order \in DOMAIN orders /\ Held(r.order),
         Foreground(r) => \/ c \in Slots /\ Foreground(calls[c])
                          \/ \A d \in Slots : ~Foreground(calls[d]),
         Creating(r) => /\ r.visit = visit /\ NothingYet
                        /\ r.stage = "answered" => orders[r.answer.id].visit = visit
  PROVE  GuestInv'
<1>1. mine = None \/ (mine \in [id : DOMAIN orders, status : Statuses] /\ Held(mine.id))
  BY DEF GuestInv, GuestTypes, Held
<1>2. OrdersKeep
  BY OrdersStay
<1>3. r # Idle => Call(r)'
  BY DEF Call
<1> QED BY <1>1, <1>2, <1>3, CallWritten

\* The buttons are pressed while nothing is awaited.
LEMMA Waits ==
  ASSUME Impatient = FALSE, MayPress
  PROVE  \A d \in Slots : ~Foreground(calls[d])
BY DEF MayPress, Awaited, UnderWay, Foreground

LEMMA SendKeeps ==
  ASSUME GuestInv, UNCHANGED <<visit, mine, orders>>,
         NEW kind \in Kinds, NEW order, Send(kind, order),
         kind \notin Background => \A d \in Slots : ~Foreground(calls[d]),
         kind \in AboutAnOrder => order \in DOMAIN orders /\ Held(order),
         kind = "create" => mine = None
  PROVE  GuestInv'
<1>0. PICK r : r = [kind |-> kind, order |-> order, visit |-> visit, stage |-> "sent",
                    answer |-> None]
  OBVIOUS
<1>1. PICK c : calls' = [calls EXCEPT ![c] = r]
  BY <1>0 DEF Send
<1>2. Call(r)
  BY <1>0 DEF Call, GuestInv, GuestTypes
<1>3. kind = "create" => NothingYet
  BY DEF GuestInv
<1>4. About(r) => r.order \in DOMAIN orders /\ Held(r.order)
  BY <1>0 DEF About
<1>5. Foreground(r) => \A d \in Slots : ~Foreground(calls[d])
  BY <1>0 DEF Foreground
<1>6. Creating(r) => r.visit = visit /\ NothingYet /\ r.stage # "answered"
  BY <1>0, <1>3 DEF Creating
<1> QED BY <1>1, <1>2, <1>4, <1>5, <1>6, Writes

LEMMA MineIsHeld ==
  ASSUME GuestInv, mine # None
  PROVE  mine \in [id : DOMAIN orders, status : Statuses] /\ Held(mine.id)
BY DEF GuestInv, GuestTypes, Held

LEMMA PressKeeps ==
  ASSUME Impatient = FALSE, GuestInv, Press
  PROVE  GuestInv'
<1>1. ASSUME UNCHANGED <<visit, mine, orders, calls>> PROVE GuestInv'
  BY <1>1, OrdersStay, CallsStay
<1>2. ASSUME NEW link \in Links, Follow(link[1], link[2]) PROVE GuestInv'
  BY <1>1, <1>2 DEF Follow, serverVars
<1>3. ASSUME FillCart PROVE GuestInv'
  BY <1>1, <1>3 DEF FillCart, serverVars
<1>4. ASSUME EmptyCart PROVE GuestInv'
  BY <1>1, <1>4 DEF EmptyCart, serverVars
<1>5. ASSUME GoCheckout PROVE GuestInv'
  <2>1. Send("policy", 0) /\ UNCHANGED <<visit, mine, orders>> /\ MayPress
    BY <1>5 DEF GoCheckout, pageVars, serverVars
  <2> QED BY <2>1, Waits, SendKeeps DEF Kinds, AboutAnOrder
<1>6. ASSUME SubmitPayment PROVE GuestInv'
  <2>1. UNCHANGED <<visit, mine, orders>> /\ MayPress
    BY <1>6 DEF SubmitPayment, serverVars
  <2>2. CASE mine = None /\ Send("create", 0)
    BY <2>1, <2>2, Waits, SendKeeps DEF Kinds, AboutAnOrder
  <2>3. CASE UNCHANGED calls
    BY <1>1, <2>1, <2>3
  <2>4. CASE mine # None /\ Send("pay", mine.id)
    BY <2>1, <2>4, MineIsHeld, Waits, SendKeeps DEF Kinds
  <2> QED BY <1>6, <2>2, <2>3, <2>4 DEF SubmitPayment, NeedsOrder
<1>7. ASSUME GoTrack PROVE GuestInv'
  <2>1. Send("track", mine.id) /\ UNCHANGED <<visit, mine, orders>> /\ MayPress /\ mine # None
    BY <1>7 DEF GoTrack, pageVars, serverVars
  <2> QED BY <2>1, MineIsHeld, Waits, SendKeeps DEF Kinds
<1>8. ASSUME SubmitFeedback PROVE GuestInv'
  <2>1. Send("feedback", mine.id) /\ UNCHANGED <<visit, mine, orders>> /\ MayPress /\ mine # None
    BY <1>8 DEF SubmitFeedback, pageVars, serverVars
  <2> QED BY <2>1, MineIsHeld, Waits, SendKeeps DEF Kinds
<1>9. ASSUME StartNewOrder PROVE GuestInv'
  <2>1. /\ mine' = None /\ visit' = visit + 1 /\ calls' = calls /\ orders' = orders
        /\ \A d \in Slots : ~Foreground(calls[d])
    BY <1>9, Waits DEF StartNewOrder, serverVars
  <2>2. GuestTypes'
    <3>1. ASSUME NEW c \in Slots, calls'[c] # Idle PROVE Call(calls[c])'
      <4>1. Call(calls[c]) /\ visit \in Nat
        BY <2>1, <3>1 DEF GuestInv, GuestTypes
      <4> QED BY <2>1, <4>1 DEF Call
    <3>2. visit' \in Nat /\ \A o \in DOMAIN orders' : orders'[o].visit <= visit'
      <4>1. \A o \in DOMAIN orders : orders[o].visit \in Nat /\ orders[o].visit <= visit
        <5>1. orders \in Seq(Order)
          BY DEF GuestInv, GuestTypes
        <5>2. \A o \in DOMAIN orders : orders[o] \in Order
          BY <5>1
        <5> QED BY <5>2 DEF GuestInv, GuestTypes, Order
      <4> QED BY <2>1, <4>1 DEF GuestInv, GuestTypes
    <3> QED BY <2>1, <3>1, <3>2 DEF GuestInv, GuestTypes, Slots
  <2>3. NothingYet'
    BY <2>1 DEF NothingYet, GuestInv, GuestTypes
  <2>4. OneHeld'
    BY <2>1 DEF OneHeld, Held, GuestInv, Slots
  <2>5. OneAwaited' /\ CreatesFirst'
    BY <2>1 DEF OneAwaited, CreatesFirst, Creating, Foreground, Background, Slots
  <2> QED BY <2>2, <2>3, <2>4, <2>5 DEF GuestInv
<1> QED
  BY <1>2, <1>3, <1>4, <1>5, <1>6, <1>7, <1>8, <1>9 DEF Press

-----------------------------------------------------------------------------
(* The server and the network.                                             *)

\* An answer is to what was asked, and nobody waits for an abandoned call's.
LEMMA AnswerKeeps ==
  ASSUME GuestInv, OrdersKeep, visit' = visit, mine' = mine,
         NEW c \in Slots, UnderWay(c), calls[c].stage \in {"sent", "abandoned"},
         NEW answer, Answered(c, answer),
         calls[c].kind \in {"pay", "track", "poll"} => answer \in Statuses,
         calls[c].kind = "create" =>
           /\ answer.id \in DOMAIN orders' /\ answer.status \in Statuses
           /\ orders'[answer.id].visit = calls[c].visit
  PROVE  GuestInv'
<1>1. mine = None \/ (mine \in [id : DOMAIN orders, status : Statuses] /\ Held(mine.id))
  BY MineIsHeld
<1>2. PICK q : q = calls[c]
  OBVIOUS
<1>3. q # Idle /\ Call(q)
  BY <1>2 DEF UnderWay, GuestInv, GuestTypes
<1>4. PICK r : r = IF q.stage = "abandoned" THEN Idle
                   ELSE [q EXCEPT !.stage = "answered", !.answer = answer]
  OBVIOUS
<1>5. calls' = [calls EXCEPT ![c] = r]
  BY <1>2, <1>4 DEF Answered
<1>6. r # Idle => /\ q.stage = "sent" /\ DOMAIN r = DOMAIN q
                  /\ r.kind = q.kind /\ r.order = q.order /\ r.visit = q.visit
                  /\ r.stage = "answered" /\ r.answer = answer
  BY <1>2, <1>3, <1>4 DEF Call
<1>7. r # Idle => Call(r)'
  BY <1>2, <1>3, <1>6 DEF Call, OrdersKeep
<1>8. About(r) => r.order \in DOMAIN orders /\ Held(r.order)
  BY <1>2, <1>3, <1>6 DEF About, Held, Call
<1>9. Foreground(r) => c \in Slots /\ Foreground(calls[c])
  BY <1>2, <1>3, <1>6 DEF Foreground
<1>10. Creating(r) => /\ r.visit = visit /\ NothingYet
                      /\ r.stage = "answered" => orders'[r.answer.id].visit = visit
  <2> SUFFICES ASSUME Creating(r)
               PROVE  r.visit = visit /\ NothingYet /\ orders'[r.answer.id].visit = visit
    OBVIOUS
  <2>1. Creating(q)
    BY <1>3, <1>6 DEF Creating
  <2>2. q.visit = visit /\ NothingYet
    BY <1>2, <2>1 DEF GuestInv, CreatesFirst
  <2> QED BY <1>2, <1>6, <2>1, <2>2 DEF Creating
<1> QED BY <1>1, <1>5, <1>7, <1>8, <1>9, <1>10, CallWritten

LEMMA OrderAt ==
  ASSUME GuestInv, NEW o \in DOMAIN orders
  PROVE  orders[o] \in Order /\ orders[o].status \in Statuses /\ orders[o].captured \in BOOLEAN
         /\ orders[o].visit \in Nat /\ orders[o].visit <= visit /\ o \in Nat
<1>1. orders \in Seq(Order)
  BY DEF GuestInv, GuestTypes
<1>2. orders[o] \in Order /\ o \in Nat
  BY <1>1
<1> QED BY <1>2 DEF Order, GuestInv, GuestTypes

LEMMA HandleKeeps ==
  ASSUME GuestInv, NEW c \in Slots, Handle(c)
  PROVE  GuestInv'
<1>1. /\ UnderWay(c) /\ calls[c].stage \in {"sent", "abandoned"}
      /\ visit' = visit /\ mine' = mine /\ Call(calls[c])
  BY DEF Handle, pageVars, UnderWay, GuestInv, GuestTypes
<1>2. CASE CreateOrder(c)
  <2> DEFINE n == Len(orders) + 1
             new == [status |-> IF collects THEN "Created" ELSE "Confirmed",
                     captured |-> FALSE, visit |-> calls[c].visit]
  <2>1. /\ calls[c].kind = "create" /\ orders' = Append(orders, new)
        /\ Answered(c, [id |-> n, status |-> orders'[n].status, requires |-> collects])
    BY <1>2 DEF CreateOrder
  <2>2. new \in Order /\ ~new.captured /\ new.visit = calls[c].visit /\ new.visit <= visit
    <3>1. calls[c].visit \in Nat /\ calls[c].visit <= visit
      BY <1>1 DEF Call
    <3>2. PICK v \in Nat : v = calls[c].visit
      BY <3>1
    <3>3. PICK s \in Statuses : s = IF collects THEN "Created" ELSE "Confirmed"
      BY DEF Statuses
    <3>4. new = [status |-> s, captured |-> FALSE, visit |-> v]
      BY <3>2, <3>3
    <3> QED BY <3>1, <3>2, <3>4 DEF Order
  <2>3. orders \in Seq(Order)
    BY DEF GuestInv, GuestTypes
  <2> HIDE DEF new
  <2>4. /\ orders' \in Seq(Order) /\ DOMAIN orders \subseteq DOMAIN orders'
        /\ n \in DOMAIN orders' /\ n \in Nat /\ orders'[n] = new
        /\ \A o \in DOMAIN orders' : (o \in DOMAIN orders /\ orders'[o] = orders[o]) \/ o = n
        /\ \A o \in DOMAIN orders : orders'[o] = orders[o]
    BY <2>1, <2>2, <2>3
  <2> HIDE DEF n
  <2>5. OrdersKeep
    BY <2>2, <2>4 DEF OrdersKeep, Held, GuestInv, GuestTypes
  <2>7. PICK a : a = [id |-> n, status |-> orders'[n].status, requires |-> collects]
    OBVIOUS
  <2>8. new.status \in Statuses
    BY <2>2 DEF Order
  <2>10. a.id = n /\ a.status \in Statuses
    BY <2>4, <2>7, <2>8
  <2>11. Answered(c, a)
    BY <2>1, <2>7
  <2> QED BY <1>1, <2>1, <2>2, <2>4, <2>5, <2>10, <2>11, AnswerKeeps
<1>3. CASE PayOrder(c)
  <2>1. PICK o : o = calls[c].order
    OBVIOUS
  <2>2. calls[c].kind = "pay" /\ o \in DOMAIN orders /\ Held(o)
    BY <1>1, <1>3, <2>1 DEF PayOrder, Call, AboutAnOrder, Held, About, UnderWay
  <2>3. ASSUME NEW captured \in BOOLEAN,
               orders' = [orders EXCEPT ![o].status = IF captured THEN "Paid" ELSE "Failed",
                                        ![o].captured = captured],
               Answered(c, IF captured THEN "Paid" ELSE "Failed")
        PROVE  GuestInv'
    <3>1. PICK a : a = IF captured THEN "Paid" ELSE "Failed"
      OBVIOUS
    <3>2. PICK q : q = [orders[o] EXCEPT !.status = a, !.captured = captured]
      OBVIOUS
    <3>3. q \in Order /\ q.visit = orders[o].visit
      <4>1. orders[o] \in Order /\ a \in Statuses
        BY <2>2, <3>1, OrderAt DEF Statuses
      <4> QED BY <3>2, <4>1 DEF Order
    <3>4. orders' = [orders EXCEPT ![o] = q]
      BY <2>2, <2>3, <3>1, <3>2
    <3>5. orders \in Seq(Order)
      BY DEF GuestInv, GuestTypes
    <3>6. orders' \in Seq(Order) /\ DOMAIN orders' = DOMAIN orders
          /\ \A p \in DOMAIN orders : orders'[p] = IF p = o THEN q ELSE orders[p]
      BY <2>2, <3>3, <3>4, <3>5
    <3>7. OrdersKeep
      BY <2>2, <3>3, <3>6 DEF OrdersKeep, Held, GuestInv, GuestTypes
    <3>8. Answered(c, a) /\ a \in Statuses
      BY <2>3, <3>1 DEF Statuses
    <3> QED BY <1>1, <2>2, <3>7, <3>8, AnswerKeeps
  <2>4. CASE Answered(c, orders[o].status) /\ orders' = orders
    <3>1. PICK a : a = orders[o].status
      OBVIOUS
    <3>2. a \in Statuses
      BY <2>2, <3>1, OrderAt
    <3> QED BY <1>1, <2>2, <2>4, <3>1, <3>2, OrdersStay, AnswerKeeps
  <2> QED BY <1>3, <2>1, <2>3, <2>4 DEF PayOrder
<1>4. CASE ReadOrder(c)
  <2>1. PICK a : a = orders[calls[c].order].status
    OBVIOUS
  <2>2. calls[c].kind \in {"poll", "track"} /\ Answered(c, a) /\ orders' = orders
    BY <1>4, <2>1 DEF ReadOrder
  <2>3. a \in Statuses
    <3>1. calls[c].order \in DOMAIN orders
      BY <1>1, <2>2 DEF Call, AboutAnOrder
    <3> QED BY <2>1, <3>1, OrderAt
  <2> QED BY <1>1, <2>2, <2>3, OrdersStay, AnswerKeeps
<1>5. CASE ReadPolicy(c)
  <2>1. PICK a : a = collects
    OBVIOUS
  <2>2. calls[c].kind = "policy" /\ Answered(c, a) /\ orders' = orders
    BY <1>5, <2>1 DEF ReadPolicy
  <2> QED BY <1>1, <2>2, OrdersStay, AnswerKeeps
<1>6. CASE TakeFeedback(c)
  <2>1. calls[c].kind = "feedback" /\ Answered(c, TRUE) /\ orders' = orders
    BY <1>6 DEF TakeFeedback
  <2>2. PICK a : a = TRUE
    OBVIOUS
  <2> QED BY <1>1, <2>1, <2>2, OrdersStay, AnswerKeeps
<1> QED BY <1>2, <1>3, <1>4, <1>5, <1>6 DEF Handle

LEMMA RestsKeeps ==
  ASSUME GuestInv, UNCHANGED <<visit, mine, orders>>, NEW c, Rests(c)
  PROVE  GuestInv'
BY Writes DEF Rests, About, Foreground, Creating

LEMMA KitchenKeeps ==
  ASSUME GuestInv, NEW o \in DOMAIN orders, KitchenWorks(o)
  PROVE  GuestInv'
<1>1. PICK step \in KitchenSteps : orders' = [orders EXCEPT ![o].status = step[2]]
  BY DEF KitchenWorks
<1>2. visit' = visit /\ mine' = mine /\ calls' = calls
  BY DEF KitchenWorks, pageVars
<1>3. PICK q : q = [orders[o] EXCEPT !.status = step[2]]
  OBVIOUS
<1>4. step[2] \in Statuses
  BY <1>1 DEF KitchenSteps, Statuses
<1>5. q \in Order /\ q.visit = orders[o].visit /\ q.captured = orders[o].captured
  BY <1>3, <1>4, OrderAt DEF Order
<1>6. orders' = [orders EXCEPT ![o] = q]
  BY <1>1, <1>3
<1>7. orders \in Seq(Order)
  BY DEF GuestInv, GuestTypes
<1>8. orders' \in Seq(Order) /\ DOMAIN orders' = DOMAIN orders
      /\ \A p \in DOMAIN orders : orders'[p] = IF p = o THEN q ELSE orders[p]
  BY <1>5, <1>6, <1>7
<1>9. OrdersKeep
  BY <1>5, <1>8 DEF OrdersKeep, Held, GuestInv, GuestTypes
<1> QED BY <1>2, <1>9, CallsStay

-----------------------------------------------------------------------------
(* What the page does with an answer, and with an error.                   *)

LEMMA ReceiveKeeps ==
  ASSUME GuestInv, NEW c \in Slots, Receive(c)
  PROVE  GuestInv'
<1>1. /\ calls[c] # Idle /\ calls[c].stage = "answered" /\ Call(calls[c])
      /\ visit' = visit /\ orders' = orders
  BY DEF Receive, UnderWay, serverVars, GuestInv, GuestTypes
<1>2. OrdersKeep
  BY <1>1, OrdersStay
<1>3. ASSUME Rests(c), mine' # None,
             mine' \in [id : DOMAIN orders, status : Statuses], Held(mine'.id)
      PROVE  GuestInv'
  BY <1>1, <1>2, <1>3, CallWritten DEF Rests, About, Foreground, Creating
<1>4. ASSUME NEW i \in DOMAIN orders, NEW s \in Statuses
      PROVE  [id |-> i, status |-> s] # None
  BY NoneAssumption, OrderAt
<1>5. CASE Created(c)
  <2>1. PICK a : a = calls[c].answer
    OBVIOUS
  <2>2. /\ calls[c].kind = "create" /\ Creating(calls[c])
        /\ a.id \in DOMAIN orders /\ a.status \in Statuses
        /\ mine' = [id |-> a.id, status |-> a.status]
    BY <1>1, <1>5, <2>1 DEF Created, Call, Creating
  <2>3. NothingYet /\ orders[a.id].visit = visit
    BY <1>1, <2>1, <2>2 DEF GuestInv, CreatesFirst
  <2>4. mine' # None /\ mine' \in [id : DOMAIN orders, status : Statuses] /\ mine'.id = a.id
    BY <1>4, <2>2
  <2>5. PICK r : calls' = [calls EXCEPT ![c] = r] /\
          (r = Idle \/ (/\ r # Idle /\ Call(r)
                        /\ r.kind = "pay" /\ r.order = a.id /\ r.stage = "sent"))
    <3>1. CASE Rests(c)
      BY <3>1 DEF Rests
    <3>2. CASE GoesOnWith(c, "pay", a.id)
      <4>1. PICK r : r = [calls[c] EXCEPT !.kind = "pay", !.order = a.id,
                                          !.stage = "sent", !.answer = None]
        OBVIOUS
      <4>2. calls' = [calls EXCEPT ![c] = r]
        <5>1. calls = [d \in Slots |-> calls[d]]
          BY DEF GuestInv, GuestTypes
        <5> QED BY <3>2, <4>1, <5>1 DEF GoesOnWith
      <4>3. DOMAIN r = DOMAIN calls[c] /\ r.kind = "pay" /\ r.order = a.id
              /\ r.stage = "sent" /\ r.visit = calls[c].visit
        BY <1>1, <4>1 DEF Call
      <4>4. Call(r)
        BY <1>1, <2>2, <4>3 DEF Call, Kinds
      <4> QED BY <4>2, <4>3, <4>4
    <3> QED BY <1>5, <2>1, <3>1, <3>2 DEF Created
  <2>6. Slots' = Slots /\ calls = [d \in Slots |-> calls[d]]
    BY DEF Slots, GuestInv, GuestTypes
  <2>7. \A d \in Slots : calls'[d] = IF d = c THEN r ELSE calls[d]
    BY <2>5, <2>6
  <2>8. ASSUME NEW o \in DOMAIN orders, Held(o)' PROVE Held(o) \/ o = a.id
    <3>1. CASE orders'[o].captured \/ mine'.id = o
      BY <1>1, <2>4, <3>1 DEF Held
    <3>2. ASSUME NEW d \in Slots, About(calls'[d]), calls'[d].order = o
          PROVE  Held(o) \/ o = a.id
      BY <2>5, <2>7, <3>2 DEF Held, About
    <3> QED BY <2>6, <2>8, <3>1, <3>2 DEF Held
  <2>9. OneHeld'
    <3> SUFFICES ASSUME NEW o \in DOMAIN orders, NEW p \in DOMAIN orders,
                        Held(o)', Held(p)', orders[o].visit = orders[p].visit
                 PROVE  o = p
      BY <1>1 DEF OneHeld
    <3>1. Held(o) \/ o = a.id
      BY <2>8
    <3>2. Held(p) \/ p = a.id
      BY <2>8
    <3> QED BY <2>3, <3>1, <3>2 DEF GuestInv, OneHeld, NothingYet
  <2>10. GuestTypes'
    <3>1. calls' = [d \in Slots |-> calls'[d]]
      BY <2>5, <2>6
    <3>2. ASSUME NEW d \in Slots, calls'[d] # Idle PROVE Call(calls[d])'
      <4>1. Call(calls'[d])
        BY <2>5, <2>7, <3>2 DEF GuestInv, GuestTypes
      <4> QED BY <1>1, <4>1 DEF Call
    <3> QED BY <1>1, <2>4, <2>6, <3>1, <3>2 DEF GuestInv, GuestTypes
  <2>11. ASSUME NEW d \in Slots, Foreground(calls'[d]) PROVE d = c
    <3>1. Foreground(calls[c])
      BY <1>1, <2>2 DEF Foreground, Background
    <3> QED BY <2>7, <2>11, <3>1 DEF GuestInv, OneAwaited
  <2>12. OneAwaited'
    BY <2>6, <2>11 DEF OneAwaited
  <2>13. CreatesFirst'
    <3>1. ASSUME NEW d \in Slots, Creating(calls'[d]) PROVE FALSE
      <4>1. Foreground(calls'[d])
        BY <3>1 DEF Creating, Foreground, Background
      <4>2. d = c
        BY <2>11, <4>1
      <4> QED BY <2>5, <2>7, <3>1, <4>2 DEF Creating
    <3> QED BY <2>6, <3>1 DEF CreatesFirst
  <2> QED BY <2>4, <2>9, <2>10, <2>12, <2>13 DEF GuestInv
<1>6. CASE Settled(c)
  <2>1. /\ mine # None /\ mine' = [mine EXCEPT !.status = calls[c].answer] /\ Rests(c)
        /\ calls[c].answer \in Statuses
    BY <1>1, <1>6 DEF Settled, Call
  <2>2. mine \in [id : DOMAIN orders, status : Statuses] /\ Held(mine.id)
    BY <2>1, MineIsHeld
  <2>3. mine' = [id |-> mine.id, status |-> calls[c].answer]
    BY <2>1, <2>2
  <2> QED BY <1>3, <1>4, <2>1, <2>2, <2>3
<1>7. CASE Refreshed(c)
  <2>1. /\ mine' = [id |-> calls[c].order, status |-> calls[c].answer] /\ Rests(c)
        /\ calls[c].answer \in Statuses /\ calls[c].order \in DOMAIN orders
        /\ About(calls[c])
    BY <1>1, <1>7 DEF Refreshed, Call, AboutAnOrder, About
  <2>2. Held(calls[c].order)
    BY <2>1 DEF Held
  <2> QED BY <1>3, <1>4, <2>1, <2>2
<1>8. CASE PolicyRead(c) \/ Thanked(c)
  <2>1. Rests(c) /\ mine' = mine
    BY <1>8 DEF PolicyRead, Thanked
  <2> QED BY <1>1, <2>1, RestsKeeps
<1> QED BY <1>5, <1>6, <1>7, <1>8 DEF Receive

LEMMA FailKeeps ==
  ASSUME GuestInv, NEW c \in Slots, Fail(c)
  PROVE  GuestInv'
<1>1. PICK q : q = calls[c]
  OBVIOUS
<1>2. q # Idle /\ Call(q) /\ q.stage # "abandoned"
  BY <1>1 DEF Fail, Awaited, UnderWay, GuestInv, GuestTypes
<1>3. PICK r : r = IF q.stage = "answered" THEN Idle ELSE [q EXCEPT !.stage = "abandoned"]
  OBVIOUS
<1>4. calls' = [calls EXCEPT ![c] = r] /\ UNCHANGED <<visit, mine, orders>>
  BY <1>1, <1>3 DEF Fail, serverVars
<1>5. r # Idle => /\ DOMAIN r = DOMAIN q /\ r.stage = "abandoned"
                  /\ r.kind = q.kind /\ r.order = q.order /\ r.visit = q.visit
  BY <1>2, <1>3 DEF Call
<1>6. r # Idle => Call(r)
  BY <1>2, <1>5 DEF Call
<1>7. About(r) => r.order \in DOMAIN orders /\ Held(r.order)
  BY <1>1, <1>2, <1>5 DEF About, Call, Held
<1>8. ~Foreground(r) /\ ~Creating(r)
  BY <1>5 DEF Foreground, Creating
<1> QED BY <1>4, <1>6, <1>7, <1>8, Writes

LEMMA GuestStep == Impatient = FALSE /\ GuestInv /\ [Next]_vars => GuestInv'
<1> SUFFICES ASSUME Impatient = FALSE, GuestInv, [Next]_vars PROVE GuestInv'
  OBVIOUS
<1>1. ASSUME Poll PROVE GuestInv'
  <2>1. Send("poll", mine.id) /\ UNCHANGED <<visit, mine, orders>> /\ mine # None
    BY <1>1 DEF Poll, Watched, pageVars, serverVars
  <2> QED BY <2>1, MineIsHeld, SendKeeps DEF Kinds, Background
<1>2. ASSUME ChangePolicy PROVE GuestInv'
  BY <1>2, OrdersStay, CallsStay DEF ChangePolicy, pageVars
<1>3. ASSUME NEW c \in Slots, Vanish(c) PROVE GuestInv'
  BY <1>3, RestsKeeps DEF Vanish, pageVars, serverVars
<1>4. CASE UNCHANGED vars
  BY <1>4, OrdersStay, CallsStay DEF vars, pageVars, serverVars
<1> QED
  BY <1>1, <1>2, <1>3, <1>4, PressKeeps, KitchenKeeps, HandleKeeps, ReceiveKeeps, FailKeeps
     DEF Next

LEMMA GuestBegins == Init => GuestInv
<1> SUFFICES ASSUME Init PROVE GuestInv
  OBVIOUS
<1>1. orders = <<>> /\ mine = None /\ visit = 1 /\ calls = [c \in Slots |-> Idle]
  BY DEF Init
<1>2. DOMAIN orders = {} /\ orders \in Seq(Order)
  BY <1>1
<1> QED
  BY <1>1, <1>2 DEF GuestInv, GuestTypes, OneHeld, OneAwaited, CreatesFirst, NothingYet,
                    Foreground, Creating

\* At most one order of a visit is charged: any two are the same.
LEMMA OneIsPaid == GuestInv => PaidOnceAVisit
<1> SUFFICES ASSUME GuestInv, NEW v \in 1..MaxVisits PROVE Cardinality(PaidFor(v)) <= 1
  BY DEF PaidOnceAVisit
<1>1. \A o, p \in PaidFor(v) : o = p
  BY DEF GuestInv, OneHeld, PaidFor, Held
<1>2. CASE PaidFor(v) = {}
  BY <1>2, FS_EmptySet
<1>3. ASSUME NEW o \in PaidFor(v) PROVE Cardinality(PaidFor(v)) <= 1
  <2>1. PaidFor(v) = {o}
    BY <1>1
  <2> QED BY <2>1, FS_Singleton
<1> QED BY <1>2, <1>3

\* With a guest who presses a button only when the page has answered the last, any
\* number of visits, orders and calls, and whatever answers are lost or come late
\* from whichever visit: a visit is charged once.
THEOREM VisitIsPaidOnce == ASSUME Impatient = FALSE PROVE Spec => []PaidOnceAVisit
<1>1. GuestInv /\ [Next]_vars => GuestInv'
  BY GuestStep
<1> QED BY <1>1, GuestBegins, OneIsPaid, PTL DEF Spec
=============================================================================
