------------------------------- MODULE Ledger -------------------------------
(***************************************************************************)
(* The revenue ledger of one order (lib/revenue-engine.js): what its sale  *)
(* and its refunds book for each outlet under the outlet's revenue model.  *)
(* An administrator may set another model between any two of them.         *)
(*                                                                         *)
(* Amounts are computed as fractions and booked in whole halalas.          *)
(***************************************************************************)
EXTENDS Integers, Functions

CONSTANTS
  Sellers,    \* the outlets with items in the order
  Gross,      \* what the items of each cost, in halalas
  Discounts,  \* the discounts an order may come with, in halalas
  Models,     \* the revenue models administrators set
  Slices,     \* the amounts staff refund, VAT included, in halalas
  MaxRefunds  \* bound on the refunds of the order

ASSUME GrossAssumption == Gross \in [Sellers -> Nat \ {0}]
ASSUME ModelsAssumption ==
  Models \subseteq [type : {"share", "commission", "fixed", "hybrid"},
                    rate : 0..100, fee : Nat]
ASSUME SlicesAssumption == Slices \subseteq Nat

VARIABLES
  model,     \* the active row of revenue_models for each outlet
  discount,  \* orders.discount_amount
  snapshot,  \* the model in each row of the sale; no row before the sale
  booked,    \* the sums of each outlet's rows
  refunded,  \* the sum of the order's refunds, in halalas
  isFull     \* what is refunded is all that was paid

ledgerVars == <<model, discount, snapshot, booked, refunded, isFull>>

Subtotal == FoldFunction(+, 0, Gross)

\* The sum of what the outlets sold, of which there is at least one; no discount
\* exceeds it.
ASSUME SubtotalAssumption ==
  /\ Subtotal \in Nat \ {0}
  /\ \A o \in Sellers : Gross[o] <= Subtotal
  /\ Discounts \subseteq 0..Subtotal

\* A halala is this many parts, of which every fraction that is booked (rates in
\* percent, VAT as 15 of 115, the outlet's part of the subtotal) is whole.
Part == 2300 * Subtotal

\* round2: Math.round of an amount of parts, to halalas.
Round2(parts) == (2 * parts + Part) \div (2 * Part)

Percent(rate, parts) == (rate * parts) \div 100

-----------------------------------------------------------------------------

\* computeAmounts: of a base, the partner's and Alnadl's amount. Each is rounded
\* by itself.
AlnadlPart(m, base) ==
  CASE m.type = "share"      -> Percent(100 - m.rate, base)
    [] m.type = "commission" -> Percent(m.rate, base)
    [] m.type = "fixed"      -> m.fee * Part
    [] m.type = "hybrid"     -> Percent(m.rate, base) + m.fee * Part

Row(m, base) ==
  [base |-> Round2(base), partner |-> Round2(base - AlnadlPart(m, base)),
   alnadl |-> Round2(AlnadlPart(m, base)), rows |-> 1]

NoRow == [base |-> 0, partner |-> 0, alnadl |-> 0, rows |-> 0]

\* The base of an outlet's sale: a discount is spread over the outlets.
SaleBase(o) == 2300 * Gross[o] * (Subtotal - discount)

\* An outlet's part of a refund, with the VAT taken off: amount / 1.15.
RefundBase(o, amount) == 2000 * Gross[o] * amount

LedgerInit ==
  /\ model \in [Sellers -> Models]
  /\ discount \in Discounts
  /\ snapshot = <<>>
  /\ booked = [o \in Sellers |-> NoRow]
  /\ refunded = 0
  /\ isFull = FALSE

\* POST /api/admin/revenue-models: the outlet's model before is deactivated.
SetModel(o, m) ==
  /\ model' = [model EXCEPT ![o] = m]
  /\ UNCHANGED <<discount, snapshot, booked, refunded, isFull>>

\* recordOrderRevenue, which does nothing the second time.
RecordSale ==
  /\ snapshot = <<>>
  /\ snapshot' = model
  /\ booked' = [o \in Sellers |-> Row(model[o], SaleBase(o))]
  /\ UNCHANGED <<model, discount, refunded, isFull>>

\* The halalas of the payment that are not refunded.
RefundableRest ==
  ((230 * (Subtotal - discount) + 100) \div 200) - refunded

\* As if a refund took back what the outlet would book today.
ModelOfToday == model

\* model_snapshot_json of the sale's rows.
ModelOfSale == snapshot

\* As if the VAT were never taken off.
RefundRowWithVat(o, amount) == Row(ModelOfSale[o], 2300 * Gross[o] * amount)

\* What a refund books, before it is negated: of the base what is rounded is the
\* negative, of the two amounts the positive.
RefundRow(o, amount) ==
  [Row(ModelOfSale[o], RefundBase(o, amount)) EXCEPT
     !.base = -Round2(-RefundBase(o, amount))]

TakeBack(sums, row) ==
  [base |-> sums.base - row.base, partner |-> sums.partner - row.partner,
   alnadl |-> sums.alnadl - row.alnadl, rows |-> sums.rows + 1]

\* recordRefundRevenue: negative rows.
RecordRefund(amount) ==
  /\ snapshot # <<>>
  /\ \A o \in Sellers : booked[o].rows <= MaxRefunds
  /\ RefundableRest > 0 /\ amount <= RefundableRest + 1
  /\ booked' = [o \in Sellers |-> TakeBack(booked[o], RefundRow(o, amount))]
  /\ refunded' = refunded + amount
  /\ isFull' = (amount = RefundableRest)
  /\ UNCHANGED <<model, discount, snapshot>>

LedgerNext ==
  \/ \E o \in Sellers, m \in Models : SetModel(o, m)
  \/ RecordSale
  \/ \E amount \in Slices \cup {RefundableRest} : amount > 0 /\ RecordRefund(amount)

LedgerSpec == LedgerInit /\ [][LedgerNext]_ledgerVars

-----------------------------------------------------------------------------

\* Half a halala for every row, or one where two amounts are rounded.
Within(parts, halves) == -halves * Part <= 2 * parts /\ 2 * parts <= halves * Part

Kept(o) == SaleBase(o) - RefundBase(o, refunded)

\* What an outlet's rows add up to is what it sold less what was refunded of it,
\* up to the rounding of each row: the base, and the two amounts it splits into.
BaseIsWhatIsKept ==
  snapshot # <<>> => \A o \in Sellers :
    /\ Within(booked[o].base * Part - Kept(o), booked[o].rows)
    /\ Within((booked[o].partner + booked[o].alnadl) * Part - Kept(o),
              2 * booked[o].rows)

\* Whatever the outlet's model becomes after the sale, Alnadl keeps of what was
\* kept what the model of the sale says where that is a rate, and nothing after a
\* refund of everything at once where a fee is part of it.
RefundFollowsTheSale ==
  snapshot # <<>> => \A o \in Sellers :
    /\ snapshot[o].fee = 0 \/ booked[o].rows = 1 =>
         Within(booked[o].alnadl * Part - AlnadlPart(snapshot[o], Kept(o)),
                booked[o].rows)
    /\ isFull /\ booked[o].rows = 2 => Within(booked[o].alnadl * Part, 2)
=============================================================================
