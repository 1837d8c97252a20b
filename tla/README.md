# Formal models of Al-Nadl OS

Al-Nadl OS is an ordering platform for venues: a guest scans a QR code, orders
from one outlet or several, pays by card, corporate wallet or not at all;
kitchens and runners fulfil the order; the platform accounts for the revenue,
settles with partners and, through Engage, hands the guest a pass to moments
and games. The program is one Node.js process (`server.js` and `lib/`) over one
synchronous SQLite database (`db.js`, `migrations/`), and one page for guests and
staff (`public/app.js`). Paths below are relative to `src/`.

That shape decides where the hard behaviours are. A handler runs without
interruption from one `await` to the next, so two requests interleave only
where a handler awaits: at the payment gateway (`server.js:788`, `server.js:1359`), the
verification provider, the Engage orchestrator and the body of an upload. A
transaction is atomic, but most handlers write statement by statement, so a crash
or an exception leaves a prefix of their writes. What an administrator changes (a
policy, a flag, a role, a partner's status) changes under orders and sessions
already on their way. And the page is a second program: its handlers await the
server, and what they find in its state `S` afterwards may be another's.

## 1. Inventory

| Component | State | Operations | Interacts with | Correct when |
|---|---|---|---|---|
| Order state machine (`lib/statemachine.js`) | the table of transitions and roles | `canTransition`, `actorAllowed` | every status write asks it, except payment and derivation | statuses move along the table |
| Order money (`server.js` 549-900, 1300-1390; `lib/payment.js`) | `orders.status`, `collection_status`, `payments`, `refunds` | create, pay, refund, move | gateway (awaited), wallet, loyalty, ledger, outbox | charged once or not at all; given back at most what was taken; nothing cooked before it is booked |
| Corporate wallet (`lib/wallet.js`) | `wallet_accounts.spent_this_period` | quote, commit | pay | spend within the monthly budget |
| Loyalty (`lib/loyalty.js`) | `loyalty_accounts.points_balance` | quote, redeem, earn | create, pay, delivery | balance never negative; a discount is paid for once |
| Payment policy (`lib/payment-policy.js`) | `payment_policy_overrides` by outlet, property, partner | resolve, validate, set, clear | checkout, create, pay | the policy that was shown is the one applied |
| Revenue engine (`lib/revenue-engine.js`) | `revenue_models`, `revenue_ledger` | record a sale, reverse | pay, refund | rows add up to what was kept, by the contract of the sale |
| Settlement (`lib/settlement.js`) | `settlements` | generate, approve, pay | orders, refunds | a refund is never settled |
| Unified cart (`server.js` 671-716, 1396-1600) | `child_orders.status` beside the parent's | move a portion, derive the parent, list the queues | pay and refund, `properties.delivery_grouping` | guest, kitchens and runner see the same order |
| Partner and merchant lifecycle (`lib/partner-status.js`, `lib/merchant-status.js`) | `partners.status`, `merchants.status` | suspend, close, reopen | gates on order and login, open orders | nothing closes over what is cooking; suspension strands nothing |
| Engage outbox (`lib/engage-worker.js`) | `engage_outbox`, `engage_pass` | poll, skip, issue, retry, dead letter | written by the clearing transaction, reads the flags | each confirmation settled, passes bounded, prohibitions kept |
| Engage flags (`lib/engage-flags.js`) | kill switch, contract, overrides | resolve, set | outbox, session, social | prohibitions win, then the most specific value |
| Engage session and groups (`lib/engage-session.js`, `lib/engage-social.js`) | sessions, ceilings, memory, invites, groups | start, serve a moment, answer, invite, join, end | orchestrator (awaited), pass, flags | ceilings hold under concurrent requests |
| Mechanic lab (`lib/engage-mechanic-lab.js`) | mechanic versions, simulations, canaries | propose, simulate, advance, kill | sessions | none promoted untried; canaries reach their share only |
| Users and access (`lib/iam.js`, `lib/auth.js`) | users, activation links, tokens | create, change, reissue, activate, sign in | every staff endpoint | a SuperAdmin always remains; a partner's administrator stays inside |
| Verification (`lib/verification.js`) | challenges | send, answer, supersede | provider (awaited) | only the newest challenge can be answered, attempts bounded |
| Plans (`lib/plan.js`) | plans, subscriptions | create, edit, delete, subscribe | `requireFeature` | a subscriber keeps what its plan entitles it to |
| Storefront: QR, zones, points, outlets, catalog (`lib/qr.js`, `server.js`) | statuses of each | administer, resolve a code, hub, catalog | create | what is shown can be ordered |
| Branding and pictures (`lib/branding.js`, `lib/brand-media.js`, `lib/storage.js`) | overrides, `brand_assets`, files | set, clear, upload, delete, resolve | plans | what is named is stored; brands do not mix |
| Rate limit (`lib/rate-limit.js`) | times per bucket and caller, in memory | check, sweep | public endpoints | each caller has exactly its own allowance |
| Deployment (`db.js`, `lib/migrate.js`, `scripts/backup-restore.js`) | the file, the environment, the process | boot, bootstrap, backfill, migrate, shut down, back up, restore | every component's tables | what serves is whole; an owner's password stays |
| Guest's page (`public/app.js`) | `S`: screen, cart, order, policy; calls under way | buttons, polls, answers | create, pay, track | one visit is charged once; the tracking catches up |
| Back office's page (`public/app.js`) | `S`: session, partner, banner, rows shown | sign in, enter a partner, save | branding, policies, uploads | what is written is for the partner shown |
| Reports, logging, smoke tests and audits | none of their own | queries, I/O | | |

`PROJECT.json` lists every component with what is modelled of it, and the
hazards at the lines where they bite.

## 2. Modules

| Module | What it is |
|---|---|
| `OrderStateMachine` | The transition table and its lookups, shared by the modules of an order's life. |
| `OrderMoney` | Create, pay, refund and move of single-outlet orders with wallet, loyalty, ledger and outbox. |
| `GuestCharge` | Abstract: what the endpoints promise a guest about one order's money. |
| `UnifiedCart` | Portions, the derived parent, the runner's queue. |
| `PartnerLifecycle` | Extends `UnifiedCart`: partner, merchants and sessions around its order. |
| `EngageFlags` | One flag of one zone, with all its writers. |
| `EngageOutbox` | The outbox consumer. It extends `EngageFlags`, whose actions interleave with the polls. |
| `EventDelivery` | Abstract: at-least-once delivery of a confirmation. |
| `EngageSession` | Sessions, the moments served with and without generation, the customer's memory, and groups. |
| `MomentAllowance` | Abstract: one session with one allowance for each pass. |
| `MechanicLab`, `Access`, `Verification`, `Plans`, `Ledger`, `PaymentPolicy`, `Storefront`, `Branding`, `RateLimit`, `Deployment`, `Console` | One component of the back office each. |
| `GuestApp` | The guest's page with its calls, and the server and kitchen it meets. |
| `OrderMoneyProofs`, `CartProofs`, `EngageOutboxProofs`, `EngageSessionProofs`, `AccessProofs`, `RolloutProofs`, `TenantProofs`, `GuestProofs` | Theorems and their proofs. |
| `MCOrderMoney`, `MCUnifiedCart`, `MCPartnerLifecycle`, `MCBackOffice` | Constants and symmetries for TLC. |

### OrderMoney and the code

A variable is a column (of `orders`, or a sum over the order's rows in another
table); `handler` is what a suspended request holds in its local variables.
`PayBegin` is the pay handler up to its `await`, `PayEnd` the transaction after
it, `PayAtOnce` the handler when the wallet covers everything and no `await`
happens. `GatewayCapture` is the gateway taking the money, apart from its
answer's arrival, so a crash may fall between the two. `RefundBegin`,
`GatewayRefund`, `RefundEnd` are the same for refunds, except that the writes
after the answer are not in a transaction: `RefundCutShort` performs the first
one, two or three of them and dies. Nothing is read again after the `await`, in the
code or in the model.

Amounts are integers in twentieths of a halala, the unit in which 15% VAT on a
price in whole halalas is exact. The halala tolerance of the refund comparison
is modelled as what binary fractions do to it: an amount one halala above the
balance passes, and a difference of exactly one halala may or may not count as a
full refund (`MayBeFull`).

Assumed: one partner and location, one wallet and one loyalty account shared by
the orders; every product belongs to an outlet, so that a clearance records a
sale; the methods that go to the gateway are one class, "card". The bundled
`MockGateway` answers within the turn, so that no request overlaps another there;
the interface it implements is asynchronous and made to be replaced, and
the model's gateway takes as long as it likes. Left out: promo codes,
notifications and audit entries, none of which is read by what is modelled.

### UnifiedCart, PartnerLifecycle and the code

`parent` is the `orders` row, `portion` the `child_orders` rows. `MovePortion` is
`POST /api/child-orders/:id/transition` with the derivation it ends in, one
action because nothing is awaited between them. `Derived` returns the set of
statuses the derivation can write: one, except in the last branch, which takes
the status of the row the database lists first. `MoveParent` is the endpoint for
single-outlet orders, which does not look for portions. Any staff role may call
it; `ParentMovers` names the roles whose screens send it the parent's id, which
is the runner's (grouped rows carry it).

`handler` is what each suspended payment or refund found before the gateway's
`await`. Nothing is asked again afterwards, so the requests of `Handlers` overlap in
every way; `PayBegin` looks, as the endpoint does, only for a `payments` row, and
several may find none. The money is reduced to what it does to the statuses:
`payments` counts the recorded answers, `refundable` is whether something is left.
Amounts are not followed, so what is left after requests overlapped is
open (`refundable' \in BOOLEAN`). `RequestFails` is a declined refund, a
transaction rolled back, or the end of the process: no row changes.

`PartnerLifecycle` adds `partners.status`, `merchants.status` and whether the
partner's users hold sessions, and conjoins every operation of the order with
the gates that the lifecycle puts before it: `MayCreateOrder` and `MaySell` at
creation, `MayLogin` at the login, none at a payment or a move of staff who are
already signed in. `SetPartner` and `SetMerchant` carry the preconditions of
closing; what counts as open is `Open`, which is every status but four.

### EngageOutbox and the code

`Poll` is `setInterval` firing and the query of the batch; `Skip`, `Issue`,
`MarkProcessed` and `Fail` are the statements of one row's turn, separate actions
because each commits by itself and any of them may throw or be the last before a
crash. No request is served during a poll, which is synchronous, so the actions
of the rest of the program require an empty batch; a crash does not.

### EngageSession and the code

`status`, `used` and `limit` are columns of `engage_session`; `moments` are its
`moment` rows with the `payload_version` each gets once, empty before that.
`memory` is the customer's `exposure_memory`: one for all passes, as it is kept by
identity. The passes are active; the personality, the override of the ceiling
and the mechanic are whatever they are when a session starts, so a ceiling is any
of `Ceilings`, and one pool stands for the eligible version's.

`serveNextMoment` runs in one turn without generation (`ServeStatic`). With it,
`ServeBegin` is the turn up to the first `await`: the slot is claimed and the row
inserted. `Generated` and `GenerationFails` are the provider's answer, or its four
seconds; `Embedded` is the embedding provider's, or its two, with everything the
code does in that turn: the comparison, and either the next attempt, the
fallback, or the writes of the end of the handler (`Finish`). The process may die
between those writes (`ServesAndDies`, `ServeCutShort`). `handler` holds what
the request has in its local variables, so a moment is finished for the slot it
claimed, though its session was ended in between. A content is a number, and
two contents that the comparison finds similar are the same number; vectors are
remembered only with a generated content whose embedding succeeded, and only
they are seen by the next embedding's comparison, which is `RememberedVectors`.

A group is a `group_room` with the number of its `engage_participant` rows. The
size of `Invite` is what the code makes of the size that is asked for: a number
between zero and one is rounded down to a group of none, in which the host sits
all the same. `attempts` is in the process's memory and lost with it.

### The back office and the code

Each of these is a module whose actions are the handlers of its endpoints, which
run in one turn; what makes them hard is the order of many calls by several
people, not their overlap.

- `Access`. `session[u]` is what the token of `u` says, which no handler compares with
  the row again; so every action by an administrator reads the token, and a token
  outlives a demotion by up to eight hours (`SessionEnds`). Five roles stand for the
  nine: those of equal rights in `iam.js` are one. `Patch` is one handler with all
  its checks; `change` is its `status` or its older `active` flag.
- `Verification`. `SendChallenge` is `sendChallenge` up to the `await`; `Delivered`,
  `DeliveryFails` and `ProviderLost` are what may come of it. `Lapse` and
  `CooldownPasses` are time.
- `MechanicLab`. `Advance` is the transition endpoint with the gates of each target,
  `Kill` the kill switch, `Serve` a moment of a guest, for whom
  `resolveEligibleMechanicVersion` chose the version in the same turn.
- `Ledger`. Amounts are fractions of a halala, in a unit in which every quotient the
  code computes is whole, and each row is rounded as `round2` does, negative bases
  toward positive infinity. One action for the sale, one for a refund. The refunds are
  kept as their sum; how many there were is one less than an outlet has rows.
- `PaymentPolicy`. `Checkout`, `Place` and `PayOrder` resolve the policy anew, as
  the page, the creation and the payment do; the answer of the creation takes the
  place of the offer, as in `S`.
- `Storefront`. Each `Set...` is an endpoint of the administration. The four doors
  (`QrResolves`, `HubOffers`, `Menu`, `Orderable`) read the statuses, each as its own
  handler does.
- `Branding`. `FinishUpload` is the rest of the upload's handler after the awaited
  body: it names the new picture and deletes the one before. `Source` is
  `resolveBranding`'s choice of a layer, the border of a merchant's brand with it.
- `Plans`. The three endpoints of plans, and subscriptions, whose plan is looked up
  by its code.
- `RateLimit`. `hits` is the store, a window's array as how often each time is in
  it; `passed` records what did pass, for the property. A client may write the header itself; a trusted proxy appends to it.
- `Deployment`. `process` is how far the boot has come. `EnsureBootstrap` is one turn
  with its transaction, `Backfill` a site's outlets, `Migrate` the next migration. A
  crash is `Exit`, or the outcome `Fail` or a part of the writes where the code has
  no transaction. `spent` records which reset ids ever did reset the account, and is
  not of the file: a restore or an empty volume does not take it back. `forgotten` are
  those of them that the file in use is from before; a backup remembers which it is not.

### The two pages and the code

`GuestApp`: a call is sent, handled, and its answer received, each an action; it may
be lost before or after it is handled, which the page cannot tell apart (`Fail`, then
`Handle` or `Vanish`). `Receive` is the rest of the page's handler, run against `S` as it
is then: `Settled` writes the status to whatever order the page has by then. The
server's side is reduced to a status, whether money was captured and the
idempotency of payments; `OrderMoney` has what it does. `Impatient` is whether the guest
presses a button while the page awaits another's answer; nothing in the page
prevents it.

`Console`: `Enter` is `selectTenantForAdmin`, whose two answers move the tab
(`Entered`) and raise the banner (`Named`); `Left` is `exitPartnerContext` after its
`await`. `Writes` is what the server takes, with the tenant check; `Refused` is the page's
own guard, which looks at a partner id in the query or body and so at only one of
the three writes. `Habits` are what the user may do that the page is not made for.

## 3. What is checked

| Run | Bounds | Shows |
|---|---|---|
| `order_money_serial` | 1 order, 1 request at the gateway, 4 requests, 4 policies, refunds of 1, 5 or all the rest, crashes | With one request at a time the endpoints implement `GuestCharge`; money and refund keys are taken once; refunds end. |
| `order_money_concurrent` | 2 orders, 2 requests at the gateway, 3 requests, 2 policies, crashes | What survives overlap: exempt orders are never charged, the kitchen sees nothing unbooked, the tables claim no money the gateway did not move, no balance goes negative. |
| `unified_cart` | 3 outlets, 2 payments or refunds at the gateway, all site roles, both delivery modes | Kitchen before clearance, runner before the last portion, cooking for an order that is over: none of them happens, however the requests overlap. |
| `partner_lifecycle` | 2 outlets, one of a merchant, 1 payment or refund at the gateway, Operator and SuperAdmin | Closing strands nothing in a kitchen; a suspended partner's kitchens finish what is paid. |
| `engage_outbox` | 2 rows, 3 attempts, 2 crashes, 1 override of each scope | Repetitions are paid for by attempts or crashes, prohibitions hold, and every confirmation is settled. |
| `engage_session` | 1 pass, 2 requests at the providers, a pool of 2, 2 ideas of which one is in the pool, ceilings 0 and 3, groups of 0 and 2 seats, 1 crash | Ceilings, slots and seats hold, the last moment ends the session, every moment gets its content, the pool repeats itself only when it must. |
| `back_office` | below | The eleven components of the back office, one at a time: fifteen properties. |
| `guest_visit` | 2 visits, 2 orders, 2 calls under way, any of them lost | A visit is charged once, and the tracking screen comes to show the order's status. |

`back_office` explores its components each while the others rest in an initial
state (`focus`): they share no variable, so their product would show nothing more.
Its bounds: two users, of whom one is the bootstrap's and has its password guessed,
and four grants; three challenges of three attempts; one version beside the seeded
one, one moment of each, customers in bucket 4 and 5 around a hard ceiling of 5; two
outlets at 5 and 12 halalas, a model of each type, a discount of 4, three refunds; two
outlets and two changes of policy around one checkout; two pictures; a product, two
merchants and two outlets; two plans; one site of two merchants, two releases of
which the second brings the table of the recovery, four starts; two callers, a limit
of 2 in a window of 2. Where a bound is at its least, as for the moments of a version,
the property is also proved for every bound (section 4).

Why the bounds are enough. The price (11 halalas, 12.65 with VAT) is chosen so that the
total is no whole number of halalas and both shares round; the cap of 8 makes the
wallet cover a part. Four requests are two payments and two refunds, or a
payment and three refunds: one more than it takes for each property to fail when a
check is dropped. Three outlets are the least at which one portion is delivered, one
ready and one in preparation; two are the least at which one merchant is closed
and another's portion is still cooked. Two requests at the gateway are the least
at which a payment's failure follows another's success. `partner_lifecycle`
keeps to one, because with two it does not end in five minutes; that nothing cooks for
the closed is proved for any number (section 4), and that suspended kitchens finish is
checked for one only. Three attempts and two crashes let a row be
crashed, failed, retried and given up; two rows let one fail in the batch of
another. A ceiling of 3 lets two requests overlap and a third moment come after
or between them; a ceiling of 0 is one an override may set. With a pool of 2 and a
generated content that is also in it, generation takes a content away from the
rotation. Three challenges let one be superseded while the one before is still being
delivered and the next is sent. Customers on both sides of the ceiling tell a share of
5 from one of 6. Prices and slices leave fractions in every model; three refunds round
four rows. Two users suffice for the last SuperAdmin, who needs one other; four starts for a boot
that dies, one that recovers, one on an older or restored file and one more. `requests`, `crashes`,
`starts`, `changes` and `now` are bounded for TLC only.

A deadlock is an error in every run.

### Fairness

`EngageOutbox`: `setInterval` keeps firing (`WF(Poll)`), a poll that began runs to its
end unless the process dies (`WF(Works)`), and time passes
(`WF(BackoffElapses(r))`). Crashes need no fairness and are bounded: a process
that dies in every turn would settle nothing, and the code has nothing against
that.

`EngageSession`: only the two timeouts. `withTimeout` gives up on a provider after four
seconds (`WF(GenerationFails(h))`), `checkNoveltyEmbedding` on the embedding after two
(`WF(Embedded(h, FALSE))`). No provider is trusted to answer. Each request makes two
attempts, so weak fairness suffices: an action of a request stays enabled until the
request takes a step.

`PartnerLifecycle`: the property is about what the code permits, so the staff are
assumed to want to: they sign in when they may (`WF(SignIn)`), and whoever holds a
session time and again comes to each portion's next step (`SF(Prepares(c))`, strong
because sessions expire between). A login refused during suspension, or a portion no
role may move, breaks it.

`GuestApp`: the polling interval fires as long as the screen is shown (`WF(Poll)`);
a network that loses some calls does not lose all of them, so a call that is sent
again and again is answered at some time and its answer arrives (`SF(Handle)`,
`SF(Receive)`), and what is lost for good ends (`WF(Vanish)`). Nothing is assumed of
the guest, the kitchen or the gateway.

### Statements the code does not keep

| Run | Statement | What happens |
|---|---|---|
| `find_double_capture` | simultaneous payments capture once (`tests/concurrency.js:22`) | Both requests pass the check for a `payments` row before either is answered; nothing checks again. |
| `find_double_tap` | "No duplicate order was created" (`public/app.js:2114`) | A second tap while the order is being created makes a second one; one payment fails, the other captures, and the page says so. |
| `find_delivered_parent` | Delivered only when all portions are (`docs/API_DOCUMENTATION.md:271`) | The grouped runner row carries the parent's id; delivering it writes the parent and leaves the portions. |
| `find_wrong_partner` | the tab's state is truthful (`public/app.js:1294-1300`) | `logout` keeps `S.PARTNER_ID`: a SuperAdmin who signs in after a PartnerAdmin saves branding for that partner under no banner. |

Seen while modelling, each from the code by reading, without a run of its own.

The money of an order:
- The check before the `await` and the write after it recur: the wallet's quote
  (`server.js:778`), so that concurrent payments overspend its monthly budget
  (`docs/DATABASE_SCHEMA.md:125`); the refundable balance (`server.js:1339`); the refund's
  key (`server.js:1313`); the status (`server.js:833`). That is why `order_money_serial` has
  one handler: its properties hold of the code when requests for one order do not overlap
  at the gateway (proved, section 4), and when they do overlap they do not.
- A partial refund of a cancelled order is paid and recorded, then refused by the
  transition table, before its reversal in the ledger (`server.js:1371` and 1379).
- An order that costs nothing leaves no `payments` row, so a repeated payment is
  processed again and redeems its points again (`server.js:825` against 738).
- A refund may exceed what was paid by one halala (`server.js:1354`). The same key with
  another amount answers with the first refund, as a success.
- A failed payment is remembered as the order's answer, so a retry never succeeds.
- Of two payments at the gateway together, the one that captures clears the portions
  (`server.js:841`) and the one that fails, if it answers last, writes Failed and FAILED
  over the order (`server.js:833`). The kitchens prepare an order that its row
  says was not paid, against the comment at `server.js:836` ("If payment failed, children
  stay in 'Created'"). That is why the second part of `NoPortionBeforeClearance` excepts
  orders with a failed payment; the first part, that money was captured, has no
  exception.
- A pending order whose policy becomes NO_GUEST_PAYMENT can never be paid, against the
  comment at `server.js:764`; and what the page learns of a policy at a later checkout
  can make it call a pending order confirmed.
- A flat fee is reversed with every partial refund, not once.
- A settlement (`lib/settlement.js:23`) may be made twice for one period, counts totals
  with VAT, leaves out partially refunded orders, and does not change when a refund
  comes between Draft and Paid.

Portions and kitchens:
- Once one portion is ready the parent is Partially Ready, a status the kitchen's queue
  filters out: the other portions' tickets disappear (`server.js:1406` against
  `docs/API_DOCUMENTATION.md:274`).
- A delivered cart of several outlets earns no loyalty points; a Created portion can be
  cancelled by nobody but a SuperAdmin.
- Failed has no successor: a failed order keeps its partner from being closed for good.
  And a failed or late payment of a closed partner is still taken where an order is open
  by a portion alone.

People, partners and the back office:
- "An active SuperAdmin remains" counts `active = 1`, and one whose link was reissued has
  no password until it is used: what remains need not be able to sign in.
- Suspending and then enabling a pending user makes it active without a password; a
  suspended user with a live link reactivates itself. Tokens outlive suspension,
  demotion and closure by up to eight hours.
- `iam.js` does not refuse a platform role with a partner's scope; a PartnerAdmin without
  a scope is matched with users without one.
- A provider's late failure overwrites the status of a challenge that was verified
  or locked meanwhile (`lib/verification.js:112`).
- Of two overrides of one flag, of the sample size or of the ceiling, the oldest row is
  read (`lib/engage-flags.js:62`), against "the explicit value wins" (14-15).
- Two mechanics in canary: only the newest is shown. One killed as a draft and taken back
  from "held" reaches a canary without a simulation. When the only promoted mechanic is
  retired, a moment's slot is claimed and the request then fails.
- The hub ignores the statuses of zone and partner, the order ignores the outlet's; a
  product's default merchant may be one the menu does not show.
- Clearing an override leaves its pictures stored for good. A crash between the
  statements of `deleteAsset` leaves a row or a name without its file.
- A batch of QR codes (`server.js:2157`) is no transaction, and point ids carry two random
  bytes: a collision fails the batch in the middle.

Deployment:
- On a database from before migration 023, with a usable SuperAdmin, a configured
  reset id keeps the server from ever starting: the table it is to be recorded in
  comes with the migration after.
- A first boot with a reset id creates the account without consuming it, so the second
  boot resets its password once (`docs/DEPLOYMENT.md:174` says otherwise).
- A backfill that dies between its statements leaves the second merchant without an
  outlet for good.
- Restoring a backup from before a reset, with the id still configured, resets the
  owner's password again: the backup does not have the id, against
  `docs/DEPLOYMENT.md:179`, by which no later boot with the same value touches it.
  `OwnPasswordStays` excepts the ids that the file in use has so forgotten, until
  they reset it once more.
- `backup-restore.js` requires `db.js` and so runs its boot; restore does not look
  whether the server is stopped.

The pages:
- Going from one partner to the next keeps the first one's banner (`app.js:1281`), and
  the policy tree read last stays writable; `api` compares only partner ids in query and
  body, and uploads pass it by. `Habits = {}` in `back_office` excludes these habits and
  the loads that land after a change of context.
- A late poll brings back the order before; Engage's state survives `startNewOrder`, and
  the invitation is asked for once, before the worker may have made the pass.
- A cart edited after a failed payment pays the old order under the new total. A retry
  after the creation's answer was lost makes a second order.
- The checkout's one card button sends "card", which a list of only `mada` or `applepay`
  refuses (`CardsAreListed` excludes such lists). A wallet linked after the creation is
  not used.
- `submitRefund` is defined twice (`app.js:914`, 973), so the finance screen's button
  calls the later one and does nothing.

Engage:
- The fallback after two failed attempts is the natural content of the pool even when it
  is remembered and others are not (`lib/engage-session.js:159`): `NoPrematureRepeat`
  is about the path without generation. A content remembered without a vector is
  invisible to a later comparison of vectors. A session with a ceiling of zero, or whose
  last slot was claimed by a request that failed, stays running, and may go on inviting.

## 4. What is proved

The theorems hold for every number of orders, outlets, merchants, handlers, rows,
passes, groups, challenges, versions, users, sites, visits, calls, callers, windows,
attempts and crashes, all amounts and every pool. They rest on the named assumptions in
the modules, which type the constants, and on what each theorem states as its own
hypothesis. Every safety invariant
and action property that a passing run checks has its theorem; where the run shows a
property under a restriction of its constants, the theorem states that restriction.

`OrderMoneyProofs`:
- `TypeCorrect`: `TypeOK` is inductive by itself. The interesting part is that
  the balance stays natural: `commitRedemption` looks at it again. The amounts need
  `SharesBounds`: rounding never makes a share negative.
- `ExemptNeverCharged`: strengthened by `ExemptInv`. `NotRequiredIsNeverCharged`
  alone is not inductive: a request at the gateway could be about an exempt
  order, and an order could become exempt after it was charged. The invariant
  excludes both.
- `KitchenAfterClearance`: assumes that no SuperAdmin moves orders, who may take
  any edge of the table by hand. Strengthened by `ClearedInv`: a refund at the
  gateway was admitted for a cleared order, so the status it writes is one of a
  cleared order, whatever a concurrent payment did.
- `BooksBacked`: for all interleavings and crashes. What the gateway moved and the tables
  do not show yet is what the answered requests carry, so the obvious invariant is a sum
  over handlers, which would need an induction. `ChargesBacked` and `ReturnsBacked`
  say it without one: the answered requests' amounts fit, as stretches that do not
  overlap, between what the tables show and what the gateway moved. An answer appends a
  stretch (`FitsOneMore`), a commit takes one away and closes the gap (`FitsOneLess`), a
  crash or an error leaves the gap (`FitsFewer`).
- `CapturedOnce`, `RefundsBounded`, `KeysNameOne`, `RefundedStays` and
  `RefinesGuestCharge`: of every behaviour that satisfies `[][TakesTurns]_vars`, in which a
  payment or a refund of an order is admitted only while no other request of that order is
  at the gateway. Without it they do not hold (`find_double_capture`, and the
  same overlap of two refunds); requests for different orders may overlap in any way.
  `TurnsInv` says that what a request found before it waited is still so when it
  resumes (`StillPays`, `StillRefunds`), and ties the columns of an order
  together (`Coherent`). That the refunds' tolerance does not add up over many partial
  ones is part of it: each is compared with what is left of the captured amount. The
  refinement goes step by step: `StepEffects` finds in every step one of three effects
  on one order, or none, and `EffectPromised` maps each to a step of `GuestCharge`.
- `HandledAlone`: with one handler every behaviour takes turns, so all of this follows
  from `Spec` alone. It is the theorem for `order_money_serial`.

`CartProofs`:
- `ClosedKitchensAreEmpty`: for all roles. "In preparation" is not inductive, because a
  payment moves a Created portion there after the closing; `Cookable` adds the statuses
  a portion can come from. Nothing outside it leads back (`NoWayBack`), everything in it
  counts as open (`OpenIfCookable`), and a draft, which is closed without
  looking, has never had an order (`DraftHasNoOrder`).
- `NotBeforeClearance`, `RunnerWaits`, `OverIsOver`: with the site's own roles, and the
  parent's id used by the runner alone (`SiteScreens`). `CartInv` adds that portions
  are cleared together, by the first success (`PortionsTogether`), that whatever awaits the
  gateway is about an order that is to be collected, and a refund found nothing cookable
  (`RequestsInTime`), and that none of the statuses after the kitchen is given while a portion is cookable. That the derivation never
  gives one too early is `DerivedFromPortions`, from the existence of a least advanced
  portion.

`EngageOutboxProofs`:
- `PassesBounded`, `NeverGivenUpEarly`: from `IInv`, which adds to the two
  properties that unborn rows have no attempts and that the row in the middle of
  its turn has a pass.
- `Prohibited`: an action property; only `Issue` raises `passes`, and it reads the
  flags in the same turn.
- `DeliversSafely`: the safety part of the refinement of `EventDelivery`. Each end
  of a turn settles the row or leaves it pending; that "issued" needs a pass is
  what the second part of `AttemptsInv` is for.

`EngageSessionProofs`:
- `Invariance`: the invariant has three parts. `SessionInv` adds to `CeilingHolds`
  that every row's slot is below the number of claimed ones, so the next is
  new. `HandlerInv` says that no two suspended requests hold the same row and that
  each one's row has no content: so an answer that arrives late disturbs no other.
  `RestInv` types the groups. `TypeCorrect`, `CeilingKept` and `GroupsKept` follow.
- `OverInTheEnd`: `OverInv` adds that rows come in the order of their slots, so a
  session with as many rows as its ceiling has a row for the last slot, and that
  whoever filled that one ended the session, unless the process died.
- `NoRepeatBeforeAll`: an action property of `StaticChoice`. `RotationCovers` shows by
  division with remainder that the rotation reaches every content; `Least`, from
  the well-foundedness of the naturals, that its first fresh one exists.
- `ClosedForGood`: sessions only go forward (`SessionsGoForward`), and a group's host
  has had a session (`HostInv`).
- `RefinesMomentAllowance`: `StepShape` reduces every action to opening, ending,
  appending a row or writing one, each of which is a step of the promise or none.

`AccessProofs`:
- `SuperAdminAlwaysRemains`: `assertNotLastSuperAdmin` is asked wherever `active` or a role is
  taken away, and no other action takes one; the users outside `exists` are none.
- `PartnersKeptInside`: an action property, under the hypothesis
  `PlatformRolesHaveNoPartner`, that no one is granted a platform role with a partner's
  scope, which the code does not refuse. The invariant carries it to the tokens.
- `NewestAlone`, of `Verification`: challenges are numbered by their count, so the
  invariant has that those sent are `1..n`, with the library's theorem on the
  cardinality of an interval.
- `CountsEachItsOwn`, of `RateLimit`: the counts agree time by time for every time a window
  still keeps (`CountedEach`), because the key of a request is its client however
  it came (`KeyIsTheClient`), and the sweep removes only what no window keeps.

`RolloutProofs`, of new mechanics and of new releases:
- `TriedBeforePromotion` and `ExposureBounded` need each other: the sample that
  opens promotion consists of customers of the share. `LabInv` adds that no share exceeds
  the ceiling, that a version is recorded where it is, and that whoever was served was
  served in a canary or after it.
- `ServedWhole` follows the boot: at each stage what the stages before established holds.
- `OwnPasswordKept` rests on `ResetsRecorded`: the file in use has consumed every id that
  ever reset the account, except those it is from before, and every backup has those
  spent when it was made. The reset and its record are one transaction, so no
  crash and no older schema comes between them.

`TenantProofs`:
- `SubscribersKeepTheirPlan`: an action property of `Plans`; a plan with a
  subscriber is not removed, and only an edit writes its entitlements.
- `OfferHolds`: an action property of `PaymentPolicy`. The invariant `PolicyInv` says
  that, while no override changes, what the page holds is what the server would
  resolve for the basket it was resolved for, and that page and server look at the
  same outlet.
- `TabIsTruthful`: for `Console` with no bad habit (`Careful`). `TabInv` adds that at
  most one answer is awaited, that it was asked for where the tab still is, and that
  scopes on the screens are those of the partner of the banner. Each habit breaks one of
  these.
- `OnlyItsPictures`, of `Branding`: what a layer names is a stored picture of that layer
  and of that field. An upload that ends late names its own and removes the one named
  at that moment; a deletion leaves no layer that names the picture
  (`DeletionIsComplete`).
- `ShownIsOrderable`, of `Storefront`: the two doors are compared in every state of the
  statuses, reachable or not; the proof says which of the conditions of the order's
  creation each condition of the menu stands for.
- `BooksAddUp` and `RefundsFollowTheSale`, of `Ledger`, for any rates, fees, prices and
  number of refunds. `LedgerInv` carries both bounds: `round2` is off by half a halala at
  most, also for the negative bases of a refund (`Round2Within`), so each row adds one
  half; the percentages are whole in the model's unit (`AlnadlPartIs`), and a refund of all that
  was paid, a rounded amount itself, takes back the sale's rate up to a halala
  (`FullRefund`). That the subtotal is no less than what
  each outlet sold (`SubtotalAssumption`) is evaluated by TLC: the sum of the outlets would
  be an induction over data.

`GuestProofs`: `VisitIsPaidOnce`, of a guest who waits for the page
(`Impatient = FALSE`); `find_double_tap` shows what happens to one who does not.
`PaidOnceAVisit` is strengthened to `OneHeld`: of a visit's orders at most one is
charged, the page's own, or the subject of a call under way, abandoned or not. An order is
created while none of its visit is held (`CreatesFirst`), which the one awaited
call (`OneAwaited`) keeps until its answer. Late answers of earlier visits may bring their
orders back to the page; they are held already, so the invariant allows them. That the page
would always show such an order's true status does not follow and does not hold (the
late poll in section 3).

Only model-checked: liveness (the fairness part of `EventDelivery`,
`EveryMomentIsServed`, `SuspendedKitchensFinish`, `TrackingCatchesUp`), which is outside
what the prover handles.

## 5. What could follow

1. Settlement as an operator over the ledger's rows and orders, with its reference
   definition, once the code decides what it is to count.
2. The kitchen's and the runner's screens, which poll as the tracking does.
3. That the portions of an order's outlets sum to its subtotal, and that a window passes no
   more than its limit, for every size: both are inductions over data, which TLC
   can only evaluate.

## Not modelled

- Settlement: one query over a period and a status that people move by hand. It has no
  state that others change under it; what it leaves out is listed above.
- Reports and dashboards: read-only queries.
- Loyalty's entitlements, promo codes, wallet administration, Engage's
  `submitResponse`: single statements, read by nothing that is modelled.
- What Engage's providers write, novelty scores, personality weights and safety
  filters compute: text and arithmetic on it.
- The format and validation of pictures, QR images, the JSON of plans, translations.
- Logging, smoke tests and audits, and the scripts other than backup and restore.
- Rendering, the kitchen's and runner's screens, and Engage's screens of the page.
- Of deployment: the refusal of legacy flags and of several instances, which stop the
  start before the file is opened, and a restore under a running server.
