# Verification of the ASB order pipeline

This directory holds TLA+ models of the program in `../src`, the TLC
configurations that check them on small instances, and proofs, checked by the
TLA+ proof system, for every instance. It is written beside the code: each
definition that models code names its lines in `PROJECT.json` ("map").

## 1. The system

A Node server (`server.js`) takes orders for a neighbourhood grocery. They come
from a Shopify shop (webhooks), from the WhatsApp inbox (`inbox.js`,
`orders.js`) and are collected in *bags*: one live order row for each household
and delivery cycle. Products of "Community" sellers must never get into a bag:
their lines are diverted to a separate intake. When an order has been put into
a bag, the customer gets an order confirmation (the *bill*) on WhatsApp.

Migration 017 (`grocery/`) makes this durable: PostgreSQL holds every job, and
a sweeper in each server instance works on what is due.

    Shopify --orders/create--> T0 capture ----> shopify_order_sources
                 ^   200          |                    |  T1a claim (lease)
                 +----------------+                    v
                            community_intake <---- T1b apply ----> orders, order_items
                                                       |  T1c failure, lease expiry
                                                       v
                                        shopify_order_bill_snapshots
                                                       |  T2 claim, T3 send, T4 finalize
                                                       v
        grocery_alerts <--- every stop ---   WhatsApp Cloud API --receipts--> backlog

### Inventory

| Component | State | Operations | What makes it correct |
|---|---|---|---|
| Capture, T0 (`server.js`, `community/intake.js`, `grocery/sources.js`) | `webhook_events`, `shopify_order_sources`, `..._duplicates`, `community_intake` | capture, duplicate, invalid order, redelivery | one source per Shopify order whatever the delivery ids; nothing is acknowledged that is not stored |
| Application, T1 (`grocery/apply.js`, `grocery/write.js`) | the source's status, lease, attempts, budget; bags | claim, apply, fail, expire | an order is applied once; each line in one place; bounded attempts; nothing is stuck |
| Bill, T2 to T4 (`grocery/billing.js`, `grocery/outbound.js`, `notify.js`, `whatsapp.js`) | bill state and proof, attempts, message rows | claim, send, finalize, expire | at most one automatic send; a result belongs to its own attempt |
| Receipts (`grocery/receipts.js`) | `whatsapp_receipt_backlog` | journal, apply, replay, alert | no receipt lost, order of arrival irrelevant |
| Operator (`grocery/operator.js`) | audit | requeue, dismiss, reopen, resend, compose, confirm, abandon, hold, release, link, acknowledge | never touches a row in flight; never asks for what a guard refuses |
| Sweeper (`grocery/worker.js`) | in-memory sweep flags | kick, sweep | everything due is picked up; a sweep asked for during a pass is kept, unless the pass throws |
| Alert outbox (`grocery/alerts.js`) | `grocery_alerts` | insert, dispatch | every stop is announced; pushed once but for lost results; `sent` and `gave_up` are true |
| Push (`push.js`) | `push_subscriptions`, the key pair in `app_settings` and in memory | load keys, subscribe, unsubscribe, notify all | one pair for all servers; a phone that refuses is forgotten; nothing leaves a rehearsal |
| Community registry and worker (`community/`) | registry, `community_intake` | sync, deactivate, reactivate, resolve, review | a captured line stays Community for ever |
| Switches, activation, backfill | `app_settings` | activate, stop, map old orders | nothing old is applied again; a stop takes effect |
| Rollback, compatibility reconciliation | all of the above | plan, apply | repairs what a rollback left |
| Delivery calendar (`schedule.js`) | - | the delivery of an instant, the one after it | what the owner's table says; no gap, no overlap |
| Order writers and lock engine (`orders.js`, `grocery/write.js`, `002_lock_engine.sql`) | `cycles`, `cycle_prices`, `orders`, `order_items` | resolve, merge, lock, unlock, weigh, strike out | the prices of the lock and nothing else on a locked bag; no order joins one |
| Bill engine (`003_bill_engine.sql`) | `bills`, snapshots, `whatsapp_messages` | pack, generate, send, pay, void and correct | a bill that went out does not move; a corrected one can go out |
| Broadcast (`broadcast.js`) | `broadcasts`, recipients, opt-outs; the run in memory | create, start, run, stop, resume | each number once per run, nobody forgotten, no one who said STOP |
| Message numbers (`bill.js`, `templates.js`) | - | confirmation, bill, template parameters | the numbers a customer reads agree with each other, and the bill is never above the promise |
| Product sync (`productSync.js`, the inbox's rates) | `products`, the catalogue item | save, push, link | a catalogue item sells at our price; a repeated webhook changes nothing; one product per item |
| Inbox screens, scripts, JSON and wording | - | I/O and formatting | - |

Hard in this code: several instances and kicks work on the same rows; leases
and claims expire under runs that are merely slow; a COMMIT may succeed
without the process learning it; Shopify redelivers, WhatsApp's answers and
receipts are lost, late and out of order; the registry changes between two
looks at it; operators act in between. `PROJECT.json` ("hazards") lists
these at the line where each bites, with the properties that guard it.

## 2. Modules

| Module | What it is |
|---|---|
| `OrderSource` | T0 and T1: deliveries, source rows, worker runs, sweeper, operator, registry, bags |
| `OrderPromise` | what T0 and T1 promise of one Shopify order, without workers and leases; `OrderSource` implements it |
| `MCOrderSource` | its instances for TLC |
| `OrderSourceProofs` | theorems about `OrderSource` |
| `BillSend` | T2, T3, T4, receipts and the bill's operator actions, for one bill |
| `MCBillSend` | its instances for TLC |
| `BillSendProofs` | theorems about `BillSend` |
| `Schedule` | `schedule.js`: the delivery of an instant, and the owner's table it is compared with |
| `CycleLock` | the bags of a delivery cycle: order writers, lock engine, bill engine; extends `Schedule` |
| `BillText` | the numbers of the order confirmation and of the bill; extends `Schedule` for the moment printed on them |
| `Templates` | what may be put into a WhatsApp template, and how many items fit |
| `ProductSync` | from Shopify's product to its row, and from the row to the catalogue item |
| `MCBillText` | bounded inputs for the last three; `MCCycleLock` extends it, so that the run `cycle_lock` evaluates them |
| `Broadcast` | the rate-list poster: inbox, runs of several instances, restarts |
| `CommunityIntake` | the Community registry, capture and the intake worker |
| `AlertOutbox` | the alert outbox, its dispatchers, the loop of the sweeper, the pushes to the phones |
| `Cutover` | the change of builds around migration 017: old build, 017 build, rollback build, switches, backfill, the two repairs |
| `PushKeys` | the key pair of Web Push, made once by servers that start together; no run, it holds its own theorem |
| `MCCycleLock`, `MCBroadcast`, `MCCommunityIntake`, `MCAlertOutbox`, `MCCutover` | the other instances for TLC |
| `CycleLockProofs`, `BroadcastProofs`, `CommunityIntakeProofs`, `AlertOutboxProofs`, `CutoverProofs` | theorems about each |

**State.** The columns that decide anything are variables (`status`, `attempts`,
`base` for `attempt_budget_base`, `lease`, `bill`, ...). Times are replaced by
what the code compares them for: `due` says that `next_attempt_at` has passed, and
an expiry may happen whenever a row is in flight, however slow or dead its run
is. Lease tokens are random in the code and never repeat; the attempt number of
a claim stands for its token. `written` is a history of the bag: which claim
put which line of which order there. `fate` in `BillSend` is what became of a
message at WhatsApp; no action of the code reads it.

**Steps.** A transaction is one step, unless it reads twice something that
others may change without waiting for its locks. T1b is such a one: it
looks at the Community registry to split the lines (`BeginApply`), again in the
bag writer's own check (`PassCheck`, `write.js:93`), and writes afterwards (`Commit`), when the registry may
be another one already. It holds the source's row lock from its first
statement to its end, which is `RowLocked`. A COMMIT whose answer is lost is the
second disjunct of `Committed` in both modules. `Priced` are the lines that have a price; the writer puts the
others on record (`skipped`) and not into the bag.

**`BillSend`** has receipts grow old (`ReceiptsAge`): the sweep replays those of the last 14 days (`ReplaySwept`), while T4, a link and
the webhook try all receipts of one wamid, once each (`ReplayOne`). Only a receipt without a message row grows old, since a sweep
comes each minute and a row that is there lets it be applied.

**`CycleLock`** has one step for each SQL function of migrations 002 and 003, and two for an order
writer: `Resolve` (`resolveCycle` reads the cycle's status, unlocked) and `WriteBag` (the rest
of the transaction, under the household's lock) or `WriteFails`. `book` is the price book that the
last lock of a cycle found, `late` the lines that came into a bag or cycle already closed, and those that the weigh station
un-weighed after their bag was packed: both are histories, for the properties. A quantity is left out, so is what a bill's snapshot says, a merge that would change one is `MergeRefused`.
`draft` and `open` cycles, `pending` and `confirmed` bags are treated alike by the code and are one value each.

**`Broadcast`** has one step for each query or call the loop awaits. `run[s].cast` is the
variable `running` of an instance; `got`, `starts`, `died`, `barred` and `missed` are histories. An instance that boots listens
first (`booting`) and resumes when `resumeAll` has its list, or not at all when that query fails (`Resume`); `missed` collects the broadcasts that
are `sending` when no instance is left that would go on with them. The answer of WhatsApp
is any refusal or acceptance, and a refusal may be a lost answer to a poster that went out. A
second instance may be up while the first one sends, as in a deploy.

**`CommunityIntake`** has the registry's rows (with a `FindNoRow` step, since a row that is not there
cannot be locked), one last audit row for each target, and for each process the list of its sweep,
the row in hand and its step. `Fail` is any error of an attempt; `Record` is
the statement that counts it, outside the transaction, which waits for the row's lock. Which of the review
reasons a line gets does not matter to what follows and is one value.

**`AlertOutbox`** has a task for each place that dispatches: the sweeper of a server, and others (a webhook,
a kick) that commit alerts and dispatch them at once. `run[r]` holds the rows a dispatch read, the phones that
are left and whether one accepted. Its steps are the read of a page, the start of a delivery (mark and list
of phones, whose queries follow each other with nothing of interest between), one push with its bookkeeping, and the
record of the result. What a sweeper's pass does before its last dispatch is `Commit`, any number of times, or an
error (`SweepFails`). The time of the next attempt is `due`. `pushes`, `slips`, `tries` and `shared` are histories: deliveries that
reached a phone, results that were lost, deliveries that ended without a push booked as accepted (a phone may have accepted one whose bookkeeping
failed, `push.js:90`), alerts two tasks held at once. So are `unserved`, the servers that were asked for a sweep and have begun none since, and `threw`, those whose last pass threw. `PUSH_DISABLED` acts as the mark does,
but until a restart, and is not a variable of its own.

**`PushKeys`** has one step for each query of `loadKeys`. `told` is the key a phone was given, `row` the one it
subscribed with: browsers keep to the pair of their subscription. Callers that come during a load share it (`loading`).

**`Cutover`** composes what the other modules take for granted: that one build runs, and that the
switches are on. The old build and the rollback build L3 are not in the repository; their steps (external in the map) are
what `backfill.js`, the reconciliations and their rehearsals say of them: a 200, a bag written afterwards, a bill
sent without an attempt row, the event marked at last; L3 asks for a source first and leaves one. T0, T1 and T2 to T4 are one
step each. A sweep keeps its order of reads (the switches once, then the page of sources, then the page of bills,
with `processBill`'s read of the switch before each claim), because that is where a revocation bites. A plan is a set of rows
fixed when its apply begins (the hash of the approved plan is compared there again), and `CommitApply` finds of each row what
its locks and unique indexes find; in between everything else may happen. The environment half of a switch acts by a restart and is left out. The order of
the procedure is in the guards: the first dry run and the worker's activation come when the old build is gone,
and it may come back until the worker has been activated once. `traceless` collects the orders that the old build had written or billed
and of which, when the backfill ended, neither a row nor a processed event told while their source was live; `unmapped` those that it wrote after the backfill
without a row, and those that had no source when L3 came. Both together are `Untold` (see "Seen while modelling"). `improvised` are those it billed without a bag.

**`BillText`, `Templates` and `ProductSync`** have no variables: the code they stand for computes a value from its
arguments, and is an operator of the same arguments. A price is in paisa, a quantity in thousandths; what is printed is a
number and the word next to it. Arithmetic is exact, where JavaScript's division may fall just below a half and print
one less; the bounds of the properties leave room for that but for `LineNeverMore`, which is about what PostgreSQL computes exactly.
A title is the two parts its parser tries, read or not. The outcomes of a product webhook are a set, since a push may be lost.

**Left out.** Audit rows (but for the registry's), wording, HMAC and JSON; in the modules of whole systems prices and
quantities too, but for those `CycleLock` tells apart. In
`BillSend` the switches (they are in `Cutover`) and the send scope, which only forbid a claim; the attempt
numbers that an old log row makes the claim skip; the difference between the
results `not_sent` and `refused`, which T4 treats alike. In `OrderSource` the
backfill is over when the model starts, every backfilled source has an event,
and the event of an order that had its orders row is processed.

**Assumed of WhatsApp**, which is external: a refusal, or no connection, means
that nothing was sent; a message that was delivered does not fail; a text that
found the 24-hour window shut is reported as failed (131047) and nothing else. An
operator who links a receipt links it to the attempt it belongs to.

## 3. What the runs show

| Run | Instance | Question |
|---|---|---|
| `order_one` | one order, two deliveries of it (one lossy, one with fewer lines), two lines, one without a price, two runs, 2 attempts per budget, 4 claims | everything about one order: applied once, no line both Community's and in the bag, events, budgets, alerts, CHECKs and guards of the schema, refinement of `OrderPromise` |
| `order_live` | one order and one unusable delivery, two runs, 4 claims | every acknowledged order settles |
| `bill_send` | two runs, 2 attempts per authorization, 3 in all, receipts `sent` and `failed` (also 131047) of the first attempt | at most one automatic send, budget, one attempt in flight, `sent` is proved, the guards |
| `bill_live` | one run, 2 attempts, holds, age, cancelled bags, old log rows, bills that cannot be composed, the same receipts and `failed` of the second attempt, two weeks | claims end, pending bills move, stops are announced, recent receipts are applied, in any order |
| `bill_linkable` | one run, one attempt | finding: see below |
| `cycle_lock` | one household, one bag, two products, one writer, two bills, the cycles of Monday and Thursday, one price, weighed or not | the prices on a locked bag, the lines behind a sent bill, the message of a corrected bill, weights under bills, the calendar |
| `cycle_late` | the same | finding: see below |
| `broadcast` | one broadcast, two numbers, two instances, one restart, one kind of refusal, a brake after two | once per run, completeness of `done`, opt-outs, the counters, resumption by a boot that may fail to read its list |
| `community` | one product, one variant, one line with a Community SKU, two sweepers, three attempts, one re-queue, one death | the registry fails closed, decisions stand, every line is decided |
| `alert_outbox` | one server, one task beside its sweeper, two alerts, pages of one, one phone, two attempts, one fault | pushed once, true states and counts, a sweep that is asked for is kept or its pass threw |
| `alert_live` | one server and its sweeper, two alerts, pages of one, one phone that is forgotten after two refusals, one fault | every alert settles |
| `cutover` | two deliveries of one order and one of another, one sweep, one rollback, the bills may be revoked | across builds: an order that the old build left a trace of is written once and billed once, what is closed as handled was written, a stop takes effect |

Each module's `TypeOK` is proved, for every instance, and is not an invariant of a run.

`cycle_lock` and `cycle_late` evaluate the assumptions of `MCBillText` first: packs and sizes up to two kilos, two lines that are weighed, locked
and compared or not, totals on both sides of every rupee and half, all texts of five characters, all lists of five
items around the limit, every title, webhook and row of a small catalogue, and all links of three products and two
items. Each of them fails when the code's rule is changed in a small way (a rounding, a comparison, a separator, a COALESCE).

**Bounds.** `MaxClaims` and `MaxSends` cap counters that the database does not
cap; an operator's action is enabled only if it leaves a whole new budget within
the cap, so that a cap never makes a budget look smaller. Two
claims by two runs are what every race of the code is about (an expired one and
its successor), two budgets are what a requeue or a resend needs, and of two lines
one has a price and one has none, and each may be Community's or not at any time. Two deliveries are the owner and
a duplicate. The bag that an order merges into, and that keeps no row of it, is opened by `InboxOrder`, which may also do so
before the order's first claim; two orders of one bag are covered by `AppliedOnceHolds`. In `MayReport` (attempts with their statuses) and `MayChange` each run of `BillSend` chooses the receipts
and outside events its properties depend on. `OfTheFirst` is an attempt that may be proved by a receipt and may fail, before its result is booked, after it, while a second attempt is
under way, and in either order; `OfTheFirstTwo` adds the failure of its successor, with which the budget is used up. `delivered` and `read` raise the rank further and prove what `sent` proves.
`bill_linkable` allows all receipts.

One bag is enough for `CycleLock`: every rule of 002 and 003 is about the lines and bills of one order, and
`writer` may hold it back across a lock. Two products tell a struck line from a live one and the last
one from the last but one; two bills are a void one and its correction; 0, 1 and `Unavailable` are the
prices a lock tells apart, and the weight 0 stands for NULL: un-weighing a line is the re-weighing that matters. `BookingCalendar` is about a fortnight of
hours, for TLC and in its proof; a longer one repeats the weeks. Two numbers and a brake at two
(five in the code) let a broadcast brake, finish and be stopped in between; a broadcast is independent of
another but for the `running` variable, so the answer 409 of a second one is not reached in this instance.
One line meets every hazard of the worker, which locks and reads nothing else; three attempts (eight in the
code) are a first failure, a repeated one and the last. Their other caps are `MaxRestarts`, `MaxFaults` and
`MaxRequeues`, which bound what a person or the host may do without limit.

Two alerts and pages of one (50 in the code) make one wait behind the other; two attempts (ten in the code) are a first and
a last. A phone is forgotten after `MaxFailures` refusals in a row (20). `MaxFaults` counts failed queries and
deaths together: one of them loses one result. Several servers share nothing but the rows; what two sweepers do to one alert is proved (section 4). Who pushes to a phone that subscribes meanwhile
pushes to the list it read; `Subscribe`, `Unsubscribe` and `Mark` may happen at any time, without limit.

Two orders and one sweep are a page of which a part is done when a switch is revoked; two deliveries of one order are the old build's and the 017 build's, or
a duplicate. `Late` keeps the second order's delivery for the 017 build, `MayBeCommunity` and `MayRevoke` name what may
vary. `MaxRollbacks` is one return of the old build or of L3; two were checked once as well.

**Deadlock** is not checked: when all orders are settled, or the one
bill is closed, the system rests.

**Fairness.** `OrderSource`: Shopify redelivers until it reads a 200
(`server.js:570-592` answers 503 or 200); the sweeper runs every minute
(`grocery/worker.js:100`), claims what is due and expires leases; T1b sets a statement
timeout (`grocery/apply.js:142`), so every run, between its check and its writes too, ends in some way; time passes.
`BillSend`: the sweeper claims, expires and replays the receipts of the last 14 days; no replay of one wamid is assumed; a run never waits for
another, so it sends and finalizes, or dies; a finalize whose commit is never seen
is given up after five minutes (`grocery/billing.js:33`). Neither success nor any act of an operator
or of WhatsApp is assumed. The switches are taken to be on.

`Broadcast`: an awaited query or call comes back in some way unless the process dies, and the host boots an instance
when none is up (`HostBoots`; `broadcast.js:15`): one that a deploy replaced need not come back. An instance that is booting gets an answer to its query, or an error (`Resume`). `CommunityIntake`: the sweep timer fires (`community/worker.js:172-177`), an attempt that has
begun is finished or fails, and the backoff, at most an hour, elapses. `AlertOutbox`: only the sweeper is fair, which the interval asks for
again (`grocery/worker.js:102`): what it awaits comes back in some way, though a push has no timeout of its own;
a server that is down is booted with the switch on, and a backoff, at most an hour, ends. The other tasks may hang for ever. Nothing is asked of
the phones; `AlertSettles` supposes only that from some time on some server is up with the switch on and the mark is off, since a suppressed push
must cost an alert nothing. `PushKeys` and `Cutover` have safety only: an operator drives a cutover. `CycleLock` is driven by people and
has no fairness and no liveness property.

**Finding** (`bill_linkable`). `confirm-sent` gives an attempt the proof
`operator` and no wamid. If its receipt comes afterwards, `alertUnlinked` lists
the attempt as a candidate whatever the bill's state, "an operator links one
explicitly" (`grocery/receipts.js:156-163`); but `link-receipt` writes
`proof = 'receipt'`, which `asb017_attempts_guard` refuses for an attempt that has a
proof. The alert can only be ignored.

**Finding** (`cycle_late`). "At lock: final prices are stamped onto every line, totals are frozen, and the order
becomes immutable except for packed weight" (`002_lock_engine.sql:13-14`). A writer that resolved the
cycle before the lock, and writes after it, merges into the locked bag: `findOpenOrder` takes any bag that
is not cancelled, and the guard trigger fires on UPDATE only. The new line has no final price, is
billed at its ceiling, and was not there when the buying list was frozen. The trace is `Resolve`, `WriteBag`, `Resolve`, `LockCycle`,
`WriteBag`.

**Seen while modelling**, without a run of its own:

* `asb_unlock_cycle` does not look at the cycle's status: a cycle with packed bags, or one that was delivered
  without any bill sent, opens again, and its packed bags keep their prices (`002_lock_engine.sql:293-340`).
* `asb_mark_bill_sent` writes one wamid into every `final_bill` message of the order, and `wamid` is unique: after a void and a
  correction there are two such messages, and the corrected bill cannot be marked sent with its wamid. Without one, a late confirmation
  of the void bill marks the corrected bill's message as sent as well (`003_bill_engine.sql:315-321`).
* `asb_mark_bill_paid` accepts a void bill, unless a corrected one is alive (`003_bill_engine.sql:327-346`).
* Weights may change while a bill is a draft; its snapshot keeps the old numbers (`003_bill_engine.sql:195-240`; snapshots are not in the model).
* The weigh station accepts NULL, so a line of a packed bag can be un-weighed; the bag stays packed, and its bill takes the line at the quantity
  ordered (`002_lock_engine.sql:402-408`, `003_bill_engine.sql:203`). Such lines are the second kind of `late`.
* A draft that is voided leaves its message `queued`, and the outbox view still lists it beside the corrected bill's (`003_bill_engine.sql:448-454, 469-481`):
  `BillHasItsMessage` speaks of the message with the order's key, and of no older one.
* The Community check at the head of the bag writer (`grocery/write.js:93`) locks nothing. A line that is registered between it and the INSERTs (95-206, which may wait
  for the household's lock) enters the bag, against "must NEVER enter the grocery pipeline" (`016_community_intake.sql:4-5`). What holds is `OneHome`: it is
  not Community's as well.
* A line without a price is recorded as skipped (`grocery/write.js:178-182`); an order of such lines alone still makes a bag, with nothing in it.
* A message may be `failed` while its bill is not `sent` yet, which raises nothing (`receipts.js:119`); if the claim expires then, the stop is announced; if an older `sent` receipt is
  applied after that, it closes the bill as proved (`receipts.js:95`) without an alert of its own. Hence the alerts that `SentIsProved` accepts.
* "No receipt is lost" (`grocery/receipts.js:13-15`) has a horizon: the sweep selects what was received in the last 14 days (line 141). An older receipt whose row appears later (a finalize
  that was long in coming, a link) has one direct replay; if that is lost, it stays unapplied.
* A pass of the sweeper that throws ends its loop, and a request that came during it waits for the next interval, though `again` is set (`grocery/worker.js:88-95`).
* "Nobody gets the poster twice" (`broadcast.js:17-18`) does not hold of a death between lines 199 and 203, nor of two instances
  that overlap: once per run is what holds (`OncePerRun`).
* A stop that comes between the reading of the status and lines 180 or 239 is overwritten. A run that dies of a query error
  leaves its broadcast `sending` until the next boot, and a boot resumes one broadcast only, or none if its query fails (`broadcast.js:250-263`). An instance that
  is already up never looks again: when the one that was sending goes, its broadcast waits for a boot.
* A first registration of a Community product that overlaps another one and an operator's deactivation
  activates the product again without an audit row (`community/registry.js:96-97, 167`): hence the second conjunct of `RegistryFailsClosed`
  is an implication.
* A line whose attempt looked its variant up just before an operator deactivated it is resolved just after it (`community/worker.js:81`
  reads the registry without a lock), as if the two had come in the other order.
* A failure recorded late may be charged to a row that a person has just re-queued, which then has less than the "full retry
  budget" of `community-review.js:90`. `processOne` does not look at `next_attempt_at` again.
* An old build that dies between a merge's commit (which keeps no row of the order) and the mark on its event leaves an event
  that is `received` and an order in a bag: nothing in the tables tells it from one that was never begun, and a person who reopens it writes it again (`traceless`).
* The old build may come back between the backfill's marker and the worker's first activation, and what it merges then is mapped
  by nobody: the backfill is over, so a processed event is read by no one, and when such an order is delivered again the 017 build writes and bills it a second time.
  L3 looks for a source, never for a row, so it also takes for new what has a row and no source. Both are `unmapped`. The reconciliation after a rollback
  leaves a processed event without a bag to a person's review (`rollback-reconcile.js:189`). `WrittenOnce` and `BilledOnce` say nothing of the orders in `Untold`;
  `backfill.js:4-5` promises its blocking rows for what the old code "already handled", which is true of what had been handled when it ran.
* A sweep reads the worker switch once, so a revocation lets the rest of its page of sources be applied (`grocery/worker.js:57-73`); of
  bills it lets one go (`OneBillAfterStop`).
* The total of the confirmation is called "the most the customer can ever be asked to pay" (`bill.js:7`). The price is
  capped (`001_init.sql:255-260`), the weight is not: `qty_packed_sane` asks for no upper limit and
  the weigh station only reports the variance. `LineNeverMore` and `NeverMoreThanPromised` therefore suppose that no line was weighed heavier than ordered.
* A confirmation that the inbox sends again after the weighing, or of a bag with a struck line, has lines that do not add up to its
  total: its lines are `qty_ordered` and all of them, its totals the packed weights of those that are left (`bill.js:199-274`,
  `orders.js:101-131`). `ListAddsUp` supposes an order that was not weighed.
* Two webhooks of a product, or two pushes, that come in the other order leave the older price: nothing compares `updated_at`.
* `is_weighed` is decided when a product is first seen, and a later title that changes its unit does not change it (`productSync.js:120-138`).
* Linking a catalogue item to a variant that does not exist takes it from the product that had it, and reports
  the variant as missing (`inbox.js:1053-1059`).
* `finalBill` is called by `scripts/preview-bill.js` alone; the bill that is sent is the template's.

## 4. What is proved

`OrderSourceProofs`, from `OrderSourceAssumption` only (the shape of the constants), so for
all sets of orders, deliveries, lines and workers and all budgets:

* `TypeCorrect`: `[]TypeOK`. The invariant is `Typed`, which adds that a
  run that is not idle works on an order (`firstEvent` and `status` are applied to it).
* `AppliedOnceHolds`: `[]AppliedOnce`. `AppliedOnce` is about the bag only and says nothing of
  why a second write does not come. `OneApplier` says it: a run in T1b holds the current lease of
  a row in `processing`, and no two runs are in T1b of one source. `WrittenBy`: whatever was written belongs to an
  order that has its orders row or is `applied`. So a writing step finds its order unwritten, and
  all it writes carries its own token.
* `BudgetHolds`: `[]BudgetBound`. `Unused` is needed for an order that is reopened or captured:
  it has not used any of its budget before its first claim.
* `TableChecksHold`, `EventMirrorsSourceHolds`: from `RowInv`, which holds of each row by itself (`RowOK`) next to the types and `OneApplier`. The
  CHECKs need `BillWaits`: what an outcome makes of the bill depends on what the bill was while the source waited, and a
  reopened order is the exception. The mirror needs `FirstOwn`: a source's first delivery is of its own order, so no other row's step writes its event.
* `ReviewIsAlertedHolds`: inductive with the types and `OneApplier` (`ReviewInv`), since the alert's key is the attempt, which does not move
  while the order is parked.
* `OneHomeHolds`: `[]OneHome`, from the same invariant as the refinement (`PromiseInv`, below): what a transaction split off for the bag was not Community's when it
  began (`SplitFromPayload`), and intake rows of a source whose row is locked are left alone by everyone else (`IntakeHeld`).
* `SourceGuardHolds`: an action property. It says that the trigger of 017 never refuses an update of the pipeline;
  that the attempts never go back, that the first delivery stays and that each status edge is in the list comes from `RowInv`.
* `KeepsPromiseHolds`: `Spec => KeepsPromise`, the refinement of `OrderPromise`. Every initial state maps to an initial one. Each step maps to
  a step of the promise or a stutter: the capture that makes a source opens the order, the commit of T1b applies it, an end that puts nothing into the bag closes it
(`SetAside`, which also is a step that gives Community more of its lines), and all others stutter.
  `PromiseInv` adds to the invariants above that Community took only lines of the payload, and that what a
  transaction split off for the bag is of the payload and not Community's: with `AppliedInv` it follows that each line is placed once, in the bag if it has a price and
  on record as skipped if it has none (`SkippedBy`).

`BillSendProofs`, from `BillSendAssumption` only, so for all numbers of worker runs and both limits:

* `BillTypeCorrect`: `[]TypeOK`. `Typed` adds that a busy run works on an attempt that was claimed, and that
  `current` is the last attempt.
* `BillBudgetHolds`: `[]BillBudget`, inductive once the types are known: a bill becomes pending either with a new
  budget (`Reauthorize`) or while some of the old one is left.
* `OneInFlightHolds`: `[]OneInFlight`. `InFlight` adds that an attempt without an outcome has no proof, so that
  closing it never meets a wamid.
* `AtMostOnceHolds`: `[]AtMostOnceAutomatic`. The property speaks of messages that were taken; a message in the hands
  of a run that claimed it may still be taken, however long ago its claim expired, so the invariant `Once` is about
  both (`Maybe`). `Authorised`: after such an attempt, every later one has a person's authorization in between. `Waiting`:
  a bill that waits without authorization has no such attempt since the last authorization; this is what lets the next
  claim keep `Authorised`. It survives a retry because a `not_sent` result and a receipt 131047 both say that
  the current message was not taken (`FateKnown`), and because no other run can still send it (`Own`). `InFlight`
  makes that message the bill's last attempt.
* `ReceiptOrderIsIrrelevantHolds`: `Ordered` says of each message with a wamid that its row shows the furthest receipt that was applied to it, and
  of each one without that it met none. The latter is what makes a link safe: the row it starts from is that of the send alone.
* `StopIsAlertedHolds`: inductive with the types; each way into a stop inserts the alert of that stop in the same transaction.
* `SentIsProvedHolds`: `Truthful` says that what WhatsApp reported, answered or proved is true of the message (`fate`).
  From there a bill that is sent on WhatsApp's word has a message that went out, and if a `failed` receipt of it was applied, an alert told a person so
  (`Shown`). Two steps matter: the failure of a message whose bill is sent raises its own alert; a receipt that closes a stopped bill whose message had failed finds the alert of
  that stop (`StopIsAlerted`), which belongs to this attempt or a later one (`StopWarns`).
* `BillGuardHolds`: an action property: the triggers on the source and on its attempts refuse no update, but for the link of the first finding
  above: `LinkReceipt` changes nothing there, and is not a step. What every other writer asks for is accepted because of the four invariants before it.

`CommunityIntakeProofs`, from the constants' assumption (no product is a variant, the caps are naturals):

* `CommunityTypeCorrect`: `[]TypeOK`. The invariant is `Typed`: a process that is in a transaction has a row in hand
  (`InHand`), and a row that is pending or failed has an attempt left (`AttemptsLeft`), which is what bounds the counter.
  `AttemptsLeft` is not inductive by itself: an attempt reads the row and counts it later, and only the row's lock keeps the
  count it read true. `LockHolds` says that one process at a time holds a line, and that the line it holds is one it may decide.
* `RegistryFailsClosedHolds`: `[]RegistryFailsClosed`, inductive with the types: each writer of the registry writes its audit row in
  the same step, and a first registration never switches a row off.
* `DecisionStandsHolds`: `[][DecisionStands]_vars`. A commit of a sweep finds its line undecided because of `LockHolds`; a failure recorded
  late looks at the status itself.

`CycleLockProofs`, from the constants' assumptions (`NullAssumption`: "no line" and "no bill" are no line and no bill), so for all
households, bags, products, bills, prices, weights and writers, and all sequences of locks:

* `CycleTypeCorrect`: `[]TypeOK`. The other theorems follow from one invariant, `IInv`, whose parts are facts of one bag (`BagOK`) and of
  the bills (`KeysOK`). None of the properties is inductive alone.
* `StampedAtLockHolds`: a bag is locked only in a cycle that is locked or past, and while its bag is confirmed a line
  has no price. So a lock stamps all lines at once, and an unlock that returns a bag clears all of them.
* `BilledWasWeighedHolds`: an action property. A bag is packed only when every line is weighed; a writer that was too late may add a line
  afterwards, and the weigh station may take a weight back, and `late` records both; a bill is made of a bag that is packed, out or (by then) cancelled (`BilledBags`).
* `BillHasItsMessageHolds`: a bag has one live bill (`OneLive`), whose message holds the order's idempotency key (`KeyIsLive`, `Keyed`)
  and belongs to it alone (`OwnMessage`); the other messages are those of void bills (`OthersVoid`). A bill can be reissued because `VoidBill`
  frees the key in the same step.
* `SentLinesAreFrozenHolds`: the weigh station asks for the bag's bills, but a lock and an unlock do not. What keeps them away is
  `BilledBags`: a bag with a bill is never confirmed or locked again. A merge only adds lines.
* `BookingCalendarHolds`: an instant is a day and an hour (`DayAndHour`), and how many days away its first cut-off is depends on the weekday and on whether it
  is 8pm yet (`Wait`, `FirstCutoff`), so the minimum that `DeliveryFor` takes is known (`Slot`), and the one after it (`SlotAfter`). `Calendar` compares both with
  the owner's table at every hour of every week. `Booked` keeps where a writer's delivery came from; a cycle that was made stays made (`CyclesStay`).

The same module proves, for all numbers, what `BillText` and `ProductSync` say of one line, of the totals and of one product:

* `LineNeverMoreHolds`: rounding is monotone, so a price that was capped and a weight that was not exceeded make no line dearer.
* `WeightReadsRightHolds`, `LineMultipliesHolds`: what is printed is next to what was rounded (`RoundedNear`), for every number of packs of every size and
  every rate; a rate per kilo times the grams is the total, to half a rupee and half a rupee for each kilo.
* `SavingsAddUpHolds`, `TemplateAddsUpHolds`: two roundings of the same totals differ by a rupee at most, and the template claims no saving it does not show.
* `MomentExplainsDeliveryHolds`: from the calendar's lemmas, at every hour of every week.
* `SavedOnceHolds`, `MeasureStaysWholeHolds`, `SoldAtOurPriceHolds`, `OneProductEachHolds`: by the cases of what a webhook tells.

`BroadcastProofs`, from `BroadcastAssumption` (the instances and the numbers are finite, ids and numbers are naturals):

* `BroadcastTypeCorrect`: `[]TypeOK`. `Base` adds that a run has a broadcast that was created, and a recipient in hand when it sends
  or marks, and that a run that has met the brake does not go on; the counter of equal refusals is bounded by that.
* `OncePerRunHolds`: `[]OncePerRun`. Several runs may have picked the same number, so what was sent says too little. `Paid`
  counts with it the runs that may yet send to it (`Debtors`): the sum never exceeds the starts. A send pays one debt, a start adds one,
  a mark cancels the others' debts, and no step else adds any.
* `DoneIsCompleteHolds`, `StopIsHonouredHolds`: from `Reach`. A row once not pending stays so, hence a run that found the list
  empty may end long after; a number barred at creation has never been pending, and is in no run's hands (`Spared`).
* `ReportAddsUpHolds`: from `Report`. It is about a broadcast that one run finished, so `OneRun` says that a second run of it is a second start. While
  that run lasts (`Kept`) the rows of each kind are what it has counted, and one more between the mark and the count (`Balanced`);
  before its first run there are none (`Blank`). The recipient it marks was pending, so a mark adds one row.

The steps of a broadcast have five forms (`SomeForm`): most are quiet and only move or end one run.

`AlertOutboxProofs`, from `AlertAssumption` (finite sets of servers, tasks and alerts, positive limits):

* `AlertTypeCorrect`, `SettledForGoodHolds`, `RequestIsKeptHolds`, `AttemptsAreTriesHolds`: each with the types; the last one with what the
  attempts of a pending alert are bounded by. `RequestIsKept` excepts the servers whose pass threw, and only those. A result that comes late meets a row that is not pending, and `Recorded` leaves it.
* `PushedOnceHolds`, `StateIsHonestHolds`: a dispatch that is delivering an alert may have reached a phone and not yet recorded it, so what was
  pushed is compared with what was lost *plus* what is still in a task's hands. For an alert that is not shared, one task holds it at most;
  while it is pending, each push is a lost one or that task's. A shared one is counted by the tasks that can still reach a phone with it: a task reads an alert only while it is
  pending, and what it adds it must add before it lets the alert go. A process that dies turns each delivery in hand that reached a phone into a lost result.

`CutoverProofs`, from `CutoverAssumption`, so for all sets of orders, deliveries and sweeps and any number of rollbacks:

* `CutoverTypeCorrect`: `[]TypeOK`. A plan chooses the first delivery of a set, which exists since ids are naturals (`FirstIsIn`).
* `WrittenOnceHolds`, `HandledIsWrittenHolds`: neither follows from the sources alone, for before the marker much of what was
  written has no source. `Before` says what the events tell then: a delivery in the hands of the old build has no source, and a processed one
  was handled. `NotLost`: an order of the old build has a row, or a source that is closed, or (before the marker) such an event. The step that
  matters is the backfill's commit: the old build is gone (`PlanOK`, `BuildsOK`), so that event is processed, and
  the verification finds each one that has no closed source (`BackfillFinds`). After it the evidence must be a row or a closed source, or the order is `Untold`.
  `L3Knows` says the same to L3, which looks for sources only.
* `OneBillAfterStopHolds`: a sweep takes a bill in hand when it has read that the bills are on, one at a time (`OneInHand`).
* `BilledOnceHolds`: `BillInv` adds to the invariant above who may still bill an order. Before the activation nobody but the old build has billed
  anything (`Early`, `ShapeOf`); an order whose bill is due, or may be recovered, has had none (`DueOf`); L3 about to bill has a source of its own that nobody has billed (`JobOf`); and
  a row of a plan that recovers a bill is about one that was proved not to have gone out (`RowOf`), which stays true until the plan is applied.

`PushKeys` holds `OnePairHolds`, by `KnownIsStored`: whoever knows a pair knows the stored one, which no insert replaces.

Only model-checked: liveness, which is outside the prover's logic of actions (`AckedOrderSettles`, `InFlightEnds`, `PendingEnds`,
`ReceiptsAreApplied`, `InterruptedIsResumed`, `EveryLineDecided`, `AlertSettles`); what adds up or walks along a list of any length, which needs an
induction over data (`ListAddsUp`, `NeverMoreThanPromised`, `SafeForGood`, `ListFits`: bounded inputs). The two properties of the findings are false. Every other property of
a run is a theorem.

## 5. Plan

In this order; each with its hazards from `PROJECT.json`.

1. Pure algorithms against reference definitions: backoff, status rank, phone numbers.
2. A larger `Broadcast` (two broadcasts, for the answer 409) and `CommunityIntake` (two variants of a product, one of them
   no longer listed) as state spaces allow; `CommunityIntake` composed with `OrderSource` through `registered` and `intake`.
3. Theorems about what 1 and 2 add.

Not planned: the inbox's screens, the wording of messages, the push of each inbox message and scripts; they
are I/O and layout around the operations above.
