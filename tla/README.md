# Madar: models and proofs

Madar is a multi-tenant point-of-sale backend (Rust, actix, sqlx, Postgres).
Tills, kitchen screens and web clients work against several server instances
that share one database.  The parts that are hard to get right are the ones
where a device keeps a copy of the branch's state, where a server instance
answers from memory, and where concurrent and replayed requests meet at a
till that somebody is closing, at a bill, at a table, at a shelf or at a loyalty
card.  This directory models those parts in TLA+, checks them with TLC on small
instances and proves their safety properties with TLAPS for every instance.

Paths below are relative to the repository; `src/` is its Rust code.

## Inventory

| Part | State | Operations | What is hard |
|---|---|---|---|
| Changefeed and `/sync/pull` (`migrations/20260914090300_sync_changefeed.sql`, `src/sync/pull/`) | `sync_changes` (one row per entity and branch, stamped from one sequence), purge watermarks | `sync_emit` in triggers, `sync_safe_horizon`, incremental, full and paged pulls, the sweeper | transactions that commit out of sequence order; a pull is several snapshots; answers are lost; live sets that change by the clock; the sweep's statements commit one by one |
| Read fast paths (`src/fastpath/`) | per-instance maps of answers, generation counters, LISTEN session | capture, put, lookups, `handle`, `session_started`, `session_lost`, `fence` | reads racing writes and notifications; a listener that breaks; several instances |
| Operation replay (`src/sync/handlers.rs`, `src/sync/batch.rs`) | the operations' own rows, flags, approvals; the tills' queues | `replay`, `replay_batch` | retries of applied operations, partial failure after commit, batches that stop, old tills that read a status another way |
| Tills (`src/tills/`) | `tills`, cash movements, reconciliations | open, close, force-close, delete, cash in and out, late replays | concurrent closes, check-then-act, sales that arrive after the close |
| Open tickets and kitchen (`src/tickets/`, `src/kitchen/`) | bills, rounds, lines, the running subtotal; kitchen tickets and lines | fire, bump, recall, void a line, settle, void, name the customer, retire | two writers of readiness and closing; lines read before the settle's transaction |
| Orders and refunds (`src/orders/`, `src/refunds/`, the refund triggers of `migrations/`) | orders, payments, refunds, stock | create (idempotent), void, refund | concurrent refunds of one order, a refund against a void, retries of what is still in progress |
| Floor and tables (`src/floor_ops/`, `src/reservations/`) | the occupancy ledger, transfer requests | seat, hold, move, swap, release, clear, ask for and fulfil a transfer | two screens acting at once; rows that start at the time their transaction began |
| Bookings, delivery | bookings, delivery orders | status changes | sweeps by the clock |
| Loyalty (`src/loyalty/`) | the ledger of points, the balance its trigger keeps | award, plan and place a reward, void, refund, stamp and redeem at the counter, adjust | balances read before the transaction; partial refunds of a reward; retries |
| Inventory, purchasing, stocktakes (`src/inventory/`, `src/purchasing/`, `src/stocktakes/`, `src/costing/`) | the movement ledger, balances, transfers, orders, counts, average cost | dispatch, receive, cancel, count, finalize, deliver, sell, waste, void | documents read before the transaction; a count while stock moves; a cost read without a lock |
| Authorization, sessions, devices, plan | grants, epochs, sessions, devices | grant, revoke, sign in, switch off | cached grants (covered by FastPath) |
| Realtime and push | in-memory hub | publish, subscribe | lost events; clients fall back to pulls |
| Staff, analytics, reports, AI, assets, menus and other records | | | mostly records, queries and I/O |

How they interact: every write of a source row fires a trigger that emits into
the changefeed; the commit sends `NOTIFY`s; each instance's listener drops the
answers in memory and then nudges the branch's devices over the realtime hub;
the devices pull.  Offline devices queue operations and replay them through
`/sync`, which calls the same inner functions as the live handlers.

What makes each part correct:

- changefeed: a device that was told "you have seen everything up to n" has;
  a device ends at the head of the feed; it is told to resync when the feed can
  no longer tell it what it missed; a checksum that does not match means that
  something really is on its way or being repaired;
- fast paths: nothing is served that this instance knows, answered or announced
  to be out of date; staleness ends;
- replay: an operation takes effect once and in the order it was queued, none
  vanishes, and every queue empties;
- tills: everything that touched a drawer is in its closing figures, the first
  close stands, a movement is undone once, the kitchen is cleared when the last
  till closes;
- orders and refunds: a sale is recorded once, gives back no more than it took,
  is not both voided and refunded, and a void restocks once;
- tickets and kitchen: the subtotal of a bill is what its live lines cost, a bill
  ends once, its customer reaches the sale, the kitchen's two columns agree and
  the first close of a kitchen ticket stands;
- floor: an open bill sits on the one table it names, a party that sat down or is
  waited for keeps its table but for a transfer, a transfer request resolves once;
- stock: a transfer's goods are in one place, an order brings in no more than was
  ordered, a count stands, and what is looked at before it is taken is never more
  than was there;
- loyalty: the balance is the ledger's and covers what is spent, a reward comes
  back exactly once, a sale that happened lands whatever became of its points.

## Modules

| Module | Role |
|---|---|
| `SyncFeed` | the changefeed of one branch, the sweeper, and the devices' pulls |
| `FeedContract` | what devices are promised, without the mechanism |
| `SyncFeedProofs` | the theorems about `SyncFeed` |
| `FastPath` | the cache fill rule, the write fence and the listener |
| `FastPathProofs` | the theorems about `FastPath` |
| `Drawer` | the money of a branch's tills under concurrent requests |
| `DrawerContract` | the same money when every request is one atomic step |
| `DrawerProofs` | the theorems about `Drawer` |
| `Tickets` | the open bills of a branch and their kitchen tickets |
| `TicketsProofs` | the theorems about `Tickets` |
| `Floor` | who sits where: the occupancy ledger and transfer requests |
| `FloorProofs` | the theorems about `Floor` |
| `Replay` | the tills' queues of operations, and the server that replays them |
| `ReplayContract` | what the replay promises: each operation lands once, in its turn |
| `ReplayProofs` | the theorems about `Replay` |
| `Stock` | the movement ledger of a branch and the documents that write it |
| `StockProofs` | the theorems about `Stock` |
| `Loyalty` | one member's ledger of points |
| `LoyaltyProofs` | the theorems about `Loyalty` |
| `MC` and the module's name | the instance of each for TLC: model values, functions, symmetry |

Three modules are composed with an abstract specification that they implement:
`SyncFeed` with `FeedContract`, `Drawer` with `DrawerContract`, `Replay` with
`ReplayContract`.  The parts themselves meet in shared rows.  A bill's status is
in `Tickets` and again, as far as a table depends on it, in `Floor`; a sale is
made by `Tickets`, counted by `Drawer`, taken from `Stock` and rewarded in
`Loyalty`; every one of those operations may be carried by `Replay`, which is
why each model lets a request be sent again.

### SyncFeed

`feed` is `sync_changes` for one branch (sequence value and op of each entity;
`NoRow` when there is none), `source` the entities themselves (their version is
the sequence value of their last write, and whether they are in their live
set), `purged` the watermark, `aged` the tombstones past thirty days.
`pending[s]` holds the rows transaction `s` has stamped but not committed, which
is also what decides who holds the branch's advisory key.  A pull goes through
the statements of `incremental` or `full` in order, one action each:
`PullCheck`, `PullHorizon`, `PullRows`, `PullProject`, or `FullHorizon`,
`FullSnapshot`.  The device then applies the answer (`ApplyPage`, `ApplyFull`,
`ApplyResync`) or never sees it (`Lose`).

The clock appears twice: `AgeOut` (an entity of a type with a time-based live
predicate leaves its live set with no write) and `AgeTombstone`.  The sweeper is
a session like the others while it emits (`SweepScan` takes the statement's
snapshot, `SweepEmit` calls `sync_emit` row by row); its purge and its watermark
are two actions because they are two autocommit statements.

The device is code outside this repository (the POS core).  It is modelled from
the wire contract: a page's changes replace or remove their entities, a full
answer replaces everything, the cursor becomes `next`, a resync asks for a full
answer.

Abstractions: one branch (key, rows and watermark are per branch; sequence
values are global, and the model's transactions leave gaps); an entity's row is
its version; a type is not distinguished beyond "time-based"; the horizon's
retry loop is one action that either gets the key or, while someone holds it,
gives up.  A transaction that writes several branches takes several keys and
can only make each of them wait longer.

A checksum is the set it is computed from (`Digest`).  An incremental pull counts
it over the rows of a later snapshot, up to the horizon of before
(`PullProject`), so it need not be what the device then holds.
`MismatchIsExplained` says what a mismatch may mean after the last page: the
device holds something the server did not count only when its row has moved
beyond the cursor, so that a change is on its way, or when the entity is not in
its live set or its row was purged; and the server never counts what the device
neither holds nor was brought.

### FeedContract

Changes are published above every cursor; a delivery brings the device up to
every change at or below its new cursor; it sees committed versions only; only
tombstones are forgotten; entities may expire.  `SyncFeed` implements it
(`MeetsContract`) with the same names and no refinement mapping beyond hiding.

### FastPath

A fact is what one cached answer is made of: a branch's feed, an organisation's
catalog, or the grants (accounts, epochs and sessions, dropped together).
`moved[i]` are the counters of `State`, `entry[i]` the maps, `session[i]` zero
while the instance is not listening.  A reader captures, reads, and puts; a
writer commits (which sends a notification to every instance with a working
`LISTEN`), and then either answers, moving the fence first, or has no answer to
send.  The purge of a feed's old tombstones is the one change that is not
announced with its commit: the sweeper's connection is in no transaction, so the
`DELETE` (`Purge`), the watermark (`RaiseWatermark`), the `pg_notify`
(`AnnouncePurge`) and the drop on the sweeping instance (`DropHere`) are four
steps, and the sweep may die after each (`Leave`).  The first two already change
an idle answer: a cursor ahead of the head, or below the watermark, must
resync.  A purge is of one branch; one that finds several is several writers,
and the lock that keeps two sweeps apart is left out, which only adds
behaviours.  `announced` is what has been sent of each fact to those who listen;
`StaleOnlyInFlight` is about that, because nothing can be promised of a change
that no instance is told of, except that the age limit ends it
(`FreshInTheEnd`).  `Break` is the connection breaking, unnoticed at first, with
any suffix of the undelivered notifications lost; `SessionLost` is `try_recv`
reporting it.

A request whose organisation is not known when it ends (a failed one, a super
admin's, a public one) moves `noorg`; `NoOrg` stands for it.  A hit changes
nothing and is not an action: `Valid` says what a hit would return.

### Drawer

A worker is a request in progress.  Its steps are the handler's: the first
reads, outside any transaction (`AskSale`, `AskMove`, ...); the till's advisory
lock and the second read under it (`LockSale`, `LockMove`, `LockRefund`,
`LockClose`); the writes and the commit (`CommitSale`, ...).  `req[w]` is what
the request carries from one to the next: what it works on, the till it locks,
whether it is live or replayed, and what it read (`saw`).  `HoldsTill` is
`pg_advisory_xact_lock`, `HoldsSale` the row lock of `SELECT ... FOR UPDATE`;
both end with the transaction (`Answer`).  `Rollback` is a request that dies, or
that validation refuses.

A refund's check of what is left is two steps: the sum is a subquery of the
statement that locks the sale's row, so under READ COMMITTED it keeps the
snapshot the statement began with (`ReadReturned`), while the row is granted
later (`LockSaleRow`).  The insert trigger, a part of `CommitRefund`, adds up
again in a statement of its own.  A close asks whether another till is open
(`AskLast`) after its own status is written and before it commits; the others
see the status only once it has committed.  A void is one `UPDATE` that is
guarded by the sale's status and by a trigger, and takes no till lock.  A
delete is a check and an update that nothing joins.

Amounts in a drawer are the set of rows they add up (`Rows`): a sum is right
exactly when its rows are.  `figure` is `closing_cash_system`; `lined`,
`signed` and `current` are the reconciliation lines, their `system_total` and
`current_system_total`.  What a sale gave back is a number, because it is
compared with one.  A close adds up and commits in one action: nothing that
holds the till's lock comes between, and a void that does is the same as one
just after the close, except that figure and lines may then differ by it.

Sales, movements and refunds are named by their idempotency keys, so asking
for the same name again is a retry, also of a request still in progress.
Everything not about the till is abstracted: prices, items, loyalty, the
kitchen's stations, whose till it is, the advance a pay-out logs.  A close that
is replayed differs from a live one in its validation only.

### DrawerContract

The same tills, sales, movements and refunds, with no worker in sight: each
request is one step (`Sell`, `Move`, `Void`, `Return`, `Close`, `Delete`), and what
it asks of its till and its sale is a guard of that step.  `books` is `current`
of `Drawer` (`current_system_total` of the reconciliation lines), the other
variables keep their names, and the requests, the screens, the stock and the
lines are hidden.  `Drawer` implements it (`ActsAtomically`): the commit is the
step, everything before it a stutter.  The contract is also where the code is
weaker than one might expect: a void has no guard on the till, a delete none on
the till's sales, a sale none on the till at all.

### Tickets

A worker is a request.  Its first step is what it reads outside a transaction
(`AskRound`, `AskSettle`, ...: the bill's status, a settle its lines as well),
its second the commit of its transaction (`CommitRound`, `CommitSettle`, ...).
A transaction is one action where the others cannot tell its statements apart:
each takes the bill's row, or a changed kitchen line's feed row, before it
writes, and keeps it.  Three are not: naming the customer locks the bill and then
decides (`LockBill`, `WriteCustomer`); a bump that finds its line already bumped
reads which lines are done and writes the ticket in the next statement with
nothing held (`ReadDone`, `WriteDone`); the last till's retirement chooses its
tickets through a join that Postgres does not evaluate again after waiting for
the row (`ReadUnbumped`, `RetireUnbumped`).

`counted` is the running subtotal as the number of times it has each line, so
that a line counted twice and another forgotten cannot cancel out.  `plates`,
`bumped` and `scrapped` are the kitchen lines; `kitchen` has the ticket's status
and its close, which the code keeps in two columns and writes from six places.
Prices, stations, names and notes are left out; routing modes are not, because
they decide what has a kitchen ticket at all.  A round's retry is a second
request of the same name.  Requests that can no longer change anything (a line
already voided, the customer of a voided bill) are not asked again.

### Floor

The ledger has one row for each stay at a table, started and ended at `now()`,
the time its transaction began, and `v_table_status` reads the row that started
last.  A transaction that began earlier may reach a table later: its row then
lies behind the other's, and the check that a row ends after it starts refuses
its end.  The model keeps of time what that needs: who began before whom
(`older`), the tables with a row started after a request began (`late`), and
those where that row still runs (`fresh`).  `live` is the occupant, `behind` the
tables whose live row is not the one the status is read from, `unbussed` what
the status calls dirty and `plates` what really has plates on it.

Every ledger write locks the table's row, by the code or by the trigger that
projects the status, so a transaction is one action, its commit; what a request
read before it (`AskMove` the bill's status, `AskWish` the bill's other requests)
is another.  A step that opens no row needs no beginning of its own (`Release`,
`Clear`, `EndBill`, `CancelWish`).  Left out: the layout, who did it from which
till, bookings, and the guests' names.

### Replay

A till sends the head of its queue as a batch and waits; the request goes
operation by operation: judged against the permissions of that moment
(`Judge`), looked up by its key (`Look`), applied in a transaction that the key's
unique index guards (`Commit`), its flags recorded in a statement after the
commit (`RecordFlags`).  The first operation that is not a success ends the
batch, and the till reads the answer (`Deliver`): done, refused and shown on its
list, or to be sent again.  What goes wrong is a time out of the till, which may
leave the request running or close it (`TimeOut`, `Dropped`), the death of the
server (`Crash`), a deadlock or serialization failure retried inside the request
(`Transient`), an error while recording flags, and a permission that is taken
away in between (`Regrant`).  `Status` is the answer's HTTP status: a till of
before 0.15.0 takes every 409 for done.  The server answers such a till 422 for
the eight codes of a list (`REFUSALS`, `src/sync/old_till.rs:50`); `Unlisted` are
the operations whose conflicts are not on it (`TABLE_OCCUPIED`, `TABLE_HELD`,
`TABLE_DIRTY`, `TICKET_NOT_LIVE`, `TRANSFER_*`, and a conflict without a code).
Those stay 409, and the old till drops them (`Unread`): refused, and shown to
nobody (`Unseen`).  The properties say that nothing else is lost.
The till is code outside this repository and is modelled from
`src/sync/codes.rs`, `old_till.rs`, `batch.rs` and the comments there.

What an operation does is abstracted to its key and to what must, or must not,
have been applied before it (`Needs`, `Bars`); the handlers themselves are in the
other modules.

### ReplayContract

Operations that land and queues that shrink: `Land(o)`, when `o` has not landed,
has what it needs, and everything its till queued before it has landed, was
refused, or was let go of unread; `LetGo(d)`, a till dropping landed operations from the head of its queue,
and at most one more, which it shows as refused, or, if the till is an old one
and the refusal one of those that reach it as a 409, does not show (the contract
states what the code promises to whom).  `landed` is `applied`, `queued` is
`outbox`, `refused` is `stuck`; requests, batches, attempts, permissions and
faults are hidden.  `Replay` implements it (`DeliversAsPromised`).

### Stock

A bin is one ingredient's balance at a branch.  A user's request reads the
document's status before its transaction (`Ask`, kept in `was`); a transfer locks
the document and compares (`AsItWas`), a receipt of an order looks at the status
again, and submitting or cancelling an order, entering counts and cancelling a
stocktake do not.  `moved` is `inventory_movements`, by document and bin;
the ledger's trigger keeps `onHand`.  Goods that land are averaged into the cost
in two statements, a read without a lock and a write (`ReadCost`, `Land`):
`average` is the set of deliveries a bin's cost has seen.  A stocktake locks the
balances one by one as it reads them (`ReadBook`) and posts the differences
(`PostCount`).  A dispatch, a waste of the branch's own page (`POST
/inventory/branches/{id}/waste`) and a return to the supplier lock a balance and
look at it in one statement and take the goods in a later one (`LookToDispatch`,
`LookToTake`, `TakeOff`): these are `Checked`.  Sales, their voids and a waste of
`POST /inventory/waste`, from a till or the dashboard, look at no balance and are
one action each; they may leave it below zero.

### Loyalty

One member's card.  Every writer of the balance holds the member's row until it
commits, so a transaction is one action; what a request read before is a step of
its own: `Plan` (does the balance pay for the reward), `Press` (may the sale be
awarded), `Ask` at the counter (has the key been used, does a correction fit).
`rows` is `loyalty_transactions` in the order written.  `created_at` is the time
a transaction began, so whether an earn was spent before it is taken back can go
either way for transactions that overlapped: a row's `since` bounds when it
began, and `Spared` is the resulting choice.  `Reverse` is `loyalty_reverse`,
`GivenBack` the proportion of a reward's points that a refund returns.  A refund
moves points twice, in the order the code does: the insert trigger takes back the
earn in proportion to the money (`FollowMoney`), then `restore_on_refund` tops up
what the reward gives back (`RestoreOnRefund`).  Only the
main track of points is modelled.

## Runs

| Run | Instance | Shows |
|---|---|---|
| `sync_feed` | 2 entities, one of them with a live set that depends on the clock, 2 sessions, 1 device, page of 1, 4 sequence values | `TypeOK`, `NoSkippedChange`, `NeverOlder`, `MismatchIsExplained`, `MeetsContract` (the refinement), `Converges` (liveness) |
| `fast_path` | 1 instance, a feed that is purged and an organisation's grants, of 2 organisations, 1 reader, 2 writers, 2 commits, 2 sessions | `TypeOK`, `StaleOnlyInFlight`, `OwnWritesServed`, `NudgedReadIsFresh`, `FreshInTheEnd` (liveness) |
| `drawer` | 2 tills, 2 requests, a sale, a pay-out with 2 corrections, 2 refunds of the sale from both tills, one of them queued | `TypeOK`, `NothingLeftOut`, `VoidedOnce`, `RefundsWithinSale`, `ActsAtomically` (the refinement of `DrawerContract`), `FirstCloseStands`, `EveryRequestAnswered` (liveness: no two locks wait for each other) |
| `tickets` | a bill, 2 rounds of a line each, one without a station, 2 requests, a customer, all routing modes | `TypeOK`, `SubtotalIsLive`, `ReadyIsClosed`, `CustomerReachesSale`, `FirstCloseWins` |
| `floor` | 2 tables, 2 bills, a party, a transfer request, 2 requests | `TypeOK`, `BillAtItsTable`, `OnlyTransferUnseats`, `WishResolvesOnce` |
| `replay` | a till with 2 operations and an old one with 3, one held by both and one with a conflict the list leaves out, 2 calls, batches of 2, 2 attempts, 2 faults | `TypeOK`, `AppliedOnce`, `NothingLost`, `DeliversAsPromised` (the refinement of `ReplayContract`), `Drains` (liveness) |
| `stock` | 2 users, 2 bins, a transfer, a stocktake, an order of 2 units, a sale and a branch's waste, quantities up to 2 | `TypeOK`, `TransferBalances`, `ReceivedWithinOrder`, `CountStands`, `OnlyUncheckedOverdraw` |
| `loyalty` | a sale that earns 2 points, one with a reward on one unit of two, a press, 2 visits under one key, a correction, a ceiling of 2 | `TypeOK` (with it: the balance is the ledger's and never below zero), `RewardComesBack`, `SaleSurvivesReward` |

Why these bounds are enough for the cases that matter.  `SyncFeed`: two sessions
give every order of drawing and committing; two entities with a page of one give
a page that is not the last; four values allow a write, a second write of the
same entity during a pull, a tombstone, its purge and a revival.  One device is
enough because devices do not influence one another (a pull only reads).
`FastPath`: a writer overlaps a read, once before and once after the listener is
lost; a purge takes both commits, and the second writer purges or commits beside
the first; instances share only the database.  `MaxSeq`, `MaxCommits` and
`MaxSessions` stop writers, never readers.  `Drawer`, `Tickets`, `Floor`,
`Stock`: nothing is capped but the keys and documents (and `MaxQty`, the quantity
on one line, and `MaxCount`, what is counted on a shelf: one below, at or above
what is there); two requests at once give every pair of operations in every order,
and three matter only where two of them already disagree.  Tills share only the
sales refunded across them and the kitchen, so two are enough; two tables make a
swap, and a move that lands on somebody; in `Tickets` a second line of a round
changes nothing of what the two columns are computed from at once (a set of
lines that are, or are not, all bumped), and the proofs hold for any number.
`Replay`: `MaxFaults` bounds faults; two are a lost answer and a second fault
while its retry is under way.  `Loyalty`: a ceiling equal to the card's size makes
awards trimmed, in part and in full.  Runs that allow deadlock say so in their
configuration: the keys are used up, and the branch may be quiet.

The other runs end in a counterexample: each shows a disagreement between the
code and what a comment in the code says of it.

| Run | Property | What the counterexample shows |
|---|---|---|
| `sync_feed_ghost` | `NoGhost` | the sweep fails after deleting tombstones and before raising the watermark: a device keeps a removed entity and is never told to resync |
| `tickets_paid_short` | `PaidInFull` | a settle reads the lines before its transaction: a round fired meanwhile is on the settled bill and in no sale |
| `stock_average` | `AverageCoversAll` | two deliveries at once: the second writes an average that never saw the first |
| `loyalty_voided` | `VoidedEarnsNothing` | a press reads the sale before its transaction: voided meanwhile, the sale still earns, and nothing takes the points back |

### What else the models show

These disagreements are behaviours of the models as well, seen with TLC or read
off while modelling, and kept as notes:

- Feed.  The checksums of an incremental pull are counted in a later snapshot
  than its rows (`src/sync/pull/mod.rs:788`), and so may not match although
  nothing is wrong (`MismatchIsExplained` says when); a snapshot asked for while a
  transaction holds the key for more than 200 ms is empty, not "every live state
  row" (`src/sync/pull/mod.rs:10`); both mend with the next pull.  When the newest
  row of a quiet branch is a purged tombstone the head is below the watermark,
  and each snapshot is followed by a resync until something is written
  (`src/sync/pull/sweeper.rs:204`).  The sweep may emit a delete for an entity
  revived after its statement began (`sweeper.rs:197`).
- Fast path.  "Every instance drops the branch's cached idle answer, at commit"
  (`src/sync/pull/sweeper.rs:164`): the watermark commits before the
  notification is sent, and the tombstones are gone before either.  In between
  an instance serves "nothing new" for a cursor that must resync; if the sweep
  dies there it does so until the entry's age limit.  "A pull the nudge causes
  never meets the old answer" (`src/fastpath/listener.rs:95`) holds on the
  instance that nudged; another one may not have handled its notification yet.
- Tills.  The last two tills close at once, each sees the other open, and the
  kitchen's tickets stay (`src/tills/handlers.rs:1783`).  The check for sales and
  the delete are separate, and a replayed sale is accepted on a deleted till
  (`src/tills/handlers.rs:1928`).  A teller's void reads the till outside its
  transaction and may commit after the close (`src/orders/handlers.rs:4525`), and
  the next late sale takes the voided one out of the "frozen" figure.
- Refunds.  A refund replayed after its till closed is in no closing figure.  The
  retry of a refund of all that is left, under way at once with its first
  attempt, is told that it did not apply (`src/refunds/handlers.rs:433`; the same
  shape at `src/tills/handlers.rs:1464` for a correction).  "The second sees the
  first's row" (`src/refunds/handlers.rs:421`): only the insert trigger's own sum
  does.
- Bills.  The retirement overwrites a close that came while it waited, although
  "the FIRST close wins" (`src/kitchen/mod.rs:403`).  Voiding the last line
  nobody bumped leaves its kitchen ticket firing.  A kitchen line of a voided bill
  line can be recalled, and a recall puts a settled bill's ticket back to firing
  while it stays closed.
- Floor.  A move reads the bill's status before its transaction and may land a
  bill settled meanwhile ("Cannot move a settled or voided ticket",
  `src/tickets/handlers.rs:1296`).  A table's status follows `started_at`, so
  plates can hide behind a row that began earlier.  A transfer is fulfilled onto
  a held table: the request's table has to "be free"
  (`src/floor_ops/handlers.rs:815`), but only an occupant is looked for, and the
  bill lands where a party without a bill is expected.  A move refuses that,
  because it "would end their hold and lose them"
  (`src/tickets/handlers.rs:1317`).  `OnlyTransferUnseats` says that a transfer
  is the only way a party loses its table to another bill.  A transfer request
  asked for while its bill is settled keeps waiting.
- Replay.  "Refusal codes a queued op can meet" (`src/sync/old_till.rs:48`)
  lists eight.  The floor's conflicts (`src/floor_ops/mod.rs:178`) and conflicts
  without a code are not among them, and a test keeps some of them out
  (`old_till.rs:167`); an old till takes their 409 for done, deletes the
  operation and goes on with those behind it, and nobody is shown the refusal.
  The retry of an applied operation is judged again, and gets a 403 once the
  permission is gone (`src/sync/batch.rs:19`).  A flag whose statement fails is
  only logged and stays lost; one lost with a crash comes back with the retry.
- Stock.  A stocktake is cancelled while it is finalized, and an order while it
  is received, and the status written last stands.  Counts can be entered after
  the finalize read them.  A stocktake locks balances in the order of names and
  others in the order of identifiers; Postgres breaks the deadlock, which is
  `Fail` here.
- Loyalty.  On tracks two to four a balance that fell short, and a reward inside
  a combo, refuse the sale even when it is replayed
  (`src/loyalty/redeem.rs:113`); `SaleSurvivesReward` is about the main track.
  Points may be awarded in full after part of the sale was refunded.  The retry
  of a counter redemption that raced its first attempt is answered that the card
  is not full.

## Fairness

`SyncFeed`: a transaction ends (tenant sessions have `statement_timeout` and
`idle_in_transaction_session_timeout`, `src/db.rs`; the sweeper's are single
statements); the statement after the purge runs or the sweep fails; the server
carries a pull on; and the network does not lose every answer for ever (strong
fairness of applying an answer: an answer can be lost, so applying it is not
continuously enabled).  No fairness is assumed of writes, of the clock or of the
purge.  In `SyncFeed` sequence values run out, so "the writers pause" is part of
the bound: that is what `Converges` promises about.

`Drawer`: a request keeps going.  Advisory locks and row locks are granted first
come, first served, so a request whose lock keeps becoming free gets it: strong
fairness of a request's own steps.  Nothing makes requests arrive.

`FastPath`: the listener task handles what it received, a read ends, and an
entry's age limit passes.  Nothing forces a broken connection to be noticed or
a listener to reconnect; `FreshInTheEnd` holds without it.

`Replay`: a till sends as long as its queue is not empty and it waits for no
answer (weak fairness of `Send`), and a request that runs goes on (of `Serve`).
Faults and changes of the permission are never forced; faults are bounded, which
is what "in the end" means there.

`Tickets`, `Floor`, `Stock` and `Loyalty` state safety only: their requests are
short transactions that end or roll back, and nothing is owed afterwards.

## Proofs

The eight proof modules are checked by TLAPS from nothing, for every value of
the constants satisfying the named assumptions (finite entities, positive page
size; organisations of facts; bounds are naturals; every sale, movement and
refund names a till, and amounts are naturals; rounds have bills and lines have
rounds; bills are not parties, nor is any of them the value for nobody; an
operation is queued once at a till; a transfer has two sides, kinds of documents
are apart; a reward stands on at least one unit of its line and on no more than
the line has, totals, stamps and the card are positive, a correction is not
zero, counter keys are not sales).  Nothing
is assumed of the number of sessions, devices, instances, readers, writers,
tills, bills, tables, operations, documents or requests.

`SyncFeedProofs`.

- `TypeCorrect`: type correctness.
- `HorizonIsSafe`, `NothingSkipped`: the heart of the matter.  That a cursor
  never passes a change in flight is not inductive: the cursor was handed out
  by an earlier pull, from a horizon computed earlier still.  The invariant
  says of each stage what it has established: sequence values in flight are
  distinct from and above everything committed when the key was free, a horizon
  is below everything in flight from the moment it is read, a page together with
  the rows still to come covers everything between the cursor and the horizon,
  and rows only move up.  A row that leaves the range between two statements
  has moved above the horizon or has been purged.
- `VersionsMoveForward`: an answer is at least as new as what the device holds,
  because each device has one pull at a time and projections read committed
  rows.
- `Implements`: every step of `SyncFeed` is a step of `FeedContract` or a
  stutter, using the invariants above for `Publish` and `Deliver`.
- `MismatchesExplained`: the checksums of a last answer, against what the device
  then holds.  The invariant behind it is `Counting`: rows are numbered; only the
  clock takes an entity out of its live set without moving its row
  (`CountableIsHeld`); what a device holds of a row at or below its cursor bears
  that row's number; the last page hands out the horizon as the cursor; and a last
  answer on its way counts each row that counts up to its cursor, and nothing that
  it does not bring and the device does not hold.  The counting snapshot is later
  than the rows, so what lies between them has to be shown harmless: a row that
  moved in between is above the horizon, and none moves below it.

`FastPathProofs`.  Within a session counters only grow, and no session number
comes twice; so a capture or a seal that matches now has matched ever since it
was taken, and nothing relevant was fenced or handled in between.  `IInv` says
this (`CapturesBehind`, `SealsBehind`) and that what still matches is `Fresh`
(`FreshReads`, `FreshEntries`): as new as anything this instance answered or
announced, and as new as what was sent of its fact to those who listen unless a
notification of it is under way.  The safety
properties of the run follow: `StaleIsAnnounced`, `WritesAreRead`,
`NudgesAreRead`.

`DrawerProofs`.  What makes a closed drawer complete is that a request's second
read of the till is still true when it commits.  `IInv` says so: a request
holds at most what it asked for (`Asked`), one request at a time holds a till
(`Exclusive`), and what was read under the lock still holds (`UnderLock`: a
live sale's, movement's or refund's till is open, a close's till is open, a
late sale's is closed, a movement about to be recorded may still be corrected).
A close breaks that for no other request, because that one would hold the same
lock; two corrections of one movement are on one till, so one of them waits.
With it each commit preserves the rest: `ClosedDrawerComplete`,
`RefundsBounded`, `MovesCorrectedOnce`, `SalesVoidedOnce`, and, as an action
property, `TheFirstCloseStands`.  That two corrections never undo one movement
(`CorrectedOnce`) is proved and needs no run of its own: it is a guard of the
contract's `Move`.

`RequestsAreAtomic` is the refinement of `DrawerContract`, one lemma for each
commit.  It needs, besides `IInv`, what a request read outside its transaction
and nothing since can have undone (`Lasting`): a refund's sale is on record, and a
delete's till is closed, because sales are never removed and tills never open
again.  Everything else a commit relies on was read under a lock, or is asked
again by the statement or the trigger that writes.

`TicketsProofs`.  `IInv` says what a request's reads are still worth when it
commits: the round, line or bill it names exists, a round not on record is
counted nowhere, a customer's request that holds the bill read its status
rightly, what a retirement read was a ticket.  With it each commit keeps the
subtotal exact (`SubtotalExact`), the two columns together (`ColumnsAgree`: every
writer of one writes the other), and the customer on the sale (`CustomerOnSale`:
naming and settling lock the same row).  `TheFirstCloseWins` and `BillsEndOnce`
are action properties from the same invariant.

`FloorProofs`.  `IInv` adds to the types that a request's bill and tables still
exist when it commits (a bill that was opened stays opened), that a bill not yet
opened sits nowhere and that a waiting request names a bill.  The lemmas say what
a transaction leaves of the ledger: which tables change, and to whom
(`WriteFacts`, `LandFacts`, `RelocateFacts`, `SwapFacts`).  From those follow
`BillsSitWhereTheySay`, and the action properties `OnlyTransfersUnseat`
and `WishesResolveOnce`.

`ReplayProofs`.  `IInv` says what a request carries: a stretch of its till's
queue (`Window`), with everything before the operation it is at settled, that
is, on the server, shown as refused, or let go of unread by an old till; and
that what it is about to answer is so.  A till that waits has, at the front of
its queue, what the request carries (`Awaited`), and what has left its queue is
settled (`Rest`).  A request given up on keeps its stretch, which is why
applying it late breaks neither the order nor the count.  From this follow
`OperationAppliedOnce`, `NoOperationLost` and `OperationsInOrder`.
`ReplayImplements` is the refinement of `ReplayContract`; it adds that what a
request has gone past is on record (`Acknowledged`), which is why a till may
forget what it is told is done.  The run checks the refinement, of which the
order in `InOrder` is a consequence.

`StockProofs`.  `IInv` says that a request's act fits the status it has read
(`TransferAct`), that a transfer whose goods are landing is still dispatched,
that one transaction at a time holds a document (`Exclusive`) and that a balance
a stocktake has read is still that on the shelf, because its row is locked
(`Booked`).  `TransfersBalance`, `OrdersNotOverReceived`, and the action
properties `CountsStand` and `CheckedNeverOverdraw` follow; the latter because a
balance that was looked at is locked until the goods have left.

`LoyaltyProofs`.  A request posts one or several rows in one commit, so the lemmas
are about a card, not about the state: a row posted (`PostSound`), a row undone in
part (`ReverseFacts`) and a set of rows undone (`ReverseAllFacts`) keep a card
`Sound`, that is, the balance is what the ledger adds up to, it is not below zero
unless the shop lets members owe, and no row is undone by more than its size.
What the rows add up to is a recursive function; that one more row adds its
points (`AddUpAppend`) is proved by induction in the form the provers accept, a
set of numbers that holds 0 and with each number the next (`Induction`).
`Rewarded` says of one sale what its void and its refunds rely on: it has at most
one reward row, of the reward's cost, and none before it is placed; and all of it
is undone once the sale is voided or all the line's units are back.  Partial
refunds add up to that because each tops the row up to what is due, rounded down,
and at the full quantity the rounding is exact (`GivenBackFacts`).  The results
are `LoyaltyTypes` (with the balance), `RewardsComeBack`, and the action property
`ReplayedSalesLand`.

Every invariant, action property and refinement that a passing run checks is
stated by a theorem.  Only model-checked are the liveness properties (`Converges`,
`FreshInTheEnd`, `EveryRequestAnswered`, `Drains`): fairness and `ENABLED` are out
of the prover's reach.

## Not modelled, and the plan

Within the modelled parts: paged snapshots (`full_paged`), ledger windows,
retention and the refresh before the purge (sweep pass 3), the sweep's
`sync_sweep_state` bookkeeping (it only delays pass 4), idle ETags, the clock
deadline of an idle answer, the debounce of nudges, the sequence header of a
write's answer.  The arithmetic of a checksum is not modelled: what is compared
is the set it is computed from.  Of the tills: opening one (several tills of one
person, the carried-over float), the device guard, and the width of a figure (a
late sale casts the new figure to 32 bits unchecked, `src/orders/handlers.rs:3309`).
Because no till opens in `Drawer`, nothing is claimed of a till opened while the
last one closes.  Of the bills: splitting, discounts and prices, guests' own
orders.  Of the floor: bookings and their sweep.  Of replay: approvals, and what
each operation's handler does beyond its key.  Of stock: recipes, which decide
how much a sale takes.  Of loyalty: tracks two to four, gifts, forgetting and
merging members, wallet passes, and the clock of the award's window.

Not modelled at all: delivery (a status machine over one row), staff, shifts,
attendance and payroll (computations over calendars and pay rules, the largest
part of the code), menus, deals and tax (records and pricing), reports, analytics
and insights (queries), assistants and integrations (calls to outside services),
assets and wallet passes (file formats), customers, organisations and
configuration (records).  They hold most of the lines and little of the state
that concurrent requests share, which is why the modelled lines are a small share
of the whole.

Next, in this order:

1. Contracts with atomic requests for `Stock`, `Floor` and `Tickets`, as for
   `Drawer`; the disagreements noted above say which guards they cannot have.
2. `Sessions`: opening tills against the closes of `Drawer`.
3. `SnapshotPages`: a snapshot over several requests with closing tills and the
   ledger purge.
4. `Bookings`: the sweep against arrivals, composed with `Floor`.
