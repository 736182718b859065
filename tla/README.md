# ModulaBackend in TLA+

ModulaBackend is the server of a multi-tenant point-of-sale system: Express handlers over
PostgreSQL, with background timers in every server process.  This directory is a formal
model of it, with the checks TLC makes of small instances and the theorems TLAPS proves for
instances of every size.

Paths below start at the repository's root; the v0 modules are under `src/modules/v0`, the
platform under `src/platform`.

| Modules | Model |
|---|---|
| `KhqrPayment`, `MCKhqrPayment`, `KhqrPayment_proofs` | payment intents, QR attempts, evidence, webhooks, scheduler, the sales they settle |
| `Idempotency`, `MCIdempotency`, `Idempotency_proofs` | the gate of every write endpoint, around the business transaction and its outbox row |
| `Outbox` | the command outbox, its dispatchers and the in-process event bus |
| `CashSession` | the drawer of a branch: sessions, movements, reconciliation snapshots, X and Z reports |
| `Inventory` | the stock of a branch: journal, on-hand projection, counts |
| `SaleEffects`, `MCSaleEffects`, `SaleEffects_proofs` | the three above composed: finalizing and voiding sales, and the subscribers that follow |
| `SaleOrder`, `MCSaleOrder`, `SaleOrder_proofs` | order tickets with claims of payment, sales, void requests, their reviews, each command between check and write |
| `MediaUpload` | images: upload, link, and the cleanup of each process; part of `SaleOrder`, whose claims link their proofs |
| `OperationLog` | what devices rely on when they replay: one log of operations (abstract) |
| `PushSync`, `MCPushSync`, `PushSync_proofs` | the replay of offline operations, one transaction each; implements `OperationLog` |
| `PullSync` | the feed of changes that devices pull; part of `PushSync`, whose operations append to it |
| `CommandLog` | what every command leaves in the idempotency records, the audit, the outbox and the feeds |
| `Organisation` | memberships of a tenant, staff profiles, branch assignments |
| `BranchActivation` | drafts, invoices and the branches they open |
| `Accounts` | the account behind a phone number: registration, login, codes, passwords, sessions |
| `Attendance`, `Shifts` | records of work; patterns and planned shifts |
| `Menu`, `Discount`, `StockCatalog` | what is sold, at which discount, out of which stock items |
| `Checkout` | the amounts of a bill in two currencies |
| `Notifications` | operational notifications: subscribers, inbox, feed, streams |
| `Tenancy`, `Tenancy_proofs` | `Organisation`, `BranchActivation`, `Accounts`, `Attendance`, `Shifts` side by side |
| `Trade`, `Trade_proofs` | `Discount`, `Menu`, `StockCatalog`, `Checkout`, `CommandLog`, `Notifications` side by side |
| `MCBackOffice` | `Tenancy` and `Trade` on one small instance each |
| `Aggregates` | what `MIN`, `MAX` and `SUM` of a column come to: lemmas the proofs share |

`PROJECT.json` has the same project as data: components, runs, the mutant that breaks each
property, the source lines of each definition, findings, hazards, theorems.

## 1. Inventory

### How the parts interact

A write endpoint authenticates, is authorised from a table of actions and roles, and runs
its command through the **idempotency gate**.  The gate runs the command in one
**transaction**, which writes the module's own tables, an audit row, a row of the
**command outbox** and the rows of the **pull-sync** feed, and commits them together.
In each process an **outbox dispatcher** locks unpublished rows, publishes them on the
in-process **event bus**, and waits for the subscribers: **cash sessions** book the cash of
a sale, **inventory** takes its stock, **notifications** are created.  Two more timers run
beside it: the **KHQR reconciliation** scheduler and the **media cleanup**.  The payment
provider calls a **webhook**, which passes no gate.  Offline clients send batches of
operations to **push sync**, which replays the same services one transaction each.

All transactions run at READ COMMITTED.  So what is concurrent is: handlers of different
clients between any two statements not covered by a row lock, the timers of all
processes, provider messages, and retries; and what can fail between two commits is
everything.

### Components

**KHQR payments** (`platformSystem/khqrPayment`).  State: payment intents (waiting, paid,
finalized, expired, cancelled, failed proof), attempts (one per generated QR, unique per
branch and md5; waiting, pending, paid, superseded, expired, cancelled), confirmation
evidence (unique per branch and provider event).  Operations: initiate a checkout intent,
register or generate an attempt for a sale, cancel an intent or an attempt, confirm by
md5, ingest a webhook, the reconciliation tick.  Hard: four parties on the same rows,
webhooks repeated, late or with a stale scope, payments after expiry or cancellation, a
candidate list read long before it is visited.  Correct when: at most one sale per
checkout; no sale without recorded proof of a payment, unless a manager has approved a claim
of it; cancelled stays unsold; finalized
stays so; expired attempts do not wait for ever.

**Idempotency gate** (`platform/idempotency`, `platform/db/transactionManager.ts`).  State:
a record per scope, action and key, PROCESSING or COMPLETED, with a payload hash and the
response.  Operations: tryStart, findExisting, complete, clearProcessing, each autocommitted
on its own.  Hard: a failure or a crash between any two of these and the business commit,
concurrent retries.  Correct when: executions of a key exclude each other, success is
answered only for a committed effect of the same payload, and keys are released.

**Command outbox and event bus** (`platform/outbox`, `platform/events`).  State: rows
unpublished or published, the locks of open ticks, subscribers in flight.  Operations:
insert with the command, load a batch under SKIP LOCKED, publish, mark, commit.  Hard:
delivery at least once, in an order that is not the commit order, subscribers that go on
after their tick has failed.  Correct when: no committed row is lost, no two ticks share a
row, every row is published in the end.

**Cash sessions** (`posOperation/cashSession`).  State: sessions (at most one open per
branch), movements (at most one per sale and kind), snapshots.  Operations: open, close,
force-close, paid-in, paid-out, adjustment, the subscriber that books a sale, X and Z
reports.  Hard: check and write are separate statements; the subscriber finds the session
by time, perhaps after it has closed.  Correct when: the cash of a sale is booked at most
once, a closed session never changes hands and has one Z report.

**Inventory** (`posOperation/inventory`).  State: stock categories, items and restock
batches; the append-only journal (unique per source and item), the on-hand projection.
Operations: catalogue maintenance, restock, adjust by a delta or to a count, the subscriber
that deducts and reverses sales.  Hard: redelivery, reads of the sale and of its recipe long
after the event, patches that write columns as they were read.  Correct when: the projection
is the sum of the journal, a published sale has its deduction, a reversal compensates its
deduction, what is archived stays so.

**Sales and orders** (`posOperation/saleOrder`).  State: order tickets with lines and
fulfilment batches, sales (pending, finalized, void pending, voided), void requests,
claims of manual external payment.  Operations: open tickets, add items, cancel, check
out, finalize, request and review a void, execute it, claim and review a manual payment.
Hard: checks before the write, finalize against void, two reviewers of one request, several
claims of one order, amounts rounded column by column in two currencies.  Correct when: a
sale is finalized once and announced, a void has an approved request, a claim pays for one
sale, a review is final, the columns of a bill agree.

**Push sync** (`platformSystem/pushSync`).  State: batches, operations (in progress with a
lease, applied, failed, duplicate).  Operations: replay a batch, one transaction per
operation, dependencies between operations, halt on failure.  Hard: errors caught inside
the transaction that records them, operations sent again, altered, or by two requests at
once.  Correct when: an operation is applied at most once and only after its dependencies,
and what the device is told is so.

**Pull sync** (`platformSystem/pullSync`).  State: changes numbered by a sequence, a
checkpoint per named device.  Hard: a number is drawn at the insert and visible at the
commit; a checkpoint moves before the answer arrives.  Correct when: a client that keeps
pulling gets every change.

**Operational notifications** (`platformSystem/operationalNotification`).  State:
notifications with a dedupe key, recipients and read marks, an in-process broker of event
streams.  Hard: subscribers of several autocommitted statements, delivered again.  Correct
when: an account is told at most once, and of what its inbox has.

**Media** (`platformSystem/media`, `platform/media-uploads`).  State: uploads PENDING,
LINKED, PENDING_DELETE, DELETED, and the objects in storage.  Hard: a command links an
upload while the cleanup deletes its object; a crash after the claim.  Correct when: an
image linked in time keeps its object, unlinked objects are deleted in the end.

**Authentication and sessions** (`auth`).  State: accounts, one-time codes, sessions,
refresh tokens, the context a token selects; the users of an external provider.  Hard: the
account is written in several statements beside the provider's user.  Correct when: a
verified account is complete, a change of password ends the sessions before it.

**Organisation accounts** (`orgAccount`).  State: tenants, branches, memberships, the draft
of a branch activation and its invoice.  Correct when: what follows from a membership agrees
with it, an owner remains, a paid draft opens one branch.

**Staff, shifts, attendance** (`hr`).  State: profiles, assignments, shift patterns and
instances, attendance records.  Hard: checking in reads the latest record and inserts in a
later statement; an update of a shift writes the whole row.  Correct when: check-ins and
check-outs of a member alternate, what was withdrawn stays so.

**Menu and discounts** (`posOperation/menu`, `posOperation/discount`).  State: categories,
modifier groups and options, items with prices, visibility, composition and option effects;
discount rules with schedules.  Hard: patches overlap; three readers compute from the menu
with code of their own.  Correct when: the guest is charged what the page showed and the
stock loses what the preview said; a discount in force is not edited.

**Audit** (`audit`) and the wrappers of all commands: an audit row, an outbox row and feed
rows per command, under a dedupe key.  Correct when: the feed tells of every row changed.

**Receipts, policy, subscription, reporting, access control, runtime, HTTP plumbing,
migrations.**  Formatting, settings, aggregating reads, a table of permissions, wiring.  What
the first three write goes through the wrappers above.  `PROJECT.json` gives each one's
status and reason.

### Hazards

`PROJECT.json` "hazards" lists, at its line, what this code is exposed to and a test would
hardly reach, with the properties that cover it.  Four have none: the code does three of them
(section 6 names the definition that states the contrary), and the fourth is about row locks.

## 2. Plan

Order: what takes money first, then what every command rests on, then what a sale sets off,
then the rest.

1. `KhqrPayment` with its proofs. *Done.*
2. `Idempotency` with its proofs. *Done.*
3. `Outbox`, `CashSession`, `Inventory`, composed by `SaleEffects`. *Done.*
4. `SaleOrder` with `MediaUpload`. *Done.*
5. `OperationLog`, implemented by `PushSync` with `PullSync`; `CommandLog` for what the commands
   append. *Done.*
6. The back office: `Organisation`, `BranchActivation`, `Accounts`, `Attendance`, `Shifts`,
   `Menu`, `Discount`, `StockCatalog`, `Checkout`, `Notifications`. *Done.*
7. Proofs about 3 to 6: each safety and action property that a run checks. *Done.*
8. *Left:* more abstract specifications, and the refinements as theorems:
   - a checkout that is open, then sold once or abandoned, implemented by `KhqrPayment` (the
     intent's status and sale are the mapping);
   - an effect applied once per source, implemented by `SaleEffects` with its redeliveries
     (the journal's deductions and the drawer's sale movements are the mapping);
   - a register that a command writes at most once per acknowledged key, implemented by
     `Idempotency`.
9. *Left:* `KhqrLocks`: the row locks of the KHQR handlers as steps, for the lock-order hazard.

## 3. The models

Three conventions hold in all of them.  A transaction that reads, decides and writes without a
lock on what it read is two actions, and what it read is kept in between in the record of its
worker; one that holds the lock is one action.  A handler that throws has no effect and is a
disabled action, unless something of it stays.  A variable called *history* is not in the program:
it remembers what a property needs of the past, and nothing reads it in a guard.

### KhqrPayment

Tables are functions: `attempts` by (branch, md5), `intents` and `sales` by id; `evidence` and
`outbox` are sets of rows.  A row that is not there has status ABSENT.  Beside the tables there are
`queue` (the candidates of the current tick), `eligible` (finalize commands past their check), and
the outside: `ledger`, what was paid, and `wire`, what the provider has sent.

Each handler is one action, because it is one transaction that takes the row locks of its attempt
and its intent before it decides.  Two things are not atomic in the code and are not here: the tick
reads its list (`StartTick`) outside the transactions that visit it (`VisitCandidate`), and the
finalize command of the sale module checks (`AssertFinalizeEligibility`) in one transaction and
writes (`FinalizeSale`) in another.

| Code | Action |
|---|---|
| `initiateCheckoutIntent` | `InitiateCheckoutIntent` |
| `registerAttempt`, `generateForSale`, `ensurePaymentIntentForSale` | `RegisterAttempt`, `GenerateForSale`, `EnsureIntent` |
| `cancelPaymentIntent`, `cancelAttempt` | `CancelPaymentIntent`, `CancelAttempt` |
| `confirmByMd5` with `finalizeSaleFromConfirmedAttempt` | `ConfirmByMd5`, `Settle` |
| `ingestWebhookEvent` with the same | `DeliverWebhook`, `IngestWebhookEvent`, `Settle` |
| `approveManualPaymentClaim` of the sale module, its KHQR half | `ApproveManualPaymentClaim` |
| `reconcileAttemptById`, the dispatcher | `StartTick`, `VisitCandidate`, `ReconcileAttempt` |
| the CASE expressions of the repository | `AttemptAfter`, `IntentAfter`, `Reopened` |

Amounts are reduced to whether the payment was right or wrong; `exact` is the comparison the
webhook handler makes.  An md5 may exist in two branches, because only (tenant, branch, md5) is
unique: that is what makes the fallback on the md5 interesting.

There is one KHQR sale that no payment provider vouches for: a manager who approves a claim of
payment creates it and finalizes it in one transaction, with no QR and no attempt.  Such a sale is
remembered as `claimed`, and `SaleBackedByProof` says of it that it has no QR and settles no intent,
and of every other KHQR sale that it rests on a recorded payment.  Claims and orders themselves are
`SaleOrder`'s.

### Idempotency

The gate's statements are separate actions: `TryStart`, `FindExisting`, `HandlerCommits` or
`HandlerFails`, `Complete`, `ClearProcessing`.  Each may also fail, or be applied with its answer lost,
and a process may crash between any two.  `outbox` maps a dedupe key to the request whose event
holds it; `ScopeOf` and `DedupeOf` are constants because they are computed from the request alone.

### Outbox, CashSession, Inventory, SaleEffects

`Outbox` has a sequence of rows by `created_at` (inserted anywhere, since the order of commits is
another one) and, per process, the open tick: the rows it has `held` (the oldest free ones), those it
has not reached (`batch`), the one whose subscribers it waits for (`current`), those it has `marked`,
and the subscribers `running`.
A subscriber reads first and applies in a later step; when another one throws, or its tick fails, it
goes on with nobody waiting (`awaited` is FALSE).  A process that dies loses its tick and its
subscribers.

`CashSession` splits opening, closing (`ReadTotals`, `CloseSession`) and manual movements
(`RequireOpenSession`, `AppendManual`) where the code reads and writes in separate statements without
a lock; the Z report and the snapshot of a closed session are upserts.  A total is the set of
movements it sums up.  `Inventory` has signed quantities, zero for no row; a count is `ReadOnHand` then
`AdjustToCount`.

`SaleEffects` composes them by INSTANCE and adds the sales.  A cash checkout finds an open session
(`RequireOpenCashSession`) and finalizes later.  `finalized` is any moment up to now: it is the start of
the transaction, or the time an offline client gives.  Three event types announce a finalized sale
and are one here.

### SaleOrder and MediaUpload

`SaleOrder` has the order tickets, claims, sales and void requests of a branch, and `busy`, the
command of each worker between its reads (`Begin...`) and its writes (`Commit...`), which may be
`Abort`ed.  A commit looks again only where the SQL does: `Resolvable` is the WHERE clause on a claim,
`Reviewable` the one on a void request, and unique indexes keep one pending claim per order, one
pending void request per sale and one sale per ticket.  `SwitchWorkforce` turns the entitlement that
makes voids need a review, under the
commands that have read it.  What a claim's proof is linked to is `LinkUpload` of `MediaUpload`, in the
same step.

`MediaUpload` has for each upload its row and its object, and per process the tick of the cleanup:
`ClaimStalePendingUploads`, then for each upload `TakeNext`, `DeleteObject`, `MarkDeleted` or
`MarkPending`, any of which may fail, and `CrashCleaner`.  `Linkable` is the code's: an upload that the
cleanup has claimed still links.  So `LinkedInTimeIsKept` speaks of uploads linked while PENDING, and
`OrphanIsCleaned` excepts what a dead tick has left claimed (`Stranded`), which no tick looks at again.

### PushSync and PullSync

A replay request runs through its operations: `StartOperation` (record it, find the one there is, or
fail on an altered payload), `ApplyOperation` (dependencies, then the command), `CompleteOperation` (the
outcome and the commit), and `FinishReplay`.  `FailReplay` is what ends a request anywhere.  A command that
fails on a database error has aborted the transaction that would record the failure; nothing is
recorded then and the request ends.  A row that is in progress is seen by nobody else, who waits for
its lock (`Locked`).  `OperationLog` says what this comes to: `Apply`, `Refuse` and `Acknowledge` on one log.
The mapping takes an operation's outcome from its row, and who knows of it from what the requests
were told; completing an operation is the step of the log, taking up a recorded one an
acknowledgement, and everything else a stutter (`ImplementsLog`).

`PullSync` has the feed by sequence number: open while its writer's transaction is, then committed or
gone.  A device pulls, receives, may lose the answer, and may start anew without a cursor.  Numbers
become visible out of order, so a device reads past those still open: `overtaken` remembers them, and
`NoChangeSkipped` is about everything else.  The writers are the replays of `PushSync`.

### CommandLog

Every module of the API wraps its commands in a function of its own; they differ in the gate they
pass, the feeds they write, whether the path is part of the dedupe key, whether refusals are
recorded and who is shown the change.  A wrapper is a record (`MenuWrite`, `CheckIn`, ...), and
`Execute`, `Record`, `Commit`, `Fail`, `Refuse` are the transaction that all of them run.  `muted`
remembers the rows a branch is not told of: those whose event met a dedupe key that was there, those
changed beside the row announced, and those of the time before the branch.

### The back office

| Module | State | Commands (read / write) | Exception, by history |
|---|---|---|---|
| `Organisation` | memberships, profiles, assignments, pending assignments | invite, accept, reject, change role, revoke, assign; provisioning | `outrun`: a membership changed between the check and the write of another command |
| `BranchActivation` | branches, drafts with invoices, the billing anchor | `Initiate`/`CreateDraft`, `Confirm`/`VerifyPayment`/`ActivateBranch`, the tenant row locked in each | none |
| `Accounts` | the provider's user (external), the row, codes, sessions | register, verify, login, reset, change password, refresh; statement by statement, any of them the last; verify and reset also by a fixed code (`StartFixed`) | `spared`: a session opened by a request that was under way when the password changed; `waived`: what a fixed code has marked |
| `Attendance` | records by their place in the order of insertion | `ReadLatest`/`CreateRecord` | `loose`: two commands of an account overlapped, or a client's clock went back |
| `Shifts` | patterns, instances | create, update, cancel, deactivate | `revived`: an update had read the shift before it was cancelled |
| `Discount` | rules, the clock, what is on the menu | create, update definition, update status | `slipped`: a rule came into force between an edit's read and its write |
| `Menu` | categories, groups, options, items with their links | patch (`Editor`), archive, visibility, composition, option effects | `mixed`: a patch met another command of its item |
| `StockCatalog` | categories, items, restock batches | create, patch, archive, restore | `late`: an archive overtook the command that wrote the row |
| `Checkout` | one bill and its drawer movement | `Checkout`, `FinalizeBill` | an amount that the client has named (`named`, `replaced`) |
| `Notifications` | tills, void requests, inbox, feed, streams | the three subscribers, statement by statement; read marks | none |

An exception is the race the code leaves open; the property says that there is no other way to get
there.  `Menu` has the three readers as operators, each from its own code: `Page` and `Evaluation` (the menu
page and its preview), `Accepted` and `UnitPrice` (the order), `Deduction` (the stock subscriber);
`ChargedAsShown` and `ConsumedAsShown` compare them.

`Checkout` is arithmetic: cents, hundredths of a riel, thousandths of a quantity, with
`SaleKhrRounding` on each column.  A body may name any of the amounts, and the code compares only the
tender, with the grand total, and the cash handed over, with the tender; the command that finalizes may
replace tender, cash, change and paid amount, and compares nothing.  What remains is left to the CHECKs
of the table (`Storable`).  So `BillHolds` is what is true whatever is named: riels are whole granules,
the tender is the grand total until it is replaced, cash covers the tender, the drawer gains it.
`BillAddsUp` relates the amounts that were left to be computed, and says nothing of the named ones: a
named grand total need not be the sum of its parts, nor a named change what is due.

`Accounts` with the provider has two ways to prove a phone.  The provider's confirms it, attaches the
row to the user and fills in the names.  The fixed code (`FixedOtp`, a switch of configuration that is
on in local and test environments) does none of these: verifying by it marks whatever row has the
phone, a reset by it needs a row that is attached.  `VerifiedIsComplete` says the whole of an account
that no fixed code has marked, and that it is attached still if only resets did.

`Tenancy` and `Trade` extend the components of their side.  In these models those share no table, so a step
of a side is a step of one of its components (`OrgTurn`, ..., `NoteTurn`) and leaves the others alone.
`MCBackOffice` puts the two sides into one run: a behaviour of one component says nothing of another, so
`focus` is chosen in the initial state and the others rest.  Each invariant (`MembershipsAgree`,
`BranchesArePaid`, `AccountsSafe`, `WorkforceSafe`; `CatalogSafe`, `MenuSafe`, `BillsSafe`, `FeedsSafe`,
`NoticesSafe`) is the conjunction of the type invariants and the safety properties of its components.

## 4. Runs

Every passing run's property is broken by a mutant: a definition of the model with the error of a
plausible bug (they are in the modules, each above the definition it replaces).

| Run | Instance | Shows |
|---|---|---|
| `khqr_checkout` | 2 branches, 1 md5 (so 2 attempts), 2 intents, 2 sales to draw, 1 event | one sale per checkout, on proof or on a manager's word, in its branch, never after cancellation |
| `khqr_legacy` | 1 branch, 2 md5, 1 intent, 1 pending sale, 1 event | supersession and reopening, the two-step finalize, one announcement, nothing undone |
| `khqr_scheduler` | 1 branch, 2 md5, one attempt that may expire | stale candidates never overturn; every expired attempt settles |
| `idempotency` | 3 requests of one key, one with another payload, 1 in another branch with the same key | exclusion, backed and consistent success, release |
| `sale_stock` | 1 sale, 2 dispatchers, 1 failure or crash, 2 recipes, 1 stock command, 1 session | journal and projection agree, no deduction lost, no row shared |
| `sale_delivery` | 1 sale of nothing or something, 2 dispatchers, 1 failure or crash | every row is published, but the poisoned one |
| `sale_cash` | 1 sale announced twice, 2 sessions, 2 closers, clock 0..1 | booked at most once, closed once, one Z report |
| `sale_orders` | 1 order, 2 claims, 2 void requests, 2 workers, 1 image, 2 cleanups, 2 failures | claims, sales and voids agree, reviews are final, images linked in time are kept, orphans deleted |
| `sync` | 2 requests of up to 2 operations, one depending on the other, 1 device, 2 changes, pages of 1 | implements the log, true answers, no change skipped, requests end |
| `back_office` | eleven components, 2 transactions each | the table above, and what the feed and the notices tell |
| `sync_bootstrap` | as `sync`, the device gives its name | *violation*: a bootstrap that starts in the middle |
| `sale_void` | 1 sale, 2 recipes | *violation*: a reversal that reverses nothing |

Why the bounds are enough for the cases that matter:

- Two branches are needed for a webhook whose claim is wrong, and two attempts for the fallback to be
  ambiguous; two attempts on one intent for supersession.  `khqr_checkout` has the first pair and
  `khqr_legacy` the second.  One event suffices for repetition, since a message stays on the wire and
  is delivered any number of times.  What holds for more is what the theorems are for.
- Two requests race; a third can take the key after one of them failed; the fourth shares the
  dedupe key from another branch.
- Two dispatchers share a backlog; one failure leaves a subscriber behind which then runs beside a
  redelivery.  Two sessions with a clock of two moments touch in one of them: a window's ends both
  belong to it.  A sale causes at most two or three rows, so a batch of two is both full and not.
- `sale_orders`: two claims of one order meet two reviewers; two void requests let one be rejected
  and the next approved; both claims name the one image, and the two cleanups race for it.
- `sync`: each request carries the operations in any order it may, altered or not; two numbers are
  enough for one to be committed before a smaller one; a page of one leaves the second for the next.
- `back_office`: a race is of two transactions, and none of these components has one that needs
  three.  `MaxSessions` 2 gives a session before and one after a change of password (`MaxPasswords` 1);
  `MaxCodes` and `MaxAttempts` 1 put the limit at the first code; `MaxPunches` 3 is in, out, in; the times
  of `Attendance` and `Discount` have a before and an after, and a discount starts, ends, or does
  neither; `MaxWrites` 3 (rules), `MaxEdits` 3 (menu) and `MaxOrders` 5 (stock) are a set-up and two commands that meet; `MaxFeed` 2 lets a change be written once too
  often; `PageLimit` 1 makes a schedule longer than its page.  `OneSubject`: a till and a void request are
  notified of by the same statements, so one of them is at work.  The carts of `Checkout` have one and two
  lines with fractional quantities, under each rounding mode, granule, tender and currency; a body names
  nothing, one amount, or two that hang together (a grand total and a tender that agree), at the checkout
  and when it is finalized.  `FixedOtp` is TRUE: with it off there are fewer behaviours.
- `SYMMETRY` permutes branches, intents and new sales in `khqr_checkout`, dispatchers and sessions in
  `sale_stock`, transactions and keys in `back_office`: values that no definition tells apart, in runs
  without a liveness property.
- The registered attempts and the sales made from claims are `MaxAttempts` together in `KhqrPayment`.
- `MaxAttempts`, `MaxFaults`, `MaxMediaFaults`, `MaxTime`, `MaxAnnounced`, `MaxVoidRequests`, `MaxOps`,
  `MaxSequence` and those named above are the only bounds in guards.  They do not end anything the
  liveness properties need: faults are what is bounded, not recoveries.

The system may really stop in each instance (no more ids, commands or faults), so deadlock is not
checked.

### Fairness

- `SchedulerFairness`: a visit to each listed candidate (weak), and its listing (strong).  The timer is a
  `setInterval`; a tick goes through its list; the list is ordered by the last check, so an attempt is
  not passed over for ever.  This is true while fewer than a batch of attempts fail for ever.
- `WF(Progress(r))` in `Idempotency`: node-pg resolves or rejects each query, so a handler that runs goes
  on.  `Crash` remains possible and nothing starts a request.
- `WF(Dispatch(d))` in `SaleEffects`: the dispatcher's timer fires, and subscribers return or throw.
  Every dispatcher of the model keeps going; a crashed process is replaced.
- `WF(CleanerTick(p))` in `SaleOrder`: the cleanup's timer fires in each process and its statements
  answer.  Nothing makes a client link an image or a worker commit.
- `WF(ReplayStep(r))` in `PushSync`: a request that was received goes on.  That it waits for the
  lock of another's operation is part of the step's guard, so `ReplayEnds` says that the waiting ends.

## 5. Proofs

Every invariant and action property that a passing run checks is a theorem of the specification, for
every value of the constants that satisfies the named assumptions.  The runs show on small instances
that the formulas hold and are not vacuous; the theorems say that the instances were not too small.
Two obligations have the same shape everywhere: an inductive invariant holds at the start and is kept
by each action, and it implies the property.  What follows is what each invariant adds, and why.

`Aggregates` comes first.  The models fold over finite sets and sequences (`Min`, `Max`, `FoldSet`,
`FoldLeft`, `MapThenSumSet`); none of these is a RECURSIVE operator, but each picks a function that is
defined by recursion on subsets, and that this function exists has to be proved.  `FoldExists` does it
by the least cardinality at which it would fail.  `SumIsUnique`, `SumMoves` (one entry changes),
`SumOfZeros`, `MinIsLeast` and `MaxIsGreatest` are what the other modules cite.

### `KhqrPayment_proofs`

From `NullAssumption` (the null values are not ids), `EventMd5Assumption` and `BoundAssumption`, for any
branches, md5s, intents, sales and events.

- `TypeCorrect`, `AttemptsAgree`, `AtMostOneSale`, `FinalizedOwnsSale`, and the action properties
  `CancelledNeverSells`, `FinalizedStays`, from `IInv == TypeOK /\ Linked /\ Owned`: attempts carry the
  branch and the sale of their intent; intents and sales agree on who owns whom, and an intent that
  does not exist has no sale.  None of these is inductive alone.  Settling reads the sale of the attempt
  and falls back on the intent's, so a second sale is drawn for a checkout unless the two always agree;
  and a FINALIZED intent gets no other sale only because its sale is the one it has.  The action
  properties rest on closed intents (CANCELLED, or FINALIZED with a sale), into which nothing new is written.
- `SalesAreBacked`, `PaidIntentsProven`, from `ProofInv`, which follows the confirmation from the message
  that brings it to the sale it settles: what is on the wire or in the evidence was paid, an attempt or an
  intent that is paid has a confirmation in the evidence, and so has a sale that is sold or has passed the
  check of its finalize command.  The last is needed because that command writes in a later transaction.
  `ClaimsStayApart` is the other half of the first: a sale made from a claim keeps its empty QR and no
  intent ever takes it, although nothing stops somebody from asking for a QR against it.
- `SalesAnnounced`, from `AnnounceInv`: a sale has a row in the outbox exactly when it has been sold, and
  at most one row of the KHQR lane.
- `VisitsOverturnNothing`, the scheduler's action property, which needs no invariant: a visit looks at
  the attempt again under its lock.

Each lemma takes one function of the repository (recording a verdict, finalizing an intent, linking the
attempts, settling, adding an attempt, cancelling); the handlers are compositions of those.

### `Idempotency_proofs`

From `RequestAssumption`, for any requests and scopes: `HandlersExclude`, `SuccessBacked`,
`AcknowledgedOnce`, `CompletedStays`, `EffectsAnnounced`.

The invariant adds to `TypeOK` who owns a record (a request of its scope), that a running handler
holds its record, and that success refers to a COMPLETED record that is still stored.  The last is
what makes acknowledged executions unique: the record is never replaced, so everyone was told of
its owner.  `EffectsAnnounced` needs an invariant of its own, `EventsBacked`: every committed command
finds its dedupe key taken by a committed command.

### `SaleEffects_proofs`

From `EffectsAssumption`: the bounds are numbers, a sale consumes some tracked stock, quantities are
positive, and there are finitely many sales and stock commands, so that the journal can be added up.

- `TypesKept`: `TypeOK` of the whole composition, which all the others use.
- `BacklogShared`: no two ticks hold one row; inductive as it stands.
- `CashIsBookedOnce` and the action property `ClosesAreFinal`.
- `DeductionsArrive`, from `DeliveryInv`: a row that is published, marked, or called and waited for no
  longer by the stock subscriber, has had its effect; what a tick has in hand and has not marked is either
  done or still runs.  That a tick marks a row only when its subscribers returned is not enough alone: one
  that was left behind by an earlier tick may run beside those of this one.
- `StockBalances`, from `Balanced`: the projection of each item is the sum of its column of the journal.
  Each movement changes one entry that was zero and the projection by the same amount (`SumMoves`).

### `SaleOrder_proofs`

From `SaleOrderAssumption`, for any orders, claims, workers, uploads and processes.

- `TypesStay`, `ClaimsStay`, from `SalesInv`: a ticket with a sale is checked out, an approved claim names
  the sale of its order, there is one, a claimed order's sale has it, and whoever is about to void has
  read a cash sale.  A KHQR sale is thereby out of reach of the voids that would undo the second.
- `VoidsStayApproved`, `ReviewsStay` (action properties), from `VoidsInv`: each command that will write a
  void request has a place of its own for it, not yet written, and whoever voids where several people work
  has read of an approved request.  Requests once decided are kept, so what was read is still so.
- `LinkedStays`: an image linked in time is kept.  Not inductive alone: it needs that no two ticks have
  one upload and that a row in somebody's tick is not PENDING.

### `PushSync_proofs`

From `PushAssumption`, for any operations, dependencies, requests, devices and feed.

- `ReplayIsLog`: `Spec => ImplementsLog`, the refinement.  The invariant says that a request that applies
  an operation is alone with it and that it is not recorded, that what was answered is recorded as
  applied, that dependencies found applied still are when the outcome is committed, and that a request
  has no answer yet from its current operation on (it carries none twice).  The first gives the log's
  guard on the outcome, the third the one on the dependencies, and the last that a failure does not
  take back an acknowledgement.
- `ResultsStay`, from `ResultsInv`: in addition, a request at work has answered everything before its
  current operation and has met no failure if failures halt it, an operation told applied was recorded with
  the payload of that request, and a batch is COMPLETED only when all of it was.
- `CursorsStay`, from `FeedInv`: sequence numbers are used up in order, and what lies at or below a cursor
  has been received, was overtaken, or is gone, for the cursor a device has and for the one of an answer
  on its way.  Without the second, an answer accepted would have to be believed.

### `Tenancy_proofs` and `Trade_proofs`

A turn of one component leaves the variables of the others, so each has an inductive invariant of its
own, and the theorem combines those that its property names.

| Theorem | Assumes | The invariant adds |
|---|---|---|
| `MembersAgree` | `OrgAssumption` (nobody is not an account) | `OrgInv`: an owner is a member, and no command under way is for the membership of one |
| `BranchesStayPaid` | - | `OpenInv`: one first-branch draft at most, drafts share no branch, whoever has the tenant row locked sees the draft as it is |
| `AccountsStaySafe` | `AccountsAssumption` (limits are numbers, one code at least) | `AccountInv`: the row is only ever completed, so what a request has made of it holds until it marks it verified; a request with a fixed code has made nothing of it, and its mark is remembered |
| `WorkforceStaysSafe` | `AttendanceAssumption` (integer times) | `AttendanceInv`: who has read all there still is may insert what it decided; `ShiftInv`: the row an update is for is there, and one cancelled since is in `revived` |
| `CatalogStaysSafe` | `DiscountAssumption`, `StockAssumption` (items are not batches) | `DiscountInv`: the rule being edited is there; `StockInv`: a command knows of each archived category it relies on, or was overtaken by the archive |
| `MenuStaysSafe` | `MenuAssumption` (finitely many options, integer prices and quantities) | `MenuInv`: a patch has read its item as it still is, and no two have one item, unless mixed |
| `BillsStaySafe` | `CheckoutAssumption` (naturals, a positive rate; bodies name amounts of the bill) | `BillInv`: the columns nobody named agree from the checkout on, what is replaced is remembered, and only a finalized bill has drawn its tender |
| `FeedsStaySafe` | `LogAssumption` (the feeds have distinct names) | `LogInv`: two running transactions write different rows, and a batch to be committed tells what its transaction did |
| `NoticesStaySafe` | `NoteAssumption` | `NoteInv`: a notification has one delivery that announces it, and is silent before it is inserted |

Two of these are about arithmetic.  `BillsStaySafe` bounds, line by line, how far rounding each column to
the granule moves the sum from the rounding of the sum.  `MenuStaysSafe` shows that the page, the order and
the stock subscriber compute one sum, though one folds over a sequence, one over a set and one over another
order of it: all are brought to the sum of one column, which does not depend on the order.

### Only model-checked

- The liveness properties (`ExpiredAttemptSettles`, `KeyIsReleased`, `RowIsPublished`, `OrphanIsCleaned`,
  `ReplayEnds`): the prover does not reason about fairness and ENABLED.
- The two violations, which are counterexamples, not theorems.

The types of `KhqrPayment`, `Idempotency`, `SaleEffects`, `SaleOrder` and `PushSync` are proved or part of
the invariants above, and not checked again by the runs.

## 6. Findings

With a run:

- `sync_bootstrap`: a pull with a null cursor from a device that gives its name starts from the
  checkpoint, which moved although the answer was lost, against "`null` or omitted: bootstrap pull".
- `sale_void`: a void that overtakes the delivery of its sale reverses a deduction that was never made,
  against "correction is compensating movement".

Stated as definitions that no run checks, because what the repository says is false of the code;
add one as an INVARIANT to a configuration that has the case, and TLC shows how:

- `NoPartialReconciliation` (`KhqrPayment`): the scheduler records a confirmed payment and does not
  finalize the sale, against the design note on it.  The attempt is then terminal and no tick comes
  back to it.
- `AnnouncedInOwnBranch` (`KhqrPayment`): a webhook with a stale scope settles in the attempt's branch and
  announces in the claimed one.
- `AtMostOneEffect` (`Idempotency`): a failure after the business commit deletes the record; the retry
  executes again, against "prevents duplicate command execution".
- `ClosedSessionRejectsMovements` (`CashSession`): a closed session takes movements, against the boundary
  note.

Seen on the way, with no claim in the repository to set them against: a void never writes a refund
of cash into the drawer; the movement of a cash sale of nothing violates a CHECK, so its row is
delivered for ever; a process that dies in a command leaves its idempotency key locked for good, and
one that dies in a cleanup leaves its images claimed for good; a device reads past changes whose
transactions are still open; amounts that a client names are stored unchecked, but for the tender of a
checkout; where a fixed code is allowed, accounts are verified that the provider has not confirmed.

The exceptions of section 3 are of this kind too, and a property that excepts a race does not cover it:
what a dead command holds (`Broken`), what a dead cleanup has claimed (`Stranded`), changes read past
(`overtaken`), desks that race (`loose`), shifts that come back (`revived`), dishes whose patches meet
(`mixed`), rules that come into force under an edit (`slipped`) and rows overtaken by an archive (`late`)
are what the code does.  The properties say that there is no other way to get there; PROJECT.json lists
those hazards with no property, but for the dishes', whose prices and consumption are covered.

## 7. Not modelled, and what that leaves open

- Row locks where a handler is one action, and the deadlocks PostgreSQL breaks.
- Amounts, currencies and rounding outside `Checkout` and `Menu`, beyond zero or not and right or wrong.
- In a subscriber of `SaleEffects`, the several reads before its write are one step.
- Sales that consume no tracked stock, and events of sales that are not finalized: no subscriber acts.
- More unpublished rows than a batch takes while some are poisoned: `RowIsPublished` is about backlogs
  that fit.
- The clocks of server and database are one.
- Of sales and orders: fulfilment batches, which are appended unchecked and shown by the listings
  only, and the order workflow that the code has disabled.
- Of authentication: the choice of a tenant and branch, which only issues another token, and profiles.
- Of tenants, branches, menu and catalogue: names, images and settings columns; the creation of menu
  categories, groups and options (they are there from the start); renaming a stock category.
- Of pull sync: module scopes, which filter a page.
- Reporting and other reads, access control (a table), HTTP, configuration, logging, metrics,
  connection and migrations: nothing in them decides what is stored, but for the constraints the
  migrations declare, which are in the modules that depend on them.
