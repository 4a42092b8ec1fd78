# FreshLens: verification project

FreshLens is an inventory assistant for small produce shops. A vendor photographs
a crate, a worker classifies the photo and makes an inventory batch, the vendor
records sales by hand or by voice, and the system warns of batches that spoil or
run out. This directory holds TLA+ models of the parts where statements of
different transactions interleave, the TLC runs that check them, and proofs.

## The system

| Part | State it keeps | Operations | Model |
|---|---|---|---|
| Sale deduction, `apps/api/app/services/sales.py` | sales, sale_items, stock of batches, alerts | `POST /sales` with an idempotency key | `Sales` |
| Scan upload, `apps/api/app/routers/scans.py` | scans, images, Celery queue, a note in Redis | `POST /scans` | `ScanPipeline` |
| Scan worker, `packages/ml/worker/tasks.py`, `db.py` | scans, batches, alerts | `classify_scan` | `ScanPipeline` |
| Hourly evaluation, `packages/ml/worker/lifecycle.py` | alerts | `evaluate_tenant_batch_lifecycle` | `AlertLifecycle` |
| Alert API, `services/catalog.py` | alerts | list, read, dismiss | `AlertLifecycle` (dismiss), `Inbox` |
| Push notifier, `packages/ml/worker/push.py` | device_tokens, `notification_sent_at` | `notify_scan`, `notify_alert` | `AlertLifecycle` (accepted or refused) |
| Tenant transaction and row-level security, `core/database.py`, migrations | none of its own | begin, commit, rollback, policy of every statement | in all of the above |
| Tenant onboarding, `services/applications.py`, `tenants.py`, `tenant_invites.py` | applications, tenants, users, identity provider | apply, approve, reject, invite | `Onboarding` |
| Mobile sale screens, `manual-sale-screen.tsx`, `voice-sale-screen.tsx` | choice or draft, idempotency key | list, choose, confirm, retry | `ManualSale`, `VoiceSale`, `SaleScreens` |
| Mobile scan screens, `scan-flow-screen.tsx`, `scan-status-screen.tsx` | the step, the polls | photograph, submit, poll, retake | `ScanFlow` |
| Mobile pages, `vendor-navigator.tsx`, `alerts-screen.tsx`, home, history | what each page shows | refresh, read, dismiss, open from a push | `Inbox` |
| Mobile sign-in, `auth-provider.tsx`, `session-events.ts`, `App.tsx` | status, password setup | inspect, sign in and out, links | `MobileSession` |
| Mobile session storage, `chunked-storage.ts` | chunks, manifest | get, set, remove | `ChunkedStorage` |
| Web console, `apps/web/src` | the session cookie; what each tab shows | pages, redirects, forms | `WebConsole` |
| Token hook and verification, `core/auth_hook.py` | claims | issue, check | their effect only: access, roles, live tokens |
| Rate limiter, voice parser, admin catalogue and reports, model training | a counter; none | - | not modelled, see below |

The parts meet in PostgreSQL. The API and the workers never call each other: the
API publishes a Celery task and the worker reads and writes the same tables under
the same policies. Sales, scans and the hourly evaluation all write `alerts`, under
a unique index per batch and event; sales and the evaluation update the same alert
rows; sales of the same batch meet at its row lock, retries of one key at an
advisory lock.

What is hard, and hard to test, is therefore

- what another transaction commits between two statements of one (READ COMMITTED);
- in which order locks are taken, and what a transaction that fails leaves behind;
- access revoked between two statements: a select then finds nothing, an update
  changes 0 rows and says so to nobody, an insert raises;
- a task published before the row it is about is committed, delivered twice, or
  lost with its worker;
- retries with the same key, by clients that did not see the first answer;
- alerts that are moot when they are committed, or pushed but not marked;
- on the clients: answers that overtake each other, screens that are gone or show something
  else when an answer arrives, answers that never arrive although the request was served,
  several tabs over one cookie, and a phone that is switched off in the middle of a write.

`PROJECT.json` lists each of these at its line under "hazards".

## Modules

| Module | Contents |
|---|---|
| `Sales` | `POST /sales`, one action per SQL statement |
| `SaleLedger` | what the sale path promises: one atomic, idempotent deduction |
| `MCSales` | small instances |
| `SumLemmas` | what the folds of the community modules return over finite sets and sequences |
| `SalesProofs` | types, locks and freedom from deadlock; recorded deductions, whole sales and announced low stock for any access; conservation of stock, reservation of keys and the refinement to `SaleLedger` with steady access |
| `ScanPipeline`, `MCScanPipeline` | the upload request, the broker and the worker |
| `MCServer` | instances of `Sales` and `ScanPipeline` that share no state |
| `AlertLifecycle`, `MCAlertLifecycle` | the hourly task, a sale and a vendor who dismisses |
| `AlertLifecycleProofs` | no evaluation, sale, dismissal or rollback makes an alert younger or disappear |
| `ScanPipelineProofs` | what crashes, redeliveries, refusals and early workers cannot do to a scan; without them no scan is forgotten and pushes are true |
| `Onboarding`, `MCOnboarding` | applications, reviews and the identity provider |
| `OnboardingProofs` | decisions are final, owners keep their accounts, one application per address is pending, answers are true, faults bound orphan accounts |
| `SaleClient` | requests of the phone on their way to the ledger that `Sales` implements |
| `ManualSale`, `VoiceSale` | the two sale screens, each over `SaleClient` |
| `SaleScreens`, `MCSaleScreens` | both over one server, as the navigator composes them |
| `SaleScreensProofs` | what a lossy network cannot make the two sale screens record or report |
| `ScanFlow` | the scan stack over a server whose status of a scan moves as `set_status` lets it |
| `Inbox` | the pages that show what the server holds |
| `MobileSession` | who is signed in on the phone |
| `ChunkedStorage` | the keychain entries of the stored session |
| `SecureRegister` | what that storage promises: one register |
| `ChunkedStorageProofs` | the storage implements the register |
| `WebConsole` | tabs, cookie, redirects and forms of the console |
| `MCClients` | instances of the five client models that `SaleScreens` does not compose |
| `ClientProofs` | what late, lost and overtaking answers cannot make the scan stack, the feed and the console show |

A definition whose comment begins "Mutant of" is not part of a specification: it is
the definition named there with a plausible bug, and PROJECT.json says which
property it would break.

### Sales

A handler `h` is one request inside `tenant_transaction`. `pc[h]` names its next
statement: `advisory` (the lock of line 40), `load` and `items` (the lookup of the
key: two selects), `lock` (one batch row at a time, ascending), `validate` (the
Python loop, one line per step), `insert` (the sale), then for each line `item`,
`update`, `alert`, `resolve`, and `commit`. `stock`, `sales`, `sold`, `low` and
`aging` are committed rows; `seen`, `itemQty`, `newLow` and `cleared` are what the
transaction wrote and nobody else sees; `Commit` publishes them and `Rollback` drops
them. `remaining`, `plan` and `done` are the service's local variables. `access` is
the value of `current_vendor_has_access()`, evaluated anew by every statement.
`Abort` is an exception, a lost connection or the end of the process at any statement.

The items of a recorded sale come back in any order (`Reorderings`), since the
query orders by a column equal for all of them.

### ScanPipeline

`api[s]` is the step of the request that uploads scan `s`: its row is inserted,
the task sent, the task id noted in Redis, the transaction committed. The row is
uncommitted, and invisible to workers, until the last. The broker acknowledges a
task when a worker starts it (Celery's default, which `worker/app.py` keeps), so
`Crash` loses the task, while `Redeliver` gives a task to a second worker.
`job[w]` is what worker `w` is at: `set_status`, the classifier (any verdict, or an
exception), and the statements of `complete`, among them the row lock on the scan
and the unique index of alerts, at which a second transaction waits and then fails.

`Unavailable` is the 503 of a task that could not be queued or noted, `Refuse` any other error.
The handler calls `mark_failed` before it raises the 503, but the exception rolls back the
transaction that holds the mark and the row: `scan[s]` stays `None`.

### AlertLifecycle

A task resolves moot warnings (`BeginResolve` is the statement's snapshot,
`LockAlert` each row it locks and looks at again), selects what is due without
locking it, inserts the warnings in the order of the query, commits, and then
lists, pushes and marks the unsent alerts. A sale inserts `low_stock` and resolves
the warnings of batches it empties, and holds those row locks to its commit. It first locks
its batches in the order of their ids (`LockBatch`). An inserted warning refers to a batch, and
the check of that foreign key (`CheckBatch`) locks the batch's row for key share, so it waits for a
sale, and a sale waits for it (`Holds`). So three circles exist: over two alerts, over two
batches, and over an alert that the evaluation has resolved and a batch that the sale has locked.
`BreakDeadlock` is PostgreSQL's detector: one of the waiting transactions is rolled
back. `TenantColumn` says whether `products.tenant_id` exists, which the select names
and migration 0010 drops. `mark_alert_notification_sent` keeps an alert out of later lists; nothing
looks at the mark between a list and a push, so of two overlapping tasks both may push an alert.

### Onboarding

An application is named after the submission that inserted it, an account after the
admin request that invited it. `sub[s]` walks through `submit_tenant_application`:
`find`, `insert` (which waits at the unique index of pending addresses), `again` (the
handler of the unique violation) and `commit`. `rev[r]` walks through `approve`
(`lock`, `invite`, `rows`, `update`, `commit approval`), `reject` (`reject`, `commit
rejection`) or the creation of a tenant or member (`invite`, `rows`, `commit member`).
`account` belongs to the identity provider and is no part of any transaction: `Invite`
changes it at once, `Undo` is the compensation, and `EndReview` releases the row
but leaves it. `faults` counts what no handler can compensate: a lost answer, a failing
deletion, a crash or failing commit.

### The sale screens

`SaleClient` holds the server (`stock`, `sales`: the tables as `SaleLedger` moves them) and
the transmissions: `wire` are those not served yet, `answer` what the server said to those it
served. `GiveUp` is `apiFetch` ending in a timeout or a network error, at any time; the request
may be served afterwards. A key is named after the transmission that first used it, so that two
requests with one key are seen to have it. `origin` and `unheard` are histories: which
transmission first attempted the same sale, and which answers the phone gave up.

`manual` and `voice` are the React state of the mounted screen. A list of batches on its way is
an element of `loads` or `replies` that is served and arrives or fails in any order, also after
the vendor has chosen another product, which is when `selectProduct` and `chooseProduct` put
the batches of one product beside another. `waiting` is the transmission a screen waits for. The manual
screen draws a key for every `Confirm`; the voice screen keeps one until the draft changes
(`DraftKey`). `SaleScreens` lets Home, an alert's Sell button and the voice screen's fallback
open the screens.

### ScanFlow, Inbox

`flow.at` is the step of `ScanFlowScreen`, `polls` the `getScan` requests on their way: the
interval sends another while earlier ones travel. Of an accepted scan the server may say
`processing`, `completed` or `failed` at any time, in any order and for ever (`Progresses`):
`set_status` does not ask for the old status, so a second delivery takes a verdict back, and
`scan_racy` and the early acknowledgement leave scans without one. `reached` records the
verdicts that each scan has had. In `Inbox` each page shows the last answer that arrived
(`view`); of the requests of Home each may fail by itself and counts as 0 then;
`loads` and `patches` arrive in any order. `nav` is the page on top: pushes and pops
of the navigator are reduced to that, and to the tap that waits until it is ready.

### MobileSession, ChunkedStorage

`status` is the state of `AuthGate`; `looks` is a bag of `inspectSession` calls on their way,
each with what it read. `passwordSetup` is the ref that makes them do nothing. A request to the
API keeps the token it was sent with, so a 401 may concern a session that was replaced since.
`Revoke` makes calls end with 401; `Deactivate` does not: the API answers a member or tenant who was
deactivated with 403, at which `apiFetch` does nothing, and the app stays as it is until a
refreshed token comes without role and tenant (`Refresh`, `custom_access_token_hook`).

`ChunkedStorage` has one action for every entry that is written or deleted. `Fail` is the first
rejection inside a `Promise.all`: the others of its entries stay in `late` and take effect
later, during the next operation, or never. `Kill` ends the app with whatever is on its way.
Operations do not overlap, since supabase-js runs them under `processLock`
(`lib/supabase.ts`). A version that is drawn is new: it contains the time and a random number.
`Item` is `getItem`; mapped to `SecureRegister`'s value it changes in one step, the writing or
deletion of the manifest.

### WebConsole

`tab[t]` is where a tab is, whether it follows a redirect, what its page was rendered from
(`seen`), the forms it has sent (`asked`, one at a time as React sends actions) and the last
answer it showed. `Door` is the proxy; a page whose token the API answers with 401 goes to
`/session-expired`, the route handler that signs out. The server is one application, one tenant
and one user, as `Onboarding` changes them. The redirect that a 401 raises inside an action is an
exception that all but one of them catch, so the form says that the API cannot be reached.

## Runs

| Run | Instance | What it shows | Properties |
|---|---|---|---|
| `sales_steady` | 3 requests, 2 keys, 2 batches, 6 payloads | with steady access stock is conserved, a key is recorded once, locks form no circle, and the tables implement `SaleLedger` | `TypeOK`, `Conserved`, `KeyStillFree`, `NoWaitCycle`, `LocksBelongToRunning`, `ImplementsLedger` |
| `requests_kept` | 2 sales requests, access changes at any time; or 2 scans, 2 workers, no task lost | the books only err towards too much stock, recorded sales are whole, a low batch has its alert, nothing is given back or rewritten, every request is answered; every accepted scan settles, and pushes are true | `NoUnrecordedDeduction`, `LowStockWarned`, `ItemsAreWholeSales`, `OnlySalesDeduct`, `EveryRequestAnswered`, `NoScanForgotten`, `PushIsTrue`, `AcceptedScanSettles` |
| `sales_underdeduct` | 2 requests | violated: `Conserved` when access is revoked between a sale_item and its deduction | `Conserved` |
| `scan_faulty` | 2 scans, 2 workers, with crashes, redelivery, early workers | a scan makes one batch at most, spoiled batches get their alert, an upload answered with an error makes no inventory | `OneBatchPerScan`, `SpoiledBatchAlerted`, `RefusedMakesNoInventory` |
| `scan_racy` | the same, early workers only | violated: a scan accepted stays pending when its worker was faster than the commit | `AcceptedScanSettles` |
| `scan_refused` | 2 scans, 2 workers, no task lost | violated: an upload whose task cannot be queued leaves no scan that is marked failed | `EnqueueFailureMarksScanFailed` |
| `alerts_healthy` | 1 task, 1 sale, 2 batches, 2 hours, 1 crash | warnings are created, stay resolved, end for good when moot, are pushed; a sale ends whatever circle of locks it gets into | `AlertsOnlyAge`, `SoldOutGrowsQuiet`, `DueBatchWarned`, `AlertPushed`, `SaleEnds` |
| `alerts_column_gone` | the same on the migrated schema | violated: a batch that is due is never warned of | `DueBatchWarned` |
| `onboarding` | 3 submissions, 3 admin requests, 2 addresses, 2 faults | one pending application per address, decisions final, owners keep their accounts, only a fault leaves an orphan account, a submission gets no id only after a decision | `OnePendingPerEmail`, `ApprovedOwnerSignsIn`, `OrphansArePaidFor`, `AnswerIsTrue`, `DecisionIsFinal` |
| `sale_screens` | 2 transmissions, 3 batches of 2 products, drafts of 2 lines | what a screen says it sold is recorded, a manual sale is recorded twice only after a lost answer, an unchanged voice draft never, and no draft sells a batch as another product | `ManualDoneIsRecorded`, `SecondSaleNeedsLostAnswer`, `VoiceAttemptSoldOnce`, `SentLinesFit` |
| `manual_sale_twice` | the same | violated: a manual sale confirmed again after a lost answer is recorded twice | `ManualAttemptSoldOnce` |
| `clients` | see below | the session storage is a register; a verdict is shown and was the server's; pages converge and hide only what is resolved; a lost session is noticed; admins are told the truth; no redirect goes on for ever | `Inv`, `ShownVerdictIsTrue`, `DismissedIsResolved`, `ActsAsRegister`, `VerdictShown`, `PagesConverge`, `LostSessionEnds`, `ToldIsTrue`, `NavigationEnds` |

Why the bounds are enough: three handlers are what a deadlock circle longer than two and a retry
behind two competitors need, and two batches in both orders what lock ordering needs. The payloads
contain a sale of the whole stock, one batch in two lines, two payloads for one key, a batch that
does not exist and a product that does not match. In `ScanPipeline` interactions are pairwise (two
scans at one batch, two workers at one scan). In `AlertLifecycle` one batch is warned of by its
fresh deadline and one by both, one sale leaves exactly the smallest part that counts, the clock
passes a deadline, one crash can hit any statement, and one sale sells both batches out in the
order that meets the evaluation's, so that all three circles of locks occur. In `Onboarding` three
submissions are what the unique index, its violation and a decision in between need; of three
admin requests two compete for an application while a third invites the same address. Two tasks at
once are not in the instance of `AlertLifecycle`: their insertions meet at the unique index, which
`InsertWarning` models, but the state space with two passes fifteen million states.

In `MCSaleScreens` two transmissions are a sale and its retry, or two competing sales; two
batches of one product are what overtaking lists need, a third of another product what a
mix-up needs. A screen is opened only before the first transmission and touched only until the
last (`InUse`): what is on its way then still arrives, in any order, and the screen can be closed.
Touching a busy screen is explored while the first transmission is under way, and nothing that
is touched after the last one can be sent any more.

`MCServer` runs two models that share no state, and `MCClients` five: a behaviour exercises one of
them (`part`), and the others stay at their first state. The storage has a session of one chunk
and one of two and three versions, so that a failed write, its late effect and a whole replacement
meet. Two polls and two uploads let an answer overtake and a retake find the polls of the former
scan. Pages have one alert, one scan, one fault and two requests on their way, two lists or a list
and a change; the session two inspections or requests on their way and one fault or one link; the
console two tabs and three clicks or faults, which is what it takes to decide from a page that is
old by then. A form abandoned by leaving its page is taken before that or never. `NavigationEnds`
is checked for one tab, which stands for both.

Symmetry (handlers, scans, workers, requests, addresses) is used only in runs without liveness.

### Fairness

- `Sales`: weak fairness of every handler's statements: the server goes on with a
  request, and PostgreSQL queues those who wait for a lock. Nothing is assumed of clients,
  aborts or access.
- `ScanPipeline`: weak fairness of workers and of the broker's delivery to an idle one.
  `CalmSpec` also leaves out lost workers and those that outrun the request: with
  an early acknowledgement no retry exists, and `scan_racy` shows what the second does.
- `AlertLifecycle`: the beat does not stop (weak fairness of a task's steps), row
  locks are granted to those who queue (strong fairness of `LockAlert` and of a sale's `LockBatch`),
  a deadlock is
  broken, and a device tried again and again accepts some day (strong fairness of
  `PushAccepted`). Without the last an alert may stay unsent, which is what the code
  accepts.
- `ScanFlow`: the interval fires, the server answers, and of polls repeated for ever some get
  through; nothing is assumed of the worker, and that a scan has a verdict for good, whichever it
  is, is the antecedent of `VerdictShown`. `Inbox`: the server answers; a vendor who refreshes for
  ever is the antecedent of `PagesConverge`. `MobileSession`: inspections and calls end; a vendor
  who goes on using the app is the antecedent of `LostSessionEnds`, which speaks of a session that
  is gone or answered with 401, not of a deactivated vendor. `WebConsole`: browsers follow
  redirects and the server answers them; nobody is assumed to click, and a sign-out fails only
  finitely often.
- `SaleScreens` and `ChunkedStorage` are checked for safety only: a vendor may stop, a phone
  may be off.

## Findings

Five runs show that the code and its documents disagree; each quotes the line it refutes.

1. `sales.py:100` ignores the row count of the stock update (`sales_underdeduct`).
2. `scans.py:70` publishes before the commit (`scan_racy`).
3. `lifecycle.py:135` names a dropped column (`alerts_column_gone`).
4. `manual-sale-screen.tsx:110` draws a new key for every confirmation (`manual_sale_twice`).
5. `scans.py:72` marks a scan as failed that could not be queued, and the exception it raises next
   rolls the mark and the row back (`scan_refused`). The test of it runs on a connection without
   transactions.

Some further behaviour is visible in the models and contradicts no document, or is not
expressed as a run: a retry of a multi-line sale may be answered 409 because its items come back in
any order (`sales.py:166`), a replay reports today's stock (`sales.py:162`), `db.py:159`
may leave a batch that no scan links when access is revoked inside `complete`, a web
form whose token has expired reports that the API cannot be reached, a second delivery takes a verdict
back (`tasks.py:35`), two overlapping tasks push an alert twice, and a deactivated vendor stays in the
app until the token is refreshed (`api.ts:69`).

## Proofs

The theorems about `Sales` hold for any sets of handlers, keys, batches and requests that
satisfy `SalesAssumption` (batches are numbered, quantities in requests are positive, a
request has a line, and there are finitely many keys, as a header of at most 255 characters allows:
`sales.py:39` of the routers). Handlers, batches and requests may be infinitely many.

- `TypeCorrect`: `Spec => []TypeOK`. `TypeOK` alone is not inductive: a handler
  past `idle` must have a request, the plan must be no longer than its lines, and a
  handler at `item` or beyond must have a planned quantity for each line.
  `TypeInv` adds that. That stock stays natural is the guard of `ValidateLine`
  carried through `plan` and `seen` to `Commit`.
- `LocksReleased`: `Spec => []LocksBelongToRunning`, with access changing at any time.
  `LockInv` says in addition that a handler past its first statement holds the
  advisory lock of its key.
- `DeductionsRecorded` and `SalesStand`, for `Spec`, in which access changes at any time. The
  invariant is `StockInv`. `Books` relates the plan of a handler to the stock it read (`Leaves` is
  what the first `n` lines leave of a batch, as a relation, so that no recursion is
  needed): what is planned and what is sold of a row it holds add up to the stock. The
  handler's version of the row is at least what is planned, since an update without access
  leaves it alone, and it sold nothing from rows it does not hold. `KeyFree` says that past
  its insert a handler is the only one that can record its key. Row locks make the stock
  a handler read still true.
- `StockConserved` and `KeyReserved`, for `SteadySpec`. The same `Books`, read with `"exact"`: while
  access is steady no update is skipped, so the handler's version is what is planned, and
  `Commit` adds the same quantity to `sold` as it takes from `stock`. Both facts fail when
  access changes midway; `sales_underdeduct` shows the difference is real.
- `LowStockAnnounced`, for `Spec`: a row taken down to its threshold has its alert or the
  handler is about to insert it (`AlertRight`). A skipped update might hide a low row from
  the alert; that it does not is `PlannedBelowSeen`: the alert looks at the planned
  quantity, which is never above the row's.
- `NoDeadlock`, for `Spec`: a handler that is locking holds exactly the first of the rows it
  needs (`HoldsFirst`), so whoever holds the row another waits for waits for a later row
  only (`WaitsUpwards`), and the holder of the greatest row waited for waits for nobody. The
  theorem assumes that batch ids are below some number, as UUIDs are, and needs no bound
  on the number of requests.
- `SaleLedgerImplemented`, for `SteadySpec`: the tables implement `SaleLedger`, every commit being
  one `Record` and every other step a stutter. The ledger folds over the lines of a request; the
  handler planned them one by one. A fold unfolds to a recursive function that some choice must
  satisfy: `AddsExists` and `CountTallies` show that there is one, by the least size or number for
  which there would be none, since induction over data is not available. `CountTallies` turns the
  fold, which starts at the last line, into the running total from the first. `PlanTakes` then
  relates it to the plan: what the first `n` lines leave of a batch and what they take add up to
  its stock.
- `ItemsWhole`, for `Spec`: `sold` is the sum, over the recorded sales, of what their lines take. A
  commit adds one sale, so it adds that sale's lines (`AddsMore`); an insert of items that is refused
  takes the transaction with it. This holds whatever happens to access.

Those about the other modules state their assumptions:

- `OnboardingTyped`, `OwnersKeepAccounts` and `DecisionsStand`, for any sets of
  submissions, requests and addresses. The invariant `Inv` says what each request knows:
  from the row lock to its end, an approval's application is still pending and names its
  address (`Holding`), and from the invitation on the account of that address is its own
  (`Invited`). The final update of `approve` does not look at the status again; that it
  need not is this invariant. `OnboardingAssumption` says that `None` and the reply
  without an id are no submission, request or address.
- `OneApplicationToReview` and `SubmissionsAnsweredTruly`: `SubInv` on top of it. Uniqueness
  is not inductive over the committed rows alone: a submission past its insert is the only
  one of its address, and nothing of that address is pending (`OnePending`), which is what waiting
  at the unique index buys. `Answers` carries the application that caused the violation
  over to the second lookup, however many decisions come in between (`Decides`).
- `FaultsPayForOrphans`: each account belongs to the request that invited it (`Accounts`), so a
  step makes at most one orphan, and only a fault makes one. The count is over a finite set that
  the invariant keeps finite (`OrphanInv`), by the library's theorems on cardinality.

- `ScanMakesOneBatch`, `SpoiledIsAlerted` and `RefusalMakesNoInventory`, for `FaultySpec` and any sets
  of scans, workers and batches. The invariant says what the transaction of a worker knows
  (`KnowsRow`): it has a batch to link only with the row locked, the batch it makes is
  linked by nobody, and the row's own batch is the one it found. Two transactions never hold
  one row (`Exclusive`). A worker that did not outrun the request finds the row and so holds
  its lock (`NotEarly`): that is the premise `SpoiledBatchAlerted` needs and what `early` is for.
  `RowAssumption` says that `None` is no row.
- `AcceptedScansAreKept` and `PushesAreTrue`, for `CalmSpec`. `Owned` says that a task is at one
  place: with its request, in the queue, with one worker, or done. So the worker that
  pushes is the only one that wrote the row, and nothing changes it between commit and push. Both
  properties fail under `FaultySpec`, which is why they are stated of `CalmSpec`.
- `LifecycleTyped` and `AlertsStand`, for any numbers of tasks, sales and batches, with crashes and
  deadlocks. A transaction writes alerts it saw some statements ago, so `Statements` says that
  what it found is still there and what it inserted is there for nobody else; `InsertsApart` is the
  unique index among uncommitted insertions and `BatchesApart` the row locks behind `low_stock`. A
  commit then only adds alerts that were absent and resolves those that were found. The
  run has one task; the theorem covers overlapping ones. It is about the mark of a push, which stays,
  and not about the push, which two tasks may repeat. `LifecycleAssumption` gives the types
  of the constants and says that tasks are no sales and `None` is no number, party or alert.
- `DoneViewIsTrue`, `SecondSaleIsUnheard` and `VoiceDraftSoldOnce`, for any number of transmissions
  and any products, batches, lists and drafts. `Posted` relates keys, attempts and what may still be
  recorded (`Live`): of two keys of one attempt the earlier is unheard (`Paired`), and a
  voice attempt has one key (`Keyed`). `Spent` is what makes it inductive: while a sale is
  on the manual screen all its transmissions but the awaited one are dead or unheard, so the next
  confirmation may draw a new key. `Awaited` says that the server records of that one
  transmission exactly the line the screen will report. `ClientAssumption` says that `None` is no
  transmission or request and that any listed batches have a first one.
- `VoiceDraftsFit`: `FitInv` follows the numbers instead. Every list of batches, on its way or
  cached, was true of its product and never above what was received (`ListOf`), every line of a
  draft has a countable quantity (`Drafted`), and the stock stays between zero and what was received
  (`Stocked`), because what a request takes is a number (`DemandIsNumber`). A correction
  that arrives late may give a line another product's batch; `validateLines` then stops it, and
  `SaleItemsFit` shows that what passes is one item for each batch, with the sum of its lines.
  `DraftAssumption` says that stocks and quantities are whole and a draft has finitely many lines.
- `VerdictsAreTrue`, `DismissalsAreResolved` and `DecisionsAreTold`, for `ClientsSpec` and any
  number of uploads, polls, alerts, requests and clicks. For the scan stack (`FlowInv`): polls are
  on their way only for the scan on the screen, since leaving the screen aborts them, and a
  verdict that one saw is among those the scan has had (`TrueOf`), though the worker may have
  changed it since. For the feed (`PagesInv`): the answer to a dismissal comes from a server that
  has resolved the alert. For the console (`WebInv`, its two tabs sharing a cookie): a page of
  applications that shows one keeps it (`TabInv`), so a rejection is asked only of an application
  that is there, and one that the API refuses has met a decision; the tab that asks it is admitted
  to the page and so is an admin's (`AdmittedToApplications`), which rules out a refusal for lack
  of access. `Grows` is what a step of one tab leaves true of what others were told.
  `StatusAssumption` says that `None` is no status.
- `StorageInvariant` and `StorageActsAsRegister`, for any sessions, versions and chunk counts.
  The invariant is what the run checks as `Inv`: the manifest names the whole of one value
  (`NamesWhole`), nothing late belongs to its version or to the one being written
  (`LateElsewhere`), and an operation knows which chunks are done (`Writing`, `Cleaning`).
  `ItemNamed` then gives the value of `getItem`, and every step either keeps it or is the
  register's `TakeEffect`; the refinement is proved in full, since the register has no fairness.

Every inductive invariant was checked by TLC, as an invariant of a run's instance, before it
was proved. Only model-checked: all liveness (`SoldOutGrowsQuiet` included), which with fairness is
beyond the prover. Every safety property of a passing run is a theorem.

## Not modelled

- Wording, formats, layout and the classifiers' numbers; reads that change nothing; the image
  files; migrations as steps; the connection pool (no operation holds two connections).
- The rate limiter (a counter per minute in Redis that nothing else reads) and the voice parser (a
  pure function on text; any draft it may return is an input of `VoiceSale`).
- Admin catalogue, shelf-life rules and reports: single statements and read-only queries.
- The limit of 100 pending alerts and the fan-out over tenants (tenants do not share rows); device
  tokens, their chunks and the deactivation of stale ones.
- Signing and verifying tokens, which Supabase Auth and its libraries do. Their effect, access
  that ends between two statements and sessions that end between two requests, is modelled.
- Of the phone: the stack of the navigator below the page on top, the camera, the recorder.
  An upload that Retry sends again after a lost answer makes a second scan: the API has no key for
  uploads and no document promises one.
- Model training, which is numeric and offline.

## Possible next steps

A refinement of `SaleClient`'s server by `Sales`, so that the phone's theorems rest on the API's
statements instead of the ledger they implement. An abstract specification of the scan pipeline, of which
`ScanFlow` has a coarser view, and a proof that `ScanPipeline` implements it. A module for the push
notifier with tokens that become stale while their chunk is being sent.
