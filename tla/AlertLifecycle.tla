--------------------------- MODULE AlertLifecycle ---------------------------
(***************************************************************************)
(* The alerts of one tenant: the hourly task                               *)
(* evaluate_tenant_batch_lifecycle, the sales that empty batches while it  *)
(* runs, and the vendor who dismisses alerts.                              *)
(*                                                                         *)
(* The evaluation is one transaction of three kinds of statements: resolve *)
(* the warnings that are moot, select the batches that are due (it locks   *)
(* none of them), and insert their warnings.  After its commit the task    *)
(* lists the alerts not yet sent and pushes them one by one.               *)
(*                                                                         *)
(* Rows updated by a transaction stay locked until it ends, and so do the  *)
(* batches a sale selects "for update" and the batches that the foreign    *)
(* key of an inserted alert refers to.  Evaluations and sales take these   *)
(* locks in different orders.                                              *)
(***************************************************************************)
EXTENDS Integers, Sequences, FiniteSets

CONSTANTS
    Tasks,         \* worker processes that may run the evaluation
    Sellers,       \* POST /sales requests
    Batches,       \* their order is the order of the ids
    Received,      \* quantity_received of each batch
    Threshold,     \* low_stock_threshold of the product of each batch
    IntakeFresh,   \* batches whose initial_classification is fresh
    FreshUntil,    \* fresh_to_medium_at of each batch
    MediumUntil,   \* medium_to_spoiled_at of each batch
    Lead,          \* LIFECYCLE_WARNING_LEAD_HOURS
    MinPart,       \* LIFECYCLE_MIN_REMAINING_RATIO, in percent
    Orders,        \* what sales may sell: sequences of [batch, qty]
    TenantColumn,  \* does products.tenant_id exist, which the select joins on?
    Horizon,       \* bound on the clock
    MaxCrashes,    \* bound on the tasks that die
    None

Fresh == "fresh_to_medium_warning"
Spoil == "medium_to_spoiled_warning"
Low   == "low_stock"

Aging   == {Fresh, Spoil}
Parties == Tasks \union Sellers
Keys    == Batches \X (Aging \union {Low})
Alert   == [resolved : BOOLEAN, sent : BOOLEAN]
Order   == Seq([batch : Batches, qty : Nat \ {0}])

ASSUME LifecycleAssumption ==
    /\ Batches \subseteq Nat /\ IntakeFresh \subseteq Batches
    /\ Received \in [Batches -> Nat \ {0}] /\ Threshold \in [Batches -> Nat]
    /\ FreshUntil \in [Batches -> Nat] /\ MediumUntil \in [Batches -> Nat]
    /\ \A b \in Batches : FreshUntil[b] <= MediumUntil[b]
    /\ Lead \in Nat \ {0} /\ MinPart \in 0 .. 100
    /\ Orders \subseteq Order /\ <<>> \notin Orders
    /\ \A o \in Orders : \A i, j \in DOMAIN o : o[i].batch = o[j].batch => i = j
    /\ TenantColumn \in BOOLEAN /\ Horizon \in Nat /\ MaxCrashes \in Nat
    /\ Tasks \intersect Sellers = {} /\ None \notin Parties \union Nat \union Alert

VARIABLES
    now,       \* the clock, in hours
    stock,     \* committed quantity_remaining
    alert,     \* committed alert of each batch and event, or None
    lock,      \* holder of the row lock of each alert
    pc,        \* the next statement of each party
    targets,   \* rows that the running update has still to lock
    resolves,  \* alerts a transaction has resolved and not committed
    inserts,   \* alerts a transaction has inserted and not committed
    started,   \* the clock when a task called datetime.now()
    todo,      \* warnings a task has still to insert
    pending,   \* alerts a task has still to push
    pushed,    \* the alert a device has just accepted, or None
    order,     \* the lines a sale has still to deduct
    left,      \* the stock of each batch a sale has locked, then what it leaves of it
    crashes

tables == <<stock, alert>>
txs    == <<targets, resolves, inserts>>
locals == <<started, todo, pending, pushed>>
sales  == <<order, left>>
vars   == <<now, tables, lock, pc, txs, locals, sales, crashes>>

Steps == {"idle", "begin", "resolve", "insert", "list", "push", "mark",
          "lock", "line", "done"}

TypeOK ==
    /\ now \in 0 .. Horizon
    /\ stock \in [Batches -> Nat]
    /\ alert \in [Keys -> Alert \union {None}]
    /\ lock \in [Keys -> Parties \union {None}]
    /\ pc \in [Parties -> Steps]
    /\ targets \in [Parties -> SUBSET Keys]
    /\ resolves \in [Parties -> SUBSET Keys]
    /\ inserts \in [Parties -> SUBSET Keys]
    /\ started \in [Tasks -> 0 .. Horizon]
    /\ todo \in [Tasks -> SUBSET Keys]
    /\ pending \in [Tasks -> SUBSET Keys]
    /\ pushed \in [Tasks -> Keys \union {None}]
    /\ order \in [Sellers -> Order]
    /\ left \in [Sellers -> [Batches -> Nat \union {None}]]
    /\ crashes \in 0 .. MaxCrashes

Init ==
    /\ now = 0
    /\ stock = Received
    /\ alert = [k \in Keys |-> None]
    /\ lock = [k \in Keys |-> None]
    /\ pc = [x \in Parties |-> "idle"]
    /\ targets = [x \in Parties |-> {}]
    /\ resolves = [x \in Parties |-> {}]
    /\ inserts = [x \in Parties |-> {}]
    /\ started = [t \in Tasks |-> 0]
    /\ todo = [t \in Tasks |-> {}]
    /\ pending = [t \in Tasks |-> {}]
    /\ pushed = [t \in Tasks |-> None]
    /\ order = [h \in Sellers |-> <<>>]
    /\ left = [h \in Sellers |-> [b \in Batches |-> None]]
    /\ crashes = 0
-----------------------------------------------------------------------------
(* Transactions. *)

Goto(x, step) == pc' = [pc EXCEPT ![x] = step]

Open(k) == alert[k] # None /\ ~alert[k].resolved

\* A transaction ends: its row locks are free and nothing of it is pending.
End(x) ==
    /\ lock' = [k \in Keys |-> IF lock[k] = x THEN None ELSE lock[k]]
    /\ targets' = [targets EXCEPT ![x] = {}]
    /\ resolves' = [resolves EXCEPT ![x] = {}]
    /\ inserts' = [inserts EXCEPT ![x] = {}]

New == [resolved |-> FALSE, sent |-> FALSE]

\* The alerts after the commit of a transaction.
Apply(x) ==
    alert' = [k \in Keys |->
        IF k \in inserts[x] THEN New
        ELSE IF k \in resolves[x] THEN [alert[k] EXCEPT !.resolved = TRUE]
        ELSE alert[k]]

\* An update locks the rows it found in the order of its plan, waiting for each.
\* The task's update looks again whether the alert is still open.
LockAlert(x) ==
    /\ \E k \in targets[x] :
         /\ lock[k] = None
         /\ targets' = [targets EXCEPT ![x] = @ \ {k}]
         /\ IF x \in Tasks /\ ~Open(k)
            THEN UNCHANGED <<lock, resolves>>
            ELSE /\ lock' = [lock EXCEPT ![k] = x]
                 /\ resolves' = [resolves EXCEPT ![x] = @ \union {k}]
    /\ UNCHANGED <<now, tables, pc, inserts, locals, sales, crashes>>
-----------------------------------------------------------------------------
(* The evaluation. *)

\* Celery beat's fan-out reaches an idle worker.
Beat(t) ==
    /\ pc[t] = "idle"
    /\ Goto(t, "begin")
    /\ started' = [started EXCEPT ![t] = now]
    /\ UNCHANGED <<now, tables, lock, txs, todo, pending, pushed, sales, crashes>>

\* Mutant of Moot: only the clock makes a warning moot.
MootByTime(k) == Open(k) /\ k[2] = Fresh /\ FreshUntil[k[1]] <= now

Moot(k) ==
    /\ Open(k) /\ k[2] \in Aging
    /\ stock[k[1]] = 0 \/ (k[2] = Fresh /\ FreshUntil[k[1]] <= now)

\* update alerts set resolved_at ...: the statement's snapshot.
BeginResolve(t) ==
    /\ pc[t] = "begin"
    /\ Goto(t, "resolve")
    /\ targets' = [targets EXCEPT ![t] = {k \in Keys : Moot(k)}]
    /\ UNCHANGED <<now, tables, lock, resolves, inserts, locals, sales, crashes>>

\* Mutant of Stocked: the ratio itself counts as nearly sold out.
StockedAbove(b) == stock[b] > 0 /\ 100 * stock[b] > MinPart * Received[b]

Stocked(b) == stock[b] > 0 /\ 100 * stock[b] >= MinPart * Received[b]

\* The warnings of the selected batches: fresh unless the other is due already.
Due(clock) ==
    {k \in Batches \X Aging :
        /\ Stocked(k[1])
        /\ IF k[2] = Fresh
           THEN /\ k[1] \in IntakeFresh
                /\ FreshUntil[k[1]] <= clock + Lead
                /\ clock < MediumUntil[k[1]] - Lead
           ELSE MediumUntil[k[1]] <= clock + Lead}

\* The select of due batches raises when its join names a column that is gone;
\* the task ends, and with it its pushes.
SelectDue(t) ==
    /\ pc[t] = "resolve" /\ targets[t] = {}
    /\ IF TenantColumn
       THEN /\ todo' = [todo EXCEPT ![t] = Due(started[t])]
            /\ Goto(t, "insert")
            /\ UNCHANGED <<lock, txs>>
       ELSE /\ End(t)
            /\ Goto(t, "idle")
            /\ UNCHANGED todo
    /\ started' = [started EXCEPT ![t] = 0]
    /\ UNCHANGED <<now, tables, pending, pushed, sales, crashes>>

\* "order by medium_to_spoiled_at, id", and a batch's fresh warning first.
Before(j, k) ==
    \/ MediumUntil[j[1]] < MediumUntil[k[1]]
    \/ MediumUntil[j[1]] = MediumUntil[k[1]] /\ j[1] < k[1]
    \/ j[1] = k[1] /\ j[2] = Fresh /\ k[2] = Spoil

NextWarning(t, k) == k \in todo[t] /\ \A j \in todo[t] \ {k} : Before(k, j)

\* Mutant of InsertWarning: only an alert that is open counts as a conflict.
InsertWarningAgain(t) ==
    /\ pc[t] = "insert"
    /\ \E k \in Keys \ inserts[t] :
         /\ NextWarning(t, k)
         /\ \A u \in Parties \ {t} : k \notin inserts[u]
         /\ IF Open(k)
            THEN todo' = [todo EXCEPT ![t] = @ \ {k}] /\ UNCHANGED inserts
            ELSE inserts' = [inserts EXCEPT ![t] = @ \union {k}] /\ UNCHANGED todo
    /\ UNCHANGED <<now, tables, lock, pc, targets, resolves, started, pending, pushed,
                   sales, crashes>>

\* insert ... on conflict do nothing: waits for another's uncommitted row, and is
\* done with the warning when there is a row.
InsertWarning(t) ==
    /\ pc[t] = "insert"
    /\ \E k \in Keys \ inserts[t] :
         /\ NextWarning(t, k)
         /\ \A u \in Parties \ {t} : k \notin inserts[u]
         /\ IF alert[k] = None
            THEN inserts' = [inserts EXCEPT ![t] = @ \union {k}] /\ UNCHANGED todo
            ELSE todo' = [todo EXCEPT ![t] = @ \ {k}] /\ UNCHANGED inserts
    /\ UNCHANGED <<now, tables, lock, pc, targets, resolves, started, pending, pushed,
                   sales, crashes>>

\* The foreign key of the inserted row: its batch is selected "for key share", which
\* waits for a sale that has locked the batch.
CheckBatch(t) ==
    /\ pc[t] = "insert"
    /\ \E k \in inserts[t] :
         /\ NextWarning(t, k)
         /\ \A h \in Sellers : left[h][k[1]] = None
         /\ todo' = [todo EXCEPT ![t] = @ \ {k}]
    /\ UNCHANGED <<now, tables, lock, pc, txs, started, pending, pushed, sales, crashes>>

\* Mutant of CommitEvaluation: the transaction stays open during the pushes.
CommitEvaluationLate(t) ==
    /\ pc[t] = "insert" /\ todo[t] = {}
    /\ Apply(t)
    /\ inserts' = [inserts EXCEPT ![t] = {}]
    /\ Goto(t, "list")
    /\ UNCHANGED <<now, stock, lock, targets, resolves, locals, sales, crashes>>

CommitEvaluation(t) ==
    /\ pc[t] = "insert" /\ todo[t] = {}
    /\ Apply(t)
    /\ End(t)
    /\ Goto(t, "list")
    /\ UNCHANGED <<now, stock, locals, sales, crashes>>

Unsent == {k \in Keys : Open(k) /\ ~alert[k].sent}

\* Mutant of ListPending: a task pushes only the warnings that are due now.
ListPendingDue(t) ==
    /\ pc[t] = "list"
    /\ pending' = [pending EXCEPT ![t] = Unsent \intersect Due(now)]
    /\ Goto(t, "push")
    /\ UNCHANGED <<now, tables, lock, txs, started, todo, pushed, sales, crashes>>

\* pending_alert_notifications, up to its limit of 100 alerts.
ListPending(t) ==
    /\ pc[t] = "list"
    /\ pending' = [pending EXCEPT ![t] = Unsent]
    /\ Goto(t, "push")
    /\ UNCHANGED <<now, tables, lock, txs, started, todo, pushed, sales, crashes>>

\* notify_alert: the alert may have been resolved since it was listed.
PushAccepted(t) ==
    /\ pc[t] = "push"
    /\ \E k \in pending[t] :
         /\ pending' = [pending EXCEPT ![t] = @ \ {k}]
         /\ pushed' = [pushed EXCEPT ![t] = k]
    /\ Goto(t, "mark")
    /\ UNCHANGED <<now, tables, lock, txs, started, todo, sales, crashes>>

\* No device accepts it, and it stays unsent.
PushRefused(t) ==
    /\ pc[t] = "push"
    /\ \E k \in pending[t] : pending' = [pending EXCEPT ![t] = @ \ {k}]
    /\ UNCHANGED <<now, tables, lock, pc, txs, started, todo, pushed, sales, crashes>>

\* mark_alert_notification_sent: an update in a transaction of its own.
MarkSent(t) ==
    /\ pc[t] = "mark"
    /\ lock[pushed[t]] = None
    /\ alert' = [alert EXCEPT ![pushed[t]].sent = TRUE]
    /\ pushed' = [pushed EXCEPT ![t] = None]
    /\ Goto(t, "push")
    /\ UNCHANGED <<now, stock, lock, txs, started, todo, pending, sales, crashes>>

FinishTask(t) ==
    /\ pc[t] = "push" /\ pending[t] = {}
    /\ Goto(t, "idle")
    /\ UNCHANGED <<now, tables, lock, txs, locals, sales, crashes>>
-----------------------------------------------------------------------------
(* Sales and vendors. *)

BatchesOf(o) == {o[i].batch : i \in DOMAIN o}

\* A request whose lines name each batch once (Sales has the others).
Sell(h, o) ==
    /\ pc[h] = "idle"
    /\ order' = [order EXCEPT ![h] = o]
    /\ Goto(h, "lock")
    /\ UNCHANGED <<now, tables, lock, txs, locals, left, crashes>>

\* x has a lock on the row of batch b that keeps "for update" waiting.
Holds(x, b) ==
    IF x \in Sellers THEN left[x][b] # None
                     ELSE \E k \in inserts[x] \ todo[x] : k[1] = b

NextBatch(h, b) ==
    /\ b \in BatchesOf(order[h]) /\ left[h][b] = None
    /\ \A c \in BatchesOf(order[h]) : left[h][c] = None => b <= c

\* select ... for update: the batches one by one, in the order of their ids.
LockBatch(h) ==
    /\ pc[h] = "lock"
    /\ \E b \in Batches :
         /\ NextBatch(h, b)
         /\ \A x \in Parties \ {h} : ~Holds(x, b)
         /\ left' = [left EXCEPT ![h][b] = stock[b]]
    /\ UNCHANGED <<now, tables, lock, pc, txs, locals, order, crashes>>

AllLocked(h) == \A b \in BatchesOf(order[h]) : left[h][b] # None
Covered(h) == \A i \in DOMAIN order[h] : left[h][order[h][i].batch] >= order[h][i].qty

\* What the lines leave in the locked batches.
CoverStock(h) ==
    LET qty(b) == LET i == CHOOSE i \in DOMAIN order[h] : order[h][i].batch = b
                  IN  order[h][i].qty
    IN
    /\ pc[h] = "lock" /\ AllLocked(h) /\ Covered(h)
    /\ left' = [left EXCEPT ![h] = [b \in Batches |->
                  IF b \in BatchesOf(order[h]) THEN left[h][b] - qty(b) ELSE left[h][b]]]
    /\ Goto(h, "line")
    /\ UNCHANGED <<now, tables, lock, txs, locals, order, crashes>>

\* One line: its low_stock alert and, when sold out, the update that resolves
\* the batch's warnings, open or not.
DeductLine(h) ==
    /\ pc[h] = "line" /\ order[h] # <<>> /\ targets[h] = {}
    /\ LET b == Head(order[h]).batch IN
       /\ inserts' = IF left[h][b] <= Threshold[b] /\ alert[<<b, Low>>] = None
                     THEN [inserts EXCEPT ![h] = @ \union {<<b, Low>>}]
                     ELSE inserts
       /\ targets' = IF left[h][b] = 0
                     THEN [targets EXCEPT ![h] =
                             {k \in {b} \X Aging : alert[k] # None /\ lock[k] # h}]
                     ELSE targets
    /\ order' = [order EXCEPT ![h] = Tail(@)]
    /\ UNCHANGED <<now, tables, lock, pc, resolves, locals, left, crashes>>

CommitSale(h) ==
    /\ pc[h] = "line" /\ order[h] = <<>> /\ targets[h] = {}
    /\ stock' = [b \in Batches |-> IF left[h][b] = None THEN stock[b] ELSE left[h][b]]
    /\ left' = [left EXCEPT ![h] = [b \in Batches |-> None]]
    /\ Apply(h)
    /\ End(h)
    /\ Goto(h, "done")
    /\ UNCHANGED <<now, locals, order, crashes>>

\* AlertService.dismiss: one update, which waits for the row.
Dismiss(k) ==
    /\ Open(k) /\ lock[k] = None
    /\ alert' = [alert EXCEPT ![k].resolved = TRUE]
    /\ UNCHANGED <<now, stock, lock, pc, txs, locals, sales, crashes>>
-----------------------------------------------------------------------------
(* What surrounds them. *)

Tick ==
    /\ now < Horizon
    /\ now' = now + 1
    /\ UNCHANGED <<tables, lock, pc, txs, locals, sales, crashes>>

\* An exception, or the end of the process: rollback; the task is not retried
\* before the next hour and the request is answered with an error.
Stop(x) ==
    /\ pc[x] \notin {"idle", "done"}
    /\ End(x)
    /\ IF x \in Tasks
       THEN /\ Goto(x, "idle")
            /\ started' = [started EXCEPT ![x] = 0]
            /\ todo' = [todo EXCEPT ![x] = {}]
            /\ pending' = [pending EXCEPT ![x] = {}]
            /\ pushed' = [pushed EXCEPT ![x] = None]
            /\ UNCHANGED sales
       ELSE /\ Goto(x, "done")
            /\ order' = [order EXCEPT ![x] = <<>>]
            /\ left' = [left EXCEPT ![x] = [b \in Batches |-> None]]
            /\ UNCHANGED locals
    /\ UNCHANGED <<now, tables>>

\* InsufficientStockError.
RefuseSale(h) ==
    /\ pc[h] = "lock" /\ AllLocked(h) /\ ~Covered(h)
    /\ Stop(h)
    /\ UNCHANGED crashes

Crash(x) == crashes < MaxCrashes /\ Stop(x) /\ crashes' = crashes + 1

WaitsFor(x, y) ==
    \/ targets[x] # {} /\ (\A k \in targets[x] : lock[k] # None)
          /\ \E k \in targets[x] : lock[k] = y
    \/ x \in Tasks /\ pc[x] = "insert" /\ \E k \in Keys :
          /\ NextWarning(x, k)
          /\ IF k \in inserts[x] THEN y \in Sellers /\ left[y][k[1]] # None
                                ELSE k \in inserts[y]
    \/ x \in Sellers /\ pc[x] = "lock" /\ \E b \in Batches : NextBatch(x, b) /\ Holds(y, b)

\* PostgreSQL finds the circle of waiting transactions and aborts one of them.
BreakDeadlock(x) ==
    /\ \E S \in SUBSET Parties : x \in S /\ \A u \in S : \E v \in S \ {u} : WaitsFor(u, v)
    /\ Stop(x)
    /\ UNCHANGED crashes

TaskStep(t) ==
    \/ Beat(t)
    \/ BeginResolve(t)
    \/ LockAlert(t)
    \/ SelectDue(t)
    \/ InsertWarning(t)
    \/ CheckBatch(t)
    \/ CommitEvaluation(t)
    \/ ListPending(t)
    \/ PushAccepted(t)
    \/ PushRefused(t)
    \/ MarkSent(t)
    \/ FinishTask(t)

SaleStep(h) ==
    \/ LockBatch(h)
    \/ CoverStock(h)
    \/ RefuseSale(h)
    \/ LockAlert(h)
    \/ DeductLine(h)
    \/ CommitSale(h)

Next ==
    \/ \E t \in Tasks : TaskStep(t)
    \/ \E h \in Sellers : SaleStep(h) \/ \E o \in Orders : Sell(h, o)
    \/ \E k \in Keys : Dismiss(k)
    \/ \E x \in Parties : Crash(x) \/ BreakDeadlock(x)
    \/ Tick

\* The beat does not stop, transactions go on, PostgreSQL hands a row lock to
\* those who queue for it, and a device that is offline now accepts a push some
\* day if pushes are tried again and again.
Fairness ==
    /\ \A t \in Tasks : WF_vars(TaskStep(t)) /\ SF_vars(PushAccepted(t))
    /\ \A h \in Sellers : WF_vars(SaleStep(h))
    /\ \A t \in Tasks : SF_vars(LockAlert(t))
    /\ \A h \in Sellers : SF_vars(LockBatch(h) \/ LockAlert(h))
    /\ WF_vars(\E x \in Parties : BreakDeadlock(x))

Spec == Init /\ [][Next]_vars /\ Fairness
-----------------------------------------------------------------------------
\* An alert that the vendor dismissed or a sale made moot never comes back, no
\* alert disappears, and the mark of a push stays.  (The mark keeps an alert out of
\* later lists; a task that has listed it already pushes it once more.)
AlertsOnlyAge ==
    [][\A k \in Keys : alert[k] # None =>
          /\ alert'[k] # None
          /\ alert[k].resolved => alert'[k].resolved
          /\ alert[k].sent => alert'[k].sent]_alert

\* A sale that sells a batch out while the evaluation has just read its old
\* stock may leave a warning, but a later evaluation clears it for good.
SoldOutGrowsQuiet ==
    \A b \in Batches :
        stock[b] = 0 ~> [](\A e \in Aging : ~Open(<<b, e>>))

\* More than a remnant of b is left and the deadline is near or over.
Endangered(b, deadline) ==
    stock[b] > 0 /\ 100 * stock[b] >= MinPart * Received[b] /\ deadline <= now + Lead

\* README of packages/ml: each task evaluates unsold batch deadlines and
\* creates the warnings.  A batch in danger of spoiling gets that warning, one
\* about to lose its freshness gets one of the two, unless it is sold first.
DueBatchWarned ==
    \A b \in Batches :
        /\ Endangered(b, MediumUntil[b]) ~>
              alert[<<b, Spoil>>] # None \/ ~Endangered(b, MediumUntil[b])
        /\ b \in IntakeFresh /\ Endangered(b, FreshUntil[b]) ~>
              (\E e \in Aging : alert[<<b, e>>] # None) \/ ~Endangered(b, FreshUntil[b])

\* FR-S-013: every alert is pushed, unless it is resolved before, whatever
\* crashed between a push and its mark.
AlertPushed == \A k \in Keys : k \in Unsent ~> k \notin Unsent

\* A sale ends although it waits for alerts and batches that an evaluation has locked
\* while the evaluation waits for the batches the sale has locked.
SaleEnds == \A h \in Sellers : pc[h] \in {"lock", "line"} ~> pc[h] = "done"
=============================================================================
