------------------------------- MODULE Sales -------------------------------
(***************************************************************************)
(* POST /api/v1/sales: SalesService.create run inside tenant_transaction,  *)
(* for the requests of one tenant.                                         *)
(*                                                                         *)
(* Every request is a handler that executes the SQL statements of the      *)
(* service one at a time in a READ COMMITTED transaction.  What a handler  *)
(* has written stays in its own variables (seen, itemQty, newLow, cleared) *)
(* until Commit; advisory and row locks live until the transaction ends.   *)
(* Each statement evaluates the row-level-security policies anew, so when  *)
(* the member's access is revoked between two statements a select finds    *)
(* nothing, an update changes no row and an insert raises an error.        *)
(***************************************************************************)
EXTENDS Integers, Sequences, FiniteSetsExt

CONSTANTS
    Handlers,   \* HTTP requests being served
    Keys,       \* idempotency keys of the tenant
    Batches,    \* batches of the tenant; their order is the order of the ids
    Products,
    ProductOf,  \* product of each batch
    Received,   \* quantity_remaining of each batch at the start
    Threshold,  \* low_stock_threshold of each product
    Requests,   \* what clients may post: [key, source, lines]
    None

Line == [product : Products, batch : Nat, qty : Nat \ {0}]

ASSUME SalesAssumption ==
    /\ Batches \subseteq Nat
    /\ ProductOf \in [Batches -> Products]
    /\ Received \in [Batches -> Nat]
    /\ Threshold \in [Products -> Nat]
    /\ IsFiniteSet(Keys)
    /\ None \notin Handlers
    /\ None \notin Requests
    /\ \A r \in Requests : r.key \in Keys /\ r.lines \in Seq(Line) /\ r.lines # <<>>

VARIABLES
    access,     \* current_vendor_has_access() for the member
    stock,      \* committed batches.quantity_remaining
    sales,      \* committed sale of each key: the request it recorded
    sold,       \* total quantity of the committed sale_items of each batch
    low,        \* severity of the committed low_stock alert of each batch
    aging,      \* batches with an unresolved lifecycle alert
    advisory,   \* holder of the advisory lock of each key
    rowLock,    \* holder of the row lock of each batch
    pc,         \* the next statement of each handler
    req,        \* the request each handler serves
    remaining,  \* the service's dict of quantities left while it validates
    plan,       \* quantity left after each validated line
    done,       \* number of lines whose sale_item is inserted
    seen,       \* the handler's own version of the rows it locked
    itemQty,    \* quantity of each batch in the sale_items it inserted
    newLow,     \* low_stock alerts it inserted
    cleared,    \* batches whose lifecycle alerts it resolved
    reply       \* what the client is told

tables == <<stock, sales, sold, low, aging>>
locks  == <<advisory, rowLock>>
writes == <<seen, itemQty, newLow, cleared>>
locals == <<remaining, plan, done>>
vars   == <<access, tables, locks, pc, req, locals, writes, reply>>

Severity == {"none", "warning", "critical"}
Status   == {"none", "created", "replayed", "conflict", "invalid", "forbidden", "error"}
Steps    == {"advisory", "load", "items", "lock", "validate", "insert",
             "item", "update", "alert", "resolve", "commit"}

Lines(h)  == req[h].lines
Needed(h) == {Lines(h)[i].batch : i \in DOMAIN Lines(h)}

\* The line a writing handler is at: its sale_item is inserted first.
Current(h) == Lines(h)[done[h]]

NoReply == [status |-> "none", left |-> <<>>]

TypeOK ==
    /\ access \in BOOLEAN
    /\ stock \in [Batches -> Nat]
    /\ sales \in [Keys -> Requests \union {None}]
    /\ sold \in [Batches -> Nat]
    /\ low \in [Batches -> Severity]
    /\ aging \subseteq Batches
    /\ advisory \in [Keys -> Handlers \union {None}]
    /\ rowLock \in [Batches -> Handlers \union {None}]
    /\ pc \in [Handlers -> Steps \union {"idle", "done"}]
    /\ req \in [Handlers -> Requests \union {None}]
    /\ remaining \in [Handlers -> [Batches -> Nat]]
    /\ plan \in [Handlers -> Seq(Nat)]
    /\ done \in [Handlers -> Nat]
    /\ seen \in [Handlers -> [Batches -> Nat]]
    /\ itemQty \in [Handlers -> [Batches -> Nat]]
    /\ newLow \in [Handlers -> [Batches -> Severity]]
    /\ cleared \in [Handlers -> SUBSET Batches]
    /\ reply \in [Handlers -> [status : Status, left : Seq(Nat)]]

Init ==
    /\ access = TRUE
    /\ stock = Received
    /\ sales = [k \in Keys |-> None]
    /\ sold = [b \in Batches |-> 0]
    /\ low = [b \in Batches |-> "none"]
    /\ aging \in SUBSET Batches
    /\ advisory = [k \in Keys |-> None]
    /\ rowLock = [b \in Batches |-> None]
    /\ pc = [h \in Handlers |-> "idle"]
    /\ req = [h \in Handlers |-> None]
    /\ remaining = [h \in Handlers |-> [b \in Batches |-> 0]]
    /\ plan = [h \in Handlers |-> <<>>]
    /\ done = [h \in Handlers |-> 0]
    /\ seen = [h \in Handlers |-> [b \in Batches |-> 0]]
    /\ itemQty = [h \in Handlers |-> [b \in Batches |-> 0]]
    /\ newLow = [h \in Handlers |-> [b \in Batches |-> "none"]]
    /\ cleared = [h \in Handlers |-> {}]
    /\ reply = [h \in Handlers |-> NoReply]

-----------------------------------------------------------------------------
Goto(h, step) == pc' = [pc EXCEPT ![h] = step]

\* Mutant of Finish: the row locks outlive the transaction.
FinishKeepingRows(h, status, left) ==
    /\ Goto(h, "done")
    /\ reply' = [reply EXCEPT ![h] = [status |-> status, left |-> left]]
    /\ advisory' = [k \in Keys |-> IF advisory[k] = h THEN None ELSE advisory[k]]
    /\ UNCHANGED rowLock

\* The end of the transaction, by commit or rollback, releases every lock.
Finish(h, status, left) ==
    /\ Goto(h, "done")
    /\ reply' = [reply EXCEPT ![h] = [status |-> status, left |-> left]]
    /\ advisory' = [k \in Keys |-> IF advisory[k] = h THEN None ELSE advisory[k]]
    /\ rowLock' = [b \in Batches |-> IF rowLock[b] = h THEN None ELSE rowLock[b]]

\* An exception inside tenant_transaction rolls everything back.
Rollback(h, status) ==
    /\ Finish(h, status, <<>>)
    /\ UNCHANGED <<access, tables, req, locals, writes>>

\* created_at is now(), the same for all the items of one sale, so the query's
\* "order by si.created_at" may return them in any order.
Reorderings(s) ==
    {[i \in DOMAIN s |-> s[p[i]]] :
        p \in {f \in [DOMAIN s -> DOMAIN s] :
                  \A i, j \in DOMAIN s : f[i] = f[j] => i = j}}

\* The loop over the lines: the next line or the end of the transaction.
AfterLine(h) == IF done[h] = Len(Lines(h)) THEN "commit" ELSE "item"

-----------------------------------------------------------------------------
(***************************************************************************)
(* Plausible bugs: mutated statements that the properties must tell apart  *)
(* from the real ones below.  No specification of this module uses them.   *)
(***************************************************************************)

\* The advisory lock is not waited for.
TakeAdvisoryLockUnguarded(h) ==
    /\ pc[h] = "advisory"
    /\ advisory' = [advisory EXCEPT ![req[h].key] = h]
    /\ Goto(h, "load")
    /\ UNCHANGED <<access, tables, rowLock, req, locals, writes, reply>>

\* The select lacks "for update": it neither waits nor locks out the others.
LockBatchShared(h) ==
    /\ pc[h] = "lock"
    /\ LET missing == {b \in Needed(h) : b \notin Batches \/ rowLock[b] # h} IN
       \E b \in missing :
         /\ \A c \in missing : b <= c
         /\ IF ~access \/ b \notin Batches
            THEN Rollback(h, "invalid")
            ELSE /\ rowLock' = [rowLock EXCEPT ![b] = h]
                 /\ remaining' = [remaining EXCEPT ![h][b] = stock[b]]
                 /\ seen' = [seen EXCEPT ![h][b] = stock[b]]
                 /\ Goto(h, IF missing = {b} THEN "validate" ELSE "lock")
                 /\ UNCHANGED <<access, tables, advisory, req, plan, done,
                                itemQty, newLow, cleared, reply>>

\* The batch ids are not sorted.
LockBatchUnsorted(h) ==
    /\ pc[h] = "lock"
    /\ LET missing == {b \in Needed(h) : b \notin Batches \/ rowLock[b] # h} IN
       \E b \in missing :
         IF ~access \/ b \notin Batches
         THEN Rollback(h, "invalid")
         ELSE /\ rowLock[b] = None
              /\ rowLock' = [rowLock EXCEPT ![b] = h]
              /\ remaining' = [remaining EXCEPT ![h][b] = stock[b]]
              /\ seen' = [seen EXCEPT ![h][b] = stock[b]]
              /\ Goto(h, IF missing = {b} THEN "validate" ELSE "lock")
              /\ UNCHANGED <<access, tables, advisory, req, plan, done,
                             itemQty, newLow, cleared, reply>>

\* Each line is checked against the stock alone, not against what the earlier
\* lines of the request leave.
ValidateLineAlone(h) ==
    /\ pc[h] = "validate"
    /\ LET line == Lines(h)[Len(plan[h]) + 1]
           left == remaining[h][line.batch] - line.qty
       IN IF ProductOf[line.batch] # line.product \/ left < 0
          THEN Rollback(h, "invalid")
          ELSE /\ plan' = [plan EXCEPT ![h] = Append(@, left)]
               /\ Goto(h, IF Len(plan[h]) + 1 = Len(Lines(h)) THEN "insert" ELSE "validate")
               /\ UNCHANGED <<access, tables, locks, req, remaining, done, writes, reply>>

\* The stock is not checked.
ValidateLineUnchecked(h) ==
    /\ pc[h] = "validate"
    /\ LET line == Lines(h)[Len(plan[h]) + 1]
           left == remaining[h][line.batch] - line.qty
       IN IF ProductOf[line.batch] # line.product
          THEN Rollback(h, "invalid")
          ELSE /\ remaining' = [remaining EXCEPT ![h][line.batch] = left]
               /\ plan' = [plan EXCEPT ![h] = Append(@, left)]
               /\ Goto(h, IF Len(plan[h]) + 1 = Len(Lines(h)) THEN "insert" ELSE "validate")
               /\ UNCHANGED <<access, tables, locks, req, done, writes, reply>>

\* An insert "on conflict do update" in place of a plain insert.
InsertSaleUpsert(h) ==
    /\ pc[h] = "insert"
    /\ IF access
       THEN Goto(h, "item") /\ UNCHANGED <<access, tables, locks, req, locals, writes, reply>>
       ELSE Rollback(h, "error")

\* A refused insert adds no row but does not raise.
InsertItemUnraised(h) ==
    /\ pc[h] = "item"
    /\ LET line == Lines(h)[done[h] + 1] IN
       /\ done' = [done EXCEPT ![h] = @ + 1]
       /\ itemQty' = IF access
                     THEN [itemQty EXCEPT ![h][line.batch] = @ + line.qty]
                     ELSE itemQty
    /\ Goto(h, "update")
    /\ UNCHANGED <<access, tables, locks, req, remaining, plan,
                   seen, newLow, cleared, reply>>

\* The threshold itself counts as enough stock.
EvaluateAlertsBelow(h) ==
    /\ pc[h] = "alert"
    /\ LET b    == Current(h).batch
           left == plan[h][done[h]]
       IN /\ newLow' = IF left < Threshold[ProductOf[b]] /\ low[b] = "none"
                       THEN [newLow EXCEPT ![h][b] = "warning"]
                       ELSE newLow
          /\ Goto(h, IF left = 0 THEN "resolve" ELSE AfterLine(h))
    /\ UNCHANGED <<access, tables, locks, req, locals, seen, itemQty, cleared, reply>>

-----------------------------------------------------------------------------
\* tenant_transaction: begin, set the context, check access.
Begin(h, r) ==
    /\ pc[h] = "idle"
    /\ req' = [req EXCEPT ![h] = r]
    /\ IF access
       THEN Goto(h, "advisory") /\ UNCHANGED reply
       ELSE /\ Goto(h, "done")
            /\ reply' = [reply EXCEPT ![h] = [status |-> "forbidden", left |-> <<>>]]
    /\ UNCHANGED <<access, tables, locks, locals, writes>>

\* select pg_advisory_xact_lock(tenant:key); waits while another holds it.
TakeAdvisoryLock(h) ==
    /\ pc[h] = "advisory"
    /\ advisory[req[h].key] = None
    /\ advisory' = [advisory EXCEPT ![req[h].key] = h]
    /\ Goto(h, "load")
    /\ UNCHANGED <<access, tables, rowLock, req, locals, writes, reply>>

\* _load_by_idempotency_key, first query.
LoadSale(h) ==
    /\ pc[h] = "load"
    /\ Goto(h, IF access /\ sales[req[h].key] # None THEN "items" ELSE "lock")
    /\ UNCHANGED <<access, tables, locks, req, locals, writes, reply>>

\* _load_by_idempotency_key, second query, and _payload_matches.  The rows
\* carry the quantity_remaining that the batches have now.
LoadItems(h) ==
    /\ pc[h] = "items"
    /\ \E rows \in IF access THEN Reorderings(sales[req[h].key].lines) ELSE {<<>>} :
         IF sales[req[h].key].source = req[h].source /\ rows = Lines(h)
         THEN Finish(h, "replayed", [i \in DOMAIN rows |-> stock[rows[i].batch]])
         ELSE Finish(h, "conflict", <<>>)
    /\ UNCHANGED <<access, tables, req, locals, writes>>

\* _lock_batches: select ... for update, in the order of the batch ids.  The
\* row returned is the latest committed version, read after any wait.
LockBatch(h) ==
    /\ pc[h] = "lock"
    /\ LET missing == {b \in Needed(h) : b \notin Batches \/ rowLock[b] # h} IN
       \E b \in missing :
         /\ \A c \in missing : b <= c
         /\ IF ~access \/ b \notin Batches
            THEN Rollback(h, "invalid")
            ELSE /\ rowLock[b] = None
                 /\ rowLock' = [rowLock EXCEPT ![b] = h]
                 /\ remaining' = [remaining EXCEPT ![h][b] = stock[b]]
                 /\ seen' = [seen EXCEPT ![h][b] = stock[b]]
                 /\ Goto(h, IF missing = {b} THEN "validate" ELSE "lock")
                 /\ UNCHANGED <<access, tables, advisory, req, plan, done,
                                itemQty, newLow, cleared, reply>>

\* One turn of the loop that checks the product and the stock of each line.
ValidateLine(h) ==
    /\ pc[h] = "validate"
    /\ LET line == Lines(h)[Len(plan[h]) + 1]
           left == remaining[h][line.batch] - line.qty
       IN IF ProductOf[line.batch] # line.product \/ left < 0
          THEN Rollback(h, "invalid")
          ELSE /\ remaining' = [remaining EXCEPT ![h][line.batch] = left]
               /\ plan' = [plan EXCEPT ![h] = Append(@, left)]
               /\ Goto(h, IF Len(plan[h]) + 1 = Len(Lines(h)) THEN "insert" ELSE "validate")
               /\ UNCHANGED <<access, tables, locks, req, done, writes, reply>>

\* _insert_sale.  A unique violation aborts the transaction, so the handler's
\* attempt to load the raced sale fails as well and the request ends in a 500.
InsertSale(h) ==
    /\ pc[h] = "insert"
    /\ IF access /\ sales[req[h].key] = None
       THEN Goto(h, "item") /\ UNCHANGED <<access, tables, locks, req, locals, writes, reply>>
       ELSE Rollback(h, "error")

InsertItem(h) ==
    /\ pc[h] = "item"
    /\ LET line == Lines(h)[done[h] + 1] IN
       IF access
       THEN /\ done' = [done EXCEPT ![h] = @ + 1]
            /\ itemQty' = [itemQty EXCEPT ![h][line.batch] = @ + line.qty]
            /\ Goto(h, "update")
            /\ UNCHANGED <<access, tables, locks, req, remaining, plan,
                           seen, newLow, cleared, reply>>
       ELSE Rollback(h, "error")

\* update batches set quantity_remaining: the number of rows is not looked at.
UpdateStock(h) ==
    /\ pc[h] = "update"
    /\ seen' = IF access
               THEN [seen EXCEPT ![h][Current(h).batch] = plan[h][done[h]]]
               ELSE seen
    /\ Goto(h, "alert")
    /\ UNCHANGED <<access, tables, locks, req, locals, itemQty, newLow, cleared, reply>>

\* _evaluate_alerts and _insert_alert_once.
EvaluateAlerts(h) ==
    /\ pc[h] = "alert"
    /\ LET b    == Current(h).batch
           left == plan[h][done[h]]
           step == IF left = 0 THEN "resolve" ELSE AfterLine(h)
       IN IF left > Threshold[ProductOf[b]]
          THEN Goto(h, step) /\ UNCHANGED <<access, tables, locks, req, locals, writes, reply>>
          ELSE IF access
          THEN /\ newLow' = IF low[b] = "none" /\ newLow[h][b] = "none"
                            THEN [newLow EXCEPT ![h][b] =
                                    IF left = 0 THEN "critical" ELSE "warning"]
                            ELSE newLow
               /\ Goto(h, step)
               /\ UNCHANGED <<access, tables, locks, req, locals, seen, itemQty, cleared, reply>>
          ELSE Rollback(h, "error")

\* A batch that is sold out needs no lifecycle warning any more.
ResolveAging(h) ==
    /\ pc[h] = "resolve"
    /\ cleared' = IF access
                  THEN [cleared EXCEPT ![h] = @ \union {Current(h).batch}]
                  ELSE cleared
    /\ Goto(h, AfterLine(h))
    /\ UNCHANGED <<access, tables, locks, req, locals, seen, itemQty, newLow, reply>>

\* The dependency's exit commits after the handler has returned.
Commit(h) ==
    /\ pc[h] = "commit"
    /\ sales' = [sales EXCEPT ![req[h].key] = req[h]]
    /\ stock' = [b \in Batches |-> IF rowLock[b] = h THEN seen[h][b] ELSE stock[b]]
    /\ sold' = [b \in Batches |-> sold[b] + itemQty[h][b]]
    /\ low' = [b \in Batches |-> IF newLow[h][b] = "none" THEN low[b] ELSE newLow[h][b]]
    /\ aging' = aging \ cleared[h]
    /\ Finish(h, "created", plan[h])
    /\ UNCHANGED <<access, req, locals, writes>>

\* The API process, the connection or the database fails: PostgreSQL rolls back.
Abort(h) ==
    /\ pc[h] \in Steps
    /\ Rollback(h, "error")

\* A platform admin changes the status of the tenant or of the member.
SetAccess ==
    /\ access' = ~access
    /\ UNCHANGED <<tables, locks, pc, req, locals, writes, reply>>

\* Every request has been answered.
Quiet ==
    /\ \A h \in Handlers : pc[h] = "done"
    /\ UNCHANGED vars

Statement(h) ==
    \/ TakeAdvisoryLock(h)
    \/ LoadSale(h)
    \/ LoadItems(h)
    \/ LockBatch(h)
    \/ ValidateLine(h)
    \/ InsertSale(h)
    \/ InsertItem(h)
    \/ UpdateStock(h)
    \/ EvaluateAlerts(h)
    \/ ResolveAging(h)
    \/ Commit(h)

SteadyNext ==
    \/ \E h \in Handlers :
         \/ \E r \in Requests : Begin(h, r)
         \/ Statement(h)
         \/ Abort(h)
    \/ Quiet

Next == SteadyNext \/ SetAccess

\* While nobody's access changes.
SteadySpec == Init /\ [][SteadyNext]_vars

Spec == Init /\ [][Next]_vars

\* The server keeps executing the statements of a request it accepted; a lock is
\* granted in the end because PostgreSQL queues its waiters.
FairSpec == Spec /\ \A h \in Handlers : WF_vars(Statement(h))
-----------------------------------------------------------------------------
\* Does h wait for a lock that g holds?
WaitsFor(h, g) ==
    /\ g # h
    /\ \/ pc[h] = "advisory" /\ advisory[req[h].key] = g
       \/ /\ pc[h] = "lock"
          /\ \E b \in Needed(h) \intersect Batches :
               /\ rowLock[b] = g
               /\ \A c \in Needed(h) : c < b => c \in Batches /\ rowLock[c] = h

\* While access is steady, what is left of a batch and what the recorded sale
\* items took from it add up to what was received, whatever interleaving of
\* concurrent sales, retries and rollbacks led there.
Conserved == \A b \in Batches : stock[b] + sold[b] = Received[b]

\* Even when access comes and goes, stock is never deducted without a recorded
\* sale item: the books can only err on the side of too much stock.
NoUnrecordedDeduction == \A b \in Batches : stock[b] + sold[b] >= Received[b]

\* The advisory lock makes the unique violation of _insert_sale unreachable: a
\* handler past its lookup is the only one that can record its key.
KeyStillFree ==
    \A h \in Handlers :
        pc[h] \in Steps \ {"advisory", "load", "items"} => sales[req[h].key] = None

\* Locks are taken key first and then by batch id, so no set of handlers ever
\* waits in a circle.
NoWaitCycle ==
    \A S \in (SUBSET Handlers) \ {{}} : \E h \in S : \A g \in S : ~WaitsFor(h, g)

\* A row is locked only by a transaction that is running, so no failure path
\* of the service leaves a batch blocked.
LocksBelongToRunning ==
    /\ \A b \in Batches : rowLock[b] # None => pc[rowLock[b]] \in Steps
    /\ \A k \in Keys : advisory[k] # None => pc[advisory[k]] \in Steps

\* Every batch that a sale left at or below the product's threshold has its
\* low_stock alert, committed together with the deduction.
LowStockWarned ==
    \A b \in Batches :
        stock[b] < Received[b] /\ stock[b] <= Threshold[ProductOf[b]] => low[b] # "none"

\* No step gives stock back and no step rewrites a recorded sale, whatever
\* happens to access between two statements.
OnlySalesDeduct ==
    [][/\ \A b \in Batches : stock'[b] <= stock[b]
       /\ \A k \in Keys : sales[k] # None => sales'[k] = sales[k]]_tables

\* Every accepted request is answered: each waits only for locks whose holders
\* finish.
EveryRequestAnswered == \A h \in Handlers : pc[h] \in Steps ~> pc[h] = "done"

Ledger == INSTANCE SaleLedger WITH stock <- stock, sales <- sales

\* The committed tables move exactly as the abstract ledger does: each key
\* deducts its lines once, in one step, and only when the stock covers them.
ImplementsLedger == Ledger!Spec

\* What all the recorded sales take from a batch.
TakenBy(recorded, b) ==
    MapThenSumSet(LAMBDA k : IF recorded[k] = None THEN 0
                             ELSE Ledger!Demand(recorded[k], b), Keys)

\* The committed sale_items are those of the recorded sales, all their lines
\* and no others, even when access is revoked in the middle of a sale.
ItemsAreWholeSales == \A b \in Batches : sold[b] = TakenBy(sales, b)
=============================================================================
