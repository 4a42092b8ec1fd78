------------------------ MODULE AlertLifecycleProofs ------------------------
(***************************************************************************)
(* What overlapping evaluations, sales and dismissals cannot do to an      *)
(* alert, for any numbers of workers, requests and batches.                *)
(***************************************************************************)
EXTENDS AlertLifecycle, TLAPS

\* What a transaction has found there is still there, and what it has inserted is not
\* there for anybody else.
Statements(x) ==
    /\ \A k \in targets[x] \union resolves[x] : alert[k] # None
    /\ \A k \in inserts[x] : alert[k] = None

\* A task inserts warnings only, and pushes and marks alerts that exist.
Evaluates(t) ==
    /\ todo[t] \union inserts[t] \subseteq Batches \X Aging
    /\ \A k \in pending[t] : alert[k] # None
    /\ pc[t] = "mark" => pushed[t] \in Keys /\ alert[pushed[t]] # None

\* A sale that deducts has locked the batches of its lines, and inserts low_stock
\* alerts of those.
Sells(h) ==
    /\ pc[h] = "line" => \A i \in DOMAIN order[h] : left[h][order[h][i].batch] # None
    /\ \A k \in inserts[h] : k[2] = Low /\ left[h][k[1]] # None

\* The row lock of a batch has one holder.
BatchesApart ==
    \A g, h \in Sellers : \A b \in Batches :
        left[g][b] # None /\ left[h][b] # None => g = h

\* The unique index: no two transactions have inserted an alert of one batch and event.
InsertsApart ==
    \A x, y \in Parties : x # y => inserts[x] \intersect inserts[y] = {}

AlertInv ==
    /\ TypeOK
    /\ \A x \in Parties : Statements(x)
    /\ \A t \in Tasks : Evaluates(t)
    /\ \A h \in Sellers : Sells(h)
    /\ BatchesApart /\ InsertsApart
-----------------------------------------------------------------------------
\* What a step of others leaves of a party's variables.
TransactionKept(y) ==
    /\ targets'[y] = targets[y] /\ resolves'[y] = resolves[y] /\ inserts'[y] = inserts[y]
    /\ pc'[y] = pc[y]
    /\ y \in Tasks => todo'[y] = todo[y] /\ pending'[y] = pending[y] /\ pushed'[y] = pushed[y]
    /\ y \in Sellers => order'[y] = order[y] /\ left'[y] = left[y]

LEMMA PartyMoves ==
    ASSUME AlertInv, TypeOK', NEW x \in Parties,
           \A k \in Keys : alert[k] # None => alert'[k] # None,
           \A y \in Parties \ {x} : TransactionKept(y),
           \A y \in Parties \ {x} : \A k \in inserts[y] : alert'[k] = None /\ k \notin inserts'[x],
           Statements(x)', x \in Tasks => Evaluates(x)', x \in Sellers => Sells(x)',
           x \in Sellers => \A g \in Sellers \ {x} : \A b \in Batches :
                                left[g][b] # None => left'[x][b] = None
    PROVE  AlertInv'
  <1>1. ASSUME NEW y \in Parties PROVE Statements(y)'
    <2>1. CASE y = x
      BY <2>1
    <2>2. CASE y # x
      BY <2>2 DEF AlertInv, TypeOK, Statements, TransactionKept
    <2> QED
      BY <2>1, <2>2
  <1>2. ASSUME NEW t \in Tasks PROVE Evaluates(t)'
    <2>1. CASE t = x
      BY <2>1
    <2>2. CASE t # x
      BY <2>2 DEF AlertInv, TypeOK, Evaluates, TransactionKept, Parties
    <2> QED
      BY <2>1, <2>2
  <1>3. ASSUME NEW h \in Sellers PROVE Sells(h)'
    <2>1. CASE h = x
      BY <2>1
    <2>2. CASE h # x
      BY <2>2 DEF AlertInv, Sells, TransactionKept, Parties
    <2> QED
      BY <2>1, <2>2
  <1>4. BatchesApart'
    BY DEF AlertInv, BatchesApart, TransactionKept, Parties
  <1>5. InsertsApart'
    BY DEF AlertInv, InsertsApart, TransactionKept
  <1> QED
    BY <1>1, <1>2, <1>3, <1>4, <1>5 DEF AlertInv

LEMMA InitAlerts == Init => AlertInv
  <1> SUFFICES ASSUME Init PROVE AlertInv
    OBVIOUS
  <1> USE LifecycleAssumption
  <1>1. TypeOK
    BY DEF Init, TypeOK, Steps, Parties, Order
  <1>2. \A x \in Parties : Statements(x)
    BY DEF Init, Statements
  <1>3. \A t \in Tasks : Evaluates(t)
    BY DEF Init, Evaluates, Parties
  <1>4. \A h \in Sellers : Sells(h)
    BY DEF Init, Sells, Parties
  <1>5. BatchesApart /\ InsertsApart
    BY DEF Init, BatchesApart, InsertsApart
  <1> QED
    BY <1>1, <1>2, <1>3, <1>4, <1>5 DEF AlertInv
-----------------------------------------------------------------------------
(* The statements that leave the alerts alone.                               *)

LEMMA LockAlertAlerts ==
    ASSUME AlertInv, NEW x \in Parties, LockAlert(x)
    PROVE  AlertInv'
  <1>1. TypeOK'
    <2>1. PICK k \in targets[x] :
             /\ targets' = [targets EXCEPT ![x] = @ \ {k}]
             /\ \/ UNCHANGED <<lock, resolves>>
                \/ /\ lock' = [lock EXCEPT ![k] = x]
                   /\ resolves' = [resolves EXCEPT ![x] = @ \union {k}]
      BY DEF LockAlert
    <2>2. k \in Keys
      BY DEF AlertInv, TypeOK
    <2>3. targets' \in [Parties -> SUBSET Keys]
      BY <2>1 DEF AlertInv, TypeOK
    <2>4. lock' \in [Keys -> Parties \union {None}]
      BY <2>1, <2>2 DEF AlertInv, TypeOK
    <2>5. resolves' \in [Parties -> SUBSET Keys]
      <3>1. resolves \in [Parties -> SUBSET Keys] /\ resolves[x] \union {k} \in SUBSET Keys
        BY <2>2 DEF AlertInv, TypeOK
      <3>2. resolves' = resolves \/ resolves' = [resolves EXCEPT ![x] = resolves[x] \union {k}]
        BY <2>1
      <3> QED
        BY <3>1, <3>2
    <2> QED
      BY <2>3, <2>4, <2>5 DEF AlertInv, TypeOK, LockAlert, tables, locals, sales
  <1>2. UNCHANGED <<alert, pc, inserts, todo, pending, pushed, order, left>>
    BY DEF LockAlert, tables, locals, sales
  <1>3. \A y \in Parties \ {x} : TransactionKept(y)
    BY <1>2 DEF AlertInv, TypeOK, LockAlert, TransactionKept
  <1>4. Statements(x)'
    BY <1>2 DEF AlertInv, TypeOK, Statements, LockAlert
  <1> QED
    BY <1>1, <1>2, <1>3, <1>4, PartyMoves, LifecycleAssumption
       DEF AlertInv, Evaluates, Sells, Statements, BatchesApart, InsertsApart

\* A step of a task that inserts nothing and starts no statement over alerts.
LEMMA TaskQuiet ==
    ASSUME AlertInv, TypeOK', NEW t \in Tasks,
           UNCHANGED <<alert, targets, resolves, inserts, order, left>>,
           \A y \in Parties \ {t} : pc'[y] = pc[y],
           \A u \in Tasks \ {t} : /\ todo'[u] = todo[u] /\ pending'[u] = pending[u]
                                  /\ pushed'[u] = pushed[u],
           Evaluates(t)'
    PROVE  AlertInv'
  <1>1. t \in Parties /\ t \notin Sellers
    BY LifecycleAssumption DEF Parties
  <1>2. \A y \in Parties \ {t} : TransactionKept(y)
    BY DEF TransactionKept
  <1>3. Statements(t)'
    BY <1>1 DEF AlertInv, Statements
  <1> QED
    BY <1>1, <1>2, <1>3, PartyMoves DEF AlertInv, Statements, InsertsApart

LEMMA BeatAlerts ==
    ASSUME AlertInv, NEW t \in Tasks, Beat(t)
    PROVE  AlertInv'
  <1>1. TypeOK'
    BY DEF AlertInv, TypeOK, Beat, Goto, Steps, Parties, tables, txs, sales
  <1>2. Evaluates(t)'
    BY DEF AlertInv, TypeOK, Evaluates, Beat, Goto, Parties, tables, txs
  <1> QED
    BY <1>1, <1>2, TaskQuiet DEF AlertInv, TypeOK, Parties, Beat, Goto, tables, txs, sales

LEMMA BeginResolveAlerts ==
    ASSUME AlertInv, NEW t \in Tasks, BeginResolve(t)
    PROVE  AlertInv'
  <1>1. t \in Parties /\ t \notin Sellers
    BY LifecycleAssumption DEF Parties
  <1>2. UNCHANGED <<alert, resolves, inserts, todo, pending, pushed, order, left>>
    BY DEF BeginResolve, tables, locals, sales
  <1>3. targets' = [targets EXCEPT ![t] = {k \in Keys : Moot(k)}]
    BY DEF BeginResolve
  <1>4. pc' = [pc EXCEPT ![t] = "resolve"]
    BY DEF BeginResolve, Goto
  <1>5. TypeOK'
    BY <1>1, <1>3, <1>4 DEF AlertInv, TypeOK, BeginResolve, Steps, tables, locals, sales
  <1>6. \A y \in Parties \ {t} : TransactionKept(y)
    BY <1>1, <1>2, <1>3, <1>4 DEF AlertInv, TypeOK, TransactionKept
  <1>7. Statements(t)'
    BY <1>1, <1>2, <1>3 DEF AlertInv, TypeOK, Statements, Moot, Open
  <1>8. Evaluates(t)'
    BY <1>1, <1>2, <1>4 DEF AlertInv, TypeOK, Evaluates
  <1> QED
    BY <1>1, <1>2, <1>5, <1>6, <1>7, <1>8, PartyMoves DEF AlertInv, Statements, InsertsApart

\* A transaction that ends without effect.
LEMMA EndAlerts ==
    ASSUME AlertInv, TypeOK', NEW x \in Parties, End(x), UNCHANGED alert,
           \A y \in Parties \ {x} : pc'[y] = pc[y],
           \A u \in Tasks \ {x} : /\ todo'[u] = todo[u] /\ pending'[u] = pending[u]
                                  /\ pushed'[u] = pushed[u],
           \A g \in Sellers \ {x} : order'[g] = order[g] /\ left'[g] = left[g],
           x \in Tasks => /\ todo'[x] \subseteq todo[x] /\ pending'[x] \subseteq pending[x]
                          /\ pc'[x] # "mark",
           x \in Sellers => order'[x] = <<>> /\ \A b \in Batches : left'[x][b] = None
    PROVE  AlertInv'
  <1>1. \A y \in Parties \ {x} : TransactionKept(y)
    BY DEF AlertInv, TypeOK, End, TransactionKept
  <1>2. targets'[x] = {} /\ resolves'[x] = {} /\ inserts'[x] = {}
    BY DEF AlertInv, TypeOK, End
  <1>3. Statements(x)'
    BY <1>2 DEF Statements
  <1>4. x \in Tasks => Evaluates(x)'
    BY <1>2 DEF AlertInv, TypeOK, Evaluates
  <1>5. x \in Sellers => Sells(x)'
    BY <1>2 DEF Sells
  <1> QED
    BY <1>1, <1>2, <1>3, <1>4, <1>5, PartyMoves DEF AlertInv, Statements

LEMMA OrderLines ==
    ASSUME NEW o \in Order, NEW i \in DOMAIN o
    PROVE  o[i].batch \in Batches /\ o[i].qty \in Nat
  <1> DEFINE Ordered == [batch : Batches, qty : Nat \ {0}]
  <1>1. o \in Seq(Ordered)
    BY DEF Order
  <1> HIDE DEF Ordered
  <1>2. o[i] \in Ordered
    BY <1>1
  <1> QED
    BY <1>2 DEF Ordered

LEMMA DueKeys == \A clock : Due(clock) \subseteq Batches \X Aging
  BY DEF Due

LEMMA WarningKeys == Batches \X Aging \subseteq Keys
  BY DEF Keys

LEMMA EndTypes ==
    ASSUME TypeOK, NEW x \in Parties, End(x)
    PROVE  /\ lock' \in [Keys -> Parties \union {None}]
           /\ targets' \in [Parties -> SUBSET Keys]
           /\ resolves' \in [Parties -> SUBSET Keys]
           /\ inserts' \in [Parties -> SUBSET Keys]
  BY DEF TypeOK, End

LEMMA SelectDueAlerts ==
    ASSUME AlertInv, NEW t \in Tasks, SelectDue(t)
    PROVE  AlertInv'
  <1>1. t \in Parties /\ t \notin Sellers
    BY LifecycleAssumption DEF Parties
  <1>2. UNCHANGED <<now, tables, pending, pushed, sales, crashes>>
        /\ started' = [started EXCEPT ![t] = 0]
    BY DEF SelectDue
  <1>3. started' \in [Tasks -> 0 .. Horizon]
    BY <1>2, LifecycleAssumption DEF AlertInv, TypeOK
  <1>4. CASE TenantColumn
    <2>1. /\ todo' = [todo EXCEPT ![t] = Due(started[t])]
          /\ pc' = [pc EXCEPT ![t] = "insert"]
          /\ UNCHANGED <<lock, txs>>
      BY <1>4 DEF SelectDue, Goto
    <2>2. TypeOK'
      BY <1>1, <1>2, <1>3, <2>1, DueKeys, WarningKeys
         DEF AlertInv, TypeOK, Steps, tables, txs, sales
    <2>3. Evaluates(t)'
      BY <1>1, <1>2, <2>1, DueKeys DEF AlertInv, TypeOK, Evaluates, tables, txs
    <2> QED
      BY <1>1, <1>2, <2>1, <2>2, <2>3, TaskQuiet DEF AlertInv, TypeOK, tables, txs, sales
  <1>5. CASE ~TenantColumn
    <2>1. End(t) /\ pc' = [pc EXCEPT ![t] = "idle"] /\ UNCHANGED todo
      BY <1>5 DEF SelectDue, Goto
    <2>2. TypeOK'
      BY <1>1, <1>2, <1>3, <2>1, EndTypes DEF AlertInv, TypeOK, Steps, tables, sales
    <2> QED
      BY <1>1, <1>2, <2>1, <2>2, EndAlerts DEF AlertInv, TypeOK, tables, sales
  <1> QED
    BY <1>4, <1>5

LEMMA InsertWarningAlerts ==
    ASSUME AlertInv, NEW t \in Tasks, InsertWarning(t)
    PROVE  AlertInv'
  <1>1. t \in Parties /\ t \notin Sellers
    BY LifecycleAssumption DEF Parties
  <1>2. PICK k \in Keys :
           /\ k \in todo[t] /\ \A u \in Parties \ {t} : k \notin inserts[u]
           /\ todo' = [todo EXCEPT ![t] = @ \ {k}] \/ todo' = todo
           /\ inserts' = IF alert[k] = None THEN [inserts EXCEPT ![t] = @ \union {k}] ELSE inserts
    BY DEF InsertWarning, NextWarning
  <1>3. UNCHANGED <<now, tables, lock, pc, targets, resolves, started, pending, pushed,
                    sales, crashes>>
    BY DEF InsertWarning
  <1>4. inserts'[t] \subseteq inserts[t] \union {k}
        /\ \A y \in Parties \ {t} : inserts'[y] = inserts[y]
    BY <1>2 DEF AlertInv, TypeOK
  <1>5. TypeOK'
    <2>1. todo' \in [Tasks -> SUBSET Keys] /\ inserts' \in [Parties -> SUBSET Keys]
      BY <1>1, <1>2 DEF AlertInv, TypeOK
    <2> QED
      BY <1>3, <2>1 DEF AlertInv, TypeOK, tables, sales
  <1>6. \A y \in Parties \ {t} : TransactionKept(y)
    BY <1>2, <1>3, <1>4 DEF AlertInv, TypeOK, TransactionKept, sales
  <1>7. Statements(t)'
    BY <1>1, <1>2, <1>3 DEF AlertInv, TypeOK, Statements, tables
  <1>8. Evaluates(t)'
    BY <1>1, <1>2, <1>3, <1>4 DEF AlertInv, TypeOK, Evaluates, tables
  <1> QED
    BY <1>1, <1>2, <1>3, <1>4, <1>5, <1>6, <1>7, <1>8, PartyMoves
       DEF AlertInv, Statements, InsertsApart, tables

LEMMA CheckBatchAlerts ==
    ASSUME AlertInv, NEW t \in Tasks, CheckBatch(t)
    PROVE  AlertInv'
  <1>1. PICK k \in inserts[t] : todo' = [todo EXCEPT ![t] = @ \ {k}]
    BY DEF CheckBatch
  <1>2. UNCHANGED <<now, tables, lock, pc, txs, started, pending, pushed, sales, crashes>>
    BY DEF CheckBatch
  <1>3. TypeOK'
    BY <1>1, <1>2 DEF AlertInv, TypeOK, tables, txs, sales
  <1>4. Evaluates(t)'
    BY <1>1, <1>2 DEF AlertInv, TypeOK, Evaluates, tables, txs
  <1> QED
    BY <1>1, <1>2, <1>3, <1>4, TaskQuiet DEF AlertInv, TypeOK, tables, txs, sales

LEMMA ListPendingAlerts ==
    ASSUME AlertInv, NEW t \in Tasks, ListPending(t)
    PROVE  AlertInv'
  <1>1. t \in Parties
    BY DEF Parties
  <1>2. Unsent \subseteq Keys /\ \A k \in Unsent : alert[k] # None
    BY DEF Unsent, Open
  <1>3. /\ pending' = [pending EXCEPT ![t] = Unsent] /\ pc' = [pc EXCEPT ![t] = "push"]
        /\ UNCHANGED <<now, tables, lock, txs, started, todo, pushed, sales, crashes>>
    BY DEF ListPending, Goto
  <1>4. TypeOK'
    BY <1>1, <1>2, <1>3 DEF AlertInv, TypeOK, Steps, tables, txs, sales
  <1>5. Evaluates(t)'
    BY <1>1, <1>2, <1>3 DEF AlertInv, TypeOK, Evaluates, tables, txs
  <1> QED
    BY <1>1, <1>3, <1>4, <1>5, TaskQuiet DEF AlertInv, TypeOK, tables, txs, sales

LEMMA PushAcceptedAlerts ==
    ASSUME AlertInv, NEW t \in Tasks, PushAccepted(t)
    PROVE  AlertInv'
  <1>1. t \in Parties
    BY DEF Parties
  <1>2. PICK k \in pending[t] :
           pending' = [pending EXCEPT ![t] = @ \ {k}] /\ pushed' = [pushed EXCEPT ![t] = k]
    BY DEF PushAccepted
  <1>3. k \in Keys /\ alert[k] # None
    BY DEF AlertInv, TypeOK, Evaluates
  <1>4. /\ pc' = [pc EXCEPT ![t] = "mark"]
        /\ UNCHANGED <<now, tables, lock, txs, started, todo, sales, crashes>>
    BY DEF PushAccepted, Goto
  <1>5. TypeOK'
    BY <1>1, <1>2, <1>3, <1>4 DEF AlertInv, TypeOK, Steps, tables, txs, sales
  <1>6. Evaluates(t)'
    BY <1>1, <1>2, <1>3, <1>4 DEF AlertInv, TypeOK, Evaluates, tables, txs
  <1> QED
    BY <1>1, <1>2, <1>4, <1>5, <1>6, TaskQuiet DEF AlertInv, TypeOK, tables, txs, sales

LEMMA PushRefusedAlerts ==
    ASSUME AlertInv, NEW t \in Tasks, PushRefused(t)
    PROVE  AlertInv'
  <1>1. PICK k \in pending[t] : pending' = [pending EXCEPT ![t] = @ \ {k}]
    BY DEF PushRefused
  <1>2. UNCHANGED <<now, tables, lock, pc, txs, started, todo, pushed, sales, crashes>>
    BY DEF PushRefused
  <1>3. TypeOK'
    BY <1>1, <1>2 DEF AlertInv, TypeOK, tables, txs, sales
  <1>4. Evaluates(t)'
    BY <1>1, <1>2 DEF AlertInv, TypeOK, Evaluates, tables, txs
  <1> QED
    BY <1>1, <1>2, <1>3, <1>4, TaskQuiet DEF AlertInv, TypeOK, tables, txs, sales

LEMMA FinishTaskAlerts ==
    ASSUME AlertInv, NEW t \in Tasks, FinishTask(t)
    PROVE  AlertInv'
  <1>1. t \in Parties
    BY DEF Parties
  <1>2. /\ pc' = [pc EXCEPT ![t] = "idle"]
        /\ UNCHANGED <<now, tables, lock, txs, locals, sales, crashes>>
    BY DEF FinishTask, Goto
  <1>3. TypeOK'
    BY <1>1, <1>2 DEF AlertInv, TypeOK, Steps, tables, txs, locals, sales
  <1>4. Evaluates(t)'
    BY <1>1, <1>2 DEF AlertInv, TypeOK, Evaluates, tables, txs, locals
  <1> QED
    BY <1>1, <1>2, <1>3, <1>4, TaskQuiet DEF AlertInv, TypeOK, tables, txs, locals, sales

\* A step of a sale that writes no alert and locks only batches that are free.
LEMMA SaleQuiet ==
    ASSUME AlertInv, TypeOK', NEW h \in Sellers,
           UNCHANGED <<alert, txs, locals>>,
           \A y \in Parties \ {h} : pc'[y] = pc[y],
           \A g \in Sellers \ {h} : order'[g] = order[g] /\ left'[g] = left[g],
           \A b \in Batches : left[h][b] # None => left'[h][b] # None,
           \A g \in Sellers \ {h} : \A b \in Batches : left[g][b] # None => left'[h][b] = None,
           pc'[h] = "line" => \A i \in DOMAIN order'[h] : left'[h][order'[h][i].batch] # None
    PROVE  AlertInv'
  <1>1. h \in Parties /\ h \notin Tasks
    BY LifecycleAssumption DEF Parties
  <1>2. \A y \in Parties \ {h} : TransactionKept(y)
    BY DEF TransactionKept, txs, locals
  <1>3. Statements(h)'
    BY <1>1 DEF AlertInv, Statements, txs
  <1>4. Sells(h)'
    <2>1. \A k \in inserts[h] : k[1] \in Batches
      BY <1>1 DEF AlertInv, TypeOK, Keys
    <2> QED
      BY <2>1 DEF AlertInv, Sells, txs
  <1> QED
    BY <1>1, <1>2, <1>3, <1>4, PartyMoves DEF AlertInv, Statements, InsertsApart, txs

LEMMA SellAlerts ==
    ASSUME AlertInv, NEW h \in Sellers, NEW o \in Orders, Sell(h, o)
    PROVE  AlertInv'
  <1>1. h \in Parties /\ o \in Order
    BY LifecycleAssumption DEF Parties
  <1>2. /\ order' = [order EXCEPT ![h] = o] /\ pc' = [pc EXCEPT ![h] = "lock"]
        /\ UNCHANGED <<now, tables, lock, txs, locals, left, crashes>>
    BY DEF Sell, Goto
  <1>3. TypeOK'
    BY <1>1, <1>2 DEF AlertInv, TypeOK, Steps, tables, txs, locals
  <1> QED
    BY <1>1, <1>2, <1>3, SaleQuiet DEF AlertInv, TypeOK, BatchesApart, tables

\* The lock a sale takes on a batch is exclusive.
LEMMA LockBatchAlerts ==
    ASSUME AlertInv, NEW h \in Sellers, LockBatch(h)
    PROVE  AlertInv'
  <1>1. PICK b \in Batches :
           /\ \A x \in Parties \ {h} : ~Holds(x, b)
           /\ left' = [left EXCEPT ![h][b] = stock[b]]
    BY DEF LockBatch
  <1>2. pc[h] = "lock" /\ UNCHANGED <<now, tables, lock, pc, txs, locals, order, crashes>>
    BY DEF LockBatch
  <1>3. stock[b] \in Nat /\ stock[b] # None
    BY LifecycleAssumption DEF AlertInv, TypeOK
  <1>4. \A g \in Sellers \ {h} : left[g][b] = None
    BY <1>1 DEF Holds, Parties
  <1>5. left[h] \in [Batches -> Nat \union {None}]
    BY DEF AlertInv, TypeOK
  <1>6. /\ left' \in [Sellers -> [Batches -> Nat \union {None}]]
        /\ \A g \in Sellers \ {h} : left'[g] = left[g]
        /\ \A c \in Batches : left'[h][c] = IF c = b THEN stock[b] ELSE left[h][c]
    BY <1>1, <1>3, <1>5 DEF AlertInv, TypeOK
  <1>7. TypeOK'
    BY <1>2, <1>6 DEF AlertInv, TypeOK, tables, txs, locals
  <1>8. \A g \in Sellers \ {h} : \A c \in Batches : left[g][c] # None => left'[h][c] = None
    BY <1>4, <1>6 DEF AlertInv, BatchesApart
  <1>9. \A c \in Batches : left[h][c] # None => left'[h][c] # None
    BY <1>3, <1>6
  <1> QED
    BY <1>2, <1>6, <1>7, <1>8, <1>9, SaleQuiet DEF tables

\* What a covered sale leaves is a natural number.
LEMMA CoverStockAlerts ==
    ASSUME AlertInv, NEW h \in Sellers, CoverStock(h)
    PROVE  AlertInv'
  <1> DEFINE qty(b) == LET i == CHOOSE i \in DOMAIN order[h] : order[h][i].batch = b
                       IN  order[h][i].qty
             sold == BatchesOf(order[h])
  <1>1. h \in Parties /\ order[h] \in Order
    BY DEF Parties, AlertInv, TypeOK
  <1>2. /\ AllLocked(h) /\ Covered(h)
        /\ left' = [left EXCEPT ![h] = [b \in Batches |->
                      IF b \in sold THEN left[h][b] - qty(b) ELSE left[h][b]]]
        /\ pc' = [pc EXCEPT ![h] = "line"]
        /\ UNCHANGED <<now, tables, lock, txs, locals, order, crashes>>
    BY DEF CoverStock, Goto
  <1>3. ASSUME NEW b \in sold
        PROVE  b \in Batches /\ left[h][b] \in Nat /\ left[h][b] - qty(b) \in Nat
    <2>1. \E i \in DOMAIN order[h] : order[h][i].batch = b
      BY DEF BatchesOf
    <2>2. PICK i \in DOMAIN order[h] : order[h][i].batch = b /\ qty(b) = order[h][i].qty
      BY <2>1
    <2>3. b \in Batches /\ qty(b) \in Nat
      BY <1>1, <2>2, OrderLines
    <2>4. left[h][b] # None /\ left[h][b] >= qty(b)
      BY <1>2, <2>2 DEF AllLocked, Covered
    <2>5. left[h][b] \in Nat
      BY <2>3, <2>4 DEF AlertInv, TypeOK
    <2> HIDE DEF qty
    <2> QED
      BY <2>3, <2>4, <2>5
  <1> HIDE DEF qty, sold
  <1>4. /\ left'[h] \in [Batches -> Nat \union {None}]
        /\ \A b \in sold : left'[h][b] # None
        /\ \A b \in Batches \ sold : left'[h][b] = left[h][b]
        /\ \A g \in Sellers \ {h} : left'[g] = left[g]
    BY <1>2, <1>3, LifecycleAssumption DEF AlertInv, TypeOK
  <1>5. left' \in [Sellers -> [Batches -> Nat \union {None}]]
    BY <1>2, <1>4 DEF AlertInv, TypeOK
  <1>6. TypeOK'
    BY <1>1, <1>2, <1>5 DEF AlertInv, TypeOK, Steps, tables, txs, locals
  <1>7. \A i \in DOMAIN order'[h] : left'[h][order'[h][i].batch] # None
    BY <1>2, <1>4 DEF sold, BatchesOf
  <1>8. \A b \in sold : left[h][b] # None
    BY <1>2 DEF sold, AllLocked
  <1>9. \A g \in Sellers \ {h} : \A b \in Batches : left[g][b] # None => left'[h][b] = None
    BY <1>4, <1>8 DEF AlertInv, BatchesApart
  <1>10. \A b \in Batches : left[h][b] # None => left'[h][b] # None
    BY <1>4
  <1> QED
    BY <1>1, <1>2, <1>4, <1>6, <1>7, <1>9, <1>10, SaleQuiet DEF AlertInv, TypeOK, tables

LEMMA DeductLineAlerts ==
    ASSUME AlertInv, NEW h \in Sellers, DeductLine(h)
    PROVE  AlertInv'
  <1> DEFINE b == Head(order[h]).batch
  <1>1. h \in Parties /\ h \notin Tasks
    BY LifecycleAssumption DEF Parties
  <1>2. /\ pc[h] = "line" /\ order[h] # <<>>
        /\ inserts' = IF left[h][b] <= Threshold[b] /\ alert[<<b, Low>>] = None
                      THEN [inserts EXCEPT ![h] = @ \union {<<b, Low>>}] ELSE inserts
        /\ targets' = IF left[h][b] = 0
                      THEN [targets EXCEPT ![h] =
                              {k \in {b} \X Aging : alert[k] # None /\ lock[k] # h}]
                      ELSE targets
        /\ order' = [order EXCEPT ![h] = Tail(@)]
        /\ UNCHANGED <<now, tables, lock, pc, resolves, locals, left, crashes>>
    BY DEF DeductLine
  <1>3. order[h] \in Seq([batch : Batches, qty : Nat \ {0}])
    BY DEF AlertInv, TypeOK, Order
  <1>4. b \in Batches /\ left[h][b] # None
    <2>1. 1 \in DOMAIN order[h] /\ order[h] \in Order /\ b = order[h][1].batch
      BY <1>2, <1>3 DEF Order
    <2> QED
      BY <1>2, <2>1, OrderLines DEF AlertInv, Sells
  <1>5. /\ Tail(order[h]) \in Order
        /\ \A i \in DOMAIN Tail(order[h]) : \E j \in DOMAIN order[h] :
              Tail(order[h])[i] = order[h][j]
    BY <1>2, <1>3 DEF Order
  <1>6. <<b, Low>> \in Keys /\ {b} \X Aging \subseteq Keys
    BY <1>4 DEF Keys
  <1> HIDE DEF b
  <1>7. TypeOK'
    <2>1. order' \in [Sellers -> Order]
      BY <1>2, <1>5 DEF AlertInv, TypeOK
    <2>2. inserts' \in [Parties -> SUBSET Keys]
      BY <1>1, <1>2, <1>6 DEF AlertInv, TypeOK
    <2>3. targets' \in [Parties -> SUBSET Keys]
      BY <1>1, <1>2, <1>6 DEF AlertInv, TypeOK
    <2> QED
      BY <1>2, <2>1, <2>2, <2>3 DEF AlertInv, TypeOK, tables, locals
  <1>8. /\ inserts'[h] \subseteq inserts[h] \union {<<b, Low>>}
        /\ \A k \in inserts'[h] : alert[k] = None
    BY <1>1, <1>2 DEF AlertInv, TypeOK, Statements
  <1>9. \A y \in Parties \ {h} : TransactionKept(y)
    BY <1>1, <1>2 DEF AlertInv, TypeOK, TransactionKept, tables, locals
  <1>10. Statements(h)'
    BY <1>1, <1>2, <1>8 DEF AlertInv, TypeOK, Statements, tables
  <1>11. Sells(h)'
    BY <1>2, <1>4, <1>5, <1>8 DEF AlertInv, TypeOK, Sells
  <1>12. \A y \in Parties \ {h} : <<b, Low>> \notin inserts[y]
    <2>1. \A t \in Tasks : <<b, Low>> \notin inserts[t]
      BY DEF AlertInv, Evaluates, Aging, Fresh, Spoil, Low
    <2>2. \A g \in Sellers \ {h} : <<b, Low>> \notin inserts[g]
      BY <1>4 DEF AlertInv, Sells, BatchesApart
    <2> QED
      BY <2>1, <2>2 DEF Parties
  <1> QED
    BY <1>1, <1>2, <1>7, <1>8, <1>9, <1>10, <1>11, <1>12, PartyMoves
       DEF AlertInv, Statements, InsertsApart, BatchesApart, tables
-----------------------------------------------------------------------------
(* The statements that write the alerts.                                     *)

\* Alerts after a commit, an update of one row, or nothing.
Ages ==
    \A k \in Keys : alert[k] # None =>
        /\ alert'[k] # None
        /\ alert[k].resolved => alert'[k].resolved
        /\ alert[k].sent => alert'[k].sent

LEMMA NoneIsNoAlert == None \notin Alert
  BY LifecycleAssumption

\* What a commit makes of the alerts.
LEMMA ApplyAges ==
    ASSUME AlertInv, NEW x \in Parties, Apply(x)
    PROVE  /\ alert' \in [Keys -> Alert \union {None}]
           /\ Ages
           /\ \A k \in Keys : k \notin inserts[x] /\ alert[k] = None => alert'[k] = None
  <1>1. ASSUME NEW k \in Keys
        PROVE  /\ alert'[k] \in Alert \union {None}
               /\ alert[k] # None => /\ alert'[k] # None
                                     /\ alert[k].resolved => alert'[k].resolved
                                     /\ alert[k].sent => alert'[k].sent
               /\ k \notin inserts[x] /\ alert[k] = None => alert'[k] = None
    <2>1. CASE k \in inserts[x]
      <3>1. alert'[k] = New /\ alert[k] = None
        BY <2>1 DEF Apply, AlertInv, Statements
      <3>2. New \in Alert
        BY DEF New, Alert
      <3> QED
        BY <2>1, <3>1, <3>2
    <2>2. CASE k \notin inserts[x] /\ k \in resolves[x]
      <3>1. alert[k] \in Alert
        BY <2>2 DEF AlertInv, Statements, TypeOK
      <3>2. alert'[k] = [alert[k] EXCEPT !.resolved = TRUE]
        BY <2>2 DEF Apply
      <3>3. /\ alert'[k] \in Alert /\ alert'[k].resolved
            /\ alert'[k].sent = alert[k].sent
        BY <3>1, <3>2 DEF Alert
      <3> QED
        BY <3>1, <3>3, NoneIsNoAlert
    <2>3. CASE k \notin inserts[x] /\ k \notin resolves[x]
      <3>1. alert'[k] = alert[k]
        BY <2>3 DEF Apply
      <3> QED
        BY <3>1 DEF AlertInv, TypeOK
    <2> QED
      BY <2>1, <2>2, <2>3
  <1>2. alert' \in [Keys -> Alert \union {None}]
    BY <1>1 DEF Apply
  <1> QED
    BY <1>1, <1>2 DEF Ages

LEMMA CommitKeeps ==
    ASSUME AlertInv, TypeOK', NEW x \in Parties, Apply(x), End(x),
           \A y \in Parties \ {x} : pc'[y] = pc[y],
           UNCHANGED <<todo, pending, pushed, order>>,
           \A g \in Sellers \ {x} : left'[g] = left[g],
           x \in Tasks => pc'[x] # "mark",
           x \in Sellers => order[x] = <<>> /\ \A b \in Batches : left'[x][b] = None
    PROVE  AlertInv'
  <1>1. \A y \in Parties \ {x} : TransactionKept(y)
    BY DEF AlertInv, TypeOK, End, TransactionKept
  <1>2. targets'[x] = {} /\ resolves'[x] = {} /\ inserts'[x] = {}
    BY DEF AlertInv, TypeOK, End
  <1>3. \A k \in Keys : alert[k] # None => alert'[k] # None
    BY ApplyAges DEF Ages
  <1>4. \A y \in Parties \ {x} : \A k \in inserts[y] : alert'[k] = None /\ k \notin inserts'[x]
    BY <1>2, ApplyAges DEF AlertInv, TypeOK, Statements, InsertsApart
  <1>5. Statements(x)'
    BY <1>2 DEF Statements
  <1>6. x \in Tasks => Evaluates(x)'
    BY <1>2, <1>3 DEF AlertInv, TypeOK, Evaluates
  <1>7. x \in Sellers => Sells(x)'
    BY <1>2 DEF Sells
  <1> QED
    BY <1>1, <1>3, <1>4, <1>5, <1>6, <1>7, PartyMoves

LEMMA CommitEvaluationAlerts ==
    ASSUME AlertInv, NEW t \in Tasks, CommitEvaluation(t)
    PROVE  AlertInv'
  <1>1. t \in Parties /\ t \notin Sellers
    BY LifecycleAssumption DEF Parties
  <1>2. /\ Apply(t) /\ End(t) /\ pc' = [pc EXCEPT ![t] = "list"]
        /\ UNCHANGED <<now, stock, locals, sales, crashes>>
    BY DEF CommitEvaluation, Goto
  <1>3. TypeOK'
    BY <1>1, <1>2, ApplyAges, EndTypes DEF AlertInv, TypeOK, Steps, locals, sales
  <1> QED
    BY <1>1, <1>2, <1>3, CommitKeeps DEF AlertInv, TypeOK, locals, sales

LEMMA CommitSaleAlerts ==
    ASSUME AlertInv, NEW h \in Sellers, CommitSale(h)
    PROVE  AlertInv'
  <1>1. h \in Parties /\ h \notin Tasks
    BY LifecycleAssumption DEF Parties
  <1>2. /\ order[h] = <<>> /\ Apply(h) /\ End(h) /\ pc' = [pc EXCEPT ![h] = "done"]
        /\ stock' = [b \in Batches |-> IF left[h][b] = None THEN stock[b] ELSE left[h][b]]
        /\ left' = [left EXCEPT ![h] = [b \in Batches |-> None]]
        /\ UNCHANGED <<now, locals, order, crashes>>
    BY DEF CommitSale, Goto
  <1>3. TypeOK'
    <2>1. stock' \in [Batches -> Nat]
      BY <1>2 DEF AlertInv, TypeOK
    <2>2. left' \in [Sellers -> [Batches -> Nat \union {None}]]
      BY <1>2 DEF AlertInv, TypeOK
    <2> QED
      BY <1>1, <1>2, <2>1, <2>2, ApplyAges, EndTypes DEF AlertInv, TypeOK, Steps, locals
  <1> QED
    BY <1>1, <1>2, <1>3, CommitKeeps DEF AlertInv, TypeOK, locals

\* A single row is updated by a transaction of its own.
LEMMA MarkAges ==
    ASSUME AlertInv, NEW k \in Keys, alert[k] # None,
           alert' = [alert EXCEPT ![k].sent = TRUE] \/ alert' = [alert EXCEPT ![k].resolved = TRUE]
    PROVE  /\ alert' \in [Keys -> Alert \union {None}]
           /\ Ages
           /\ \A j \in Keys : alert[j] = None => alert'[j] = None
  <1>1. alert[k] \in Alert
    BY DEF AlertInv, TypeOK
  <1>2. PICK r \in Alert : /\ alert' = [alert EXCEPT ![k] = r]
                           /\ alert[k].resolved => r.resolved
                           /\ alert[k].sent => r.sent
    <2>1. CASE alert' = [alert EXCEPT ![k].sent = TRUE]
      <3> DEFINE r == [alert[k] EXCEPT !.sent = TRUE]
      <3>1. r \in Alert /\ r.sent /\ r.resolved = alert[k].resolved
        BY <1>1 DEF Alert
      <3> QED
        BY <2>1, <3>1
    <2>2. CASE alert' = [alert EXCEPT ![k].resolved = TRUE]
      <3> DEFINE r == [alert[k] EXCEPT !.resolved = TRUE]
      <3>1. r \in Alert /\ r.resolved /\ r.sent = alert[k].sent
        BY <1>1 DEF Alert
      <3> QED
        BY <2>2, <3>1
    <2> QED
      BY <2>1, <2>2
  <1> QED
    BY <1>1, <1>2, NoneIsNoAlert DEF AlertInv, TypeOK, Ages

LEMMA MarkSentAlerts ==
    ASSUME AlertInv, NEW t \in Tasks, MarkSent(t)
    PROVE  AlertInv' /\ Ages
  <1>1. t \in Parties /\ t \notin Sellers
    BY LifecycleAssumption DEF Parties
  <1>2. pushed[t] \in Keys /\ alert[pushed[t]] # None
    BY DEF AlertInv, Evaluates, MarkSent
  <1>3. /\ alert' = [alert EXCEPT ![pushed[t]].sent = TRUE]
        /\ pushed' = [pushed EXCEPT ![t] = None] /\ pc' = [pc EXCEPT ![t] = "push"]
        /\ UNCHANGED <<now, stock, lock, txs, started, todo, pending, sales, crashes>>
    BY DEF MarkSent, Goto
  <1>4. /\ alert' \in [Keys -> Alert \union {None}] /\ Ages
        /\ \A j \in Keys : alert[j] = None => alert'[j] = None
    BY <1>2, <1>3, MarkAges
  <1>5. TypeOK'
    BY <1>1, <1>3, <1>4 DEF AlertInv, TypeOK, Steps, txs, sales
  <1>6. \A y \in Parties \ {t} : TransactionKept(y)
    BY <1>1, <1>3 DEF AlertInv, TypeOK, TransactionKept, txs, sales
  <1>7. Statements(t)'
    BY <1>1, <1>3, <1>4 DEF AlertInv, TypeOK, Statements, Ages, txs
  <1>8. Evaluates(t)'
    BY <1>1, <1>3, <1>4 DEF AlertInv, TypeOK, Evaluates, Ages, txs
  <1> QED
    BY <1>1, <1>3, <1>4, <1>5, <1>6, <1>7, <1>8, PartyMoves
       DEF AlertInv, TypeOK, Statements, InsertsApart, Ages, txs

LEMMA DismissAlerts ==
    ASSUME AlertInv, NEW k \in Keys, Dismiss(k)
    PROVE  AlertInv' /\ Ages
  <1>1. /\ alert[k] # None /\ alert' = [alert EXCEPT ![k].resolved = TRUE]
        /\ UNCHANGED <<now, stock, lock, pc, txs, locals, sales, crashes>>
    BY DEF Dismiss, Open
  <1>2. /\ alert' \in [Keys -> Alert \union {None}] /\ Ages
        /\ \A j \in Keys : alert[j] = None => alert'[j] = None
    BY <1>1, MarkAges
  <1>3. TypeOK'
    BY <1>1, <1>2 DEF AlertInv, TypeOK, txs, locals, sales
  <1>4. ASSUME NEW x \in Parties PROVE Statements(x)'
    BY <1>1, <1>2 DEF AlertInv, TypeOK, Statements, Ages, txs
  <1>5. ASSUME NEW t \in Tasks PROVE Evaluates(t)'
    BY <1>1, <1>2 DEF AlertInv, TypeOK, Evaluates, Ages, txs, locals
  <1>6. ASSUME NEW h \in Sellers PROVE Sells(h)'
    BY <1>1 DEF AlertInv, Sells, txs, sales
  <1>7. BatchesApart' /\ InsertsApart'
    BY <1>1 DEF AlertInv, BatchesApart, InsertsApart, txs, sales
  <1> QED
    BY <1>2, <1>3, <1>4, <1>5, <1>6, <1>7 DEF AlertInv

\* A rollback, of a crash or of the deadlock detector.
LEMMA StopAlerts ==
    ASSUME AlertInv, NEW x \in Parties, Stop(x), crashes' \in 0 .. MaxCrashes
    PROVE  AlertInv'
  <1>1. End(x) /\ UNCHANGED <<now, tables>>
    BY DEF Stop
  <1>2. CASE x \in Tasks
    <2>1. /\ pc' = [pc EXCEPT ![x] = "idle"] /\ started' = [started EXCEPT ![x] = 0]
          /\ todo' = [todo EXCEPT ![x] = {}] /\ pending' = [pending EXCEPT ![x] = {}]
          /\ pushed' = [pushed EXCEPT ![x] = None] /\ UNCHANGED sales
      BY <1>2 DEF Stop, Goto
    <2>2. started' \in [Tasks -> 0 .. Horizon]
      BY <1>2, <2>1, LifecycleAssumption DEF AlertInv, TypeOK
    <2>3. TypeOK'
      BY <1>1, <1>2, <2>1, <2>2, EndTypes DEF AlertInv, TypeOK, Steps, tables, sales
    <2>4. x \notin Sellers
      BY <1>2, LifecycleAssumption
    <2>5. /\ \A y \in Parties \ {x} : pc'[y] = pc[y]
          /\ \A u \in Tasks \ {x} : /\ todo'[u] = todo[u] /\ pending'[u] = pending[u]
                                    /\ pushed'[u] = pushed[u]
          /\ todo'[x] = {} /\ pending'[x] = {} /\ pc'[x] = "idle"
          /\ UNCHANGED <<order, left, alert>>
      BY <1>1, <1>2, <2>1 DEF AlertInv, TypeOK, tables, sales
    <2> QED
      BY <1>1, <2>3, <2>4, <2>5, EndAlerts
  <1>3. CASE x \notin Tasks
    <2>1. /\ pc' = [pc EXCEPT ![x] = "done"] /\ order' = [order EXCEPT ![x] = <<>>]
          /\ left' = [left EXCEPT ![x] = [b \in Batches |-> None]] /\ UNCHANGED locals
      BY <1>3 DEF Stop, Goto
    <2>2. order' \in [Sellers -> Order]
      <3>1. <<>> \in Order
        BY DEF Order
      <3> QED
        BY <2>1, <3>1 DEF AlertInv, TypeOK
    <2>3. left' \in [Sellers -> [Batches -> Nat \union {None}]]
      BY <2>1 DEF AlertInv, TypeOK
    <2>4. TypeOK'
      BY <1>1, <1>3, <2>1, <2>2, <2>3, EndTypes DEF AlertInv, TypeOK, Steps, tables, locals
    <2>5. /\ x \in Sellers /\ \A y \in Parties \ {x} : pc'[y] = pc[y]
          /\ \A g \in Sellers \ {x} : order'[g] = order[g] /\ left'[g] = left[g]
          /\ order'[x] = <<>> /\ left'[x] = [b \in Batches |-> None]
          /\ UNCHANGED <<todo, pending, pushed, alert>>
      BY <1>1, <1>3, <2>1 DEF AlertInv, TypeOK, Parties, tables, locals
    <2> QED
      BY <1>1, <1>3, <2>4, <2>5, EndAlerts
  <1> QED
    BY <1>2, <1>3

LEMMA TickAlerts ==
    ASSUME AlertInv, UNCHANGED vars \/ Tick
    PROVE  AlertInv'
  <1>1. UNCHANGED <<tables, lock, pc, txs, locals, sales, crashes>>
    BY DEF vars, Tick
  <1>2. now' \in 0 .. Horizon
    BY LifecycleAssumption DEF AlertInv, TypeOK, Tick, vars
  <1> QED
    BY <1>1, <1>2 DEF AlertInv, TypeOK, Statements, Evaluates, Sells, BatchesApart, InsertsApart,
                      tables, txs, locals, sales

LEMMA NextAlerts ==
    ASSUME AlertInv, [Next]_vars
    PROVE  AlertInv' /\ (UNCHANGED alert \/ Ages)
  <1>1. ASSUME NEW t \in Tasks, TaskStep(t) PROVE AlertInv' /\ (UNCHANGED alert \/ Ages)
    <2>1. t \in Parties
      BY DEF Parties
    <2>2. CASE Beat(t)
      BY <2>2, BeatAlerts DEF Beat, tables
    <2>3. CASE BeginResolve(t)
      BY <2>3, BeginResolveAlerts DEF BeginResolve, tables
    <2>4. CASE LockAlert(t)
      BY <2>1, <2>4, LockAlertAlerts DEF LockAlert, tables
    <2>5. CASE SelectDue(t)
      BY <2>5, SelectDueAlerts DEF SelectDue, tables
    <2>6. CASE InsertWarning(t)
      BY <2>6, InsertWarningAlerts DEF InsertWarning, tables
    <2>7. CASE CommitEvaluation(t)
      BY <2>1, <2>7, CommitEvaluationAlerts, ApplyAges DEF CommitEvaluation
    <2>8. CASE ListPending(t)
      BY <2>8, ListPendingAlerts DEF ListPending, tables
    <2>9. CASE PushAccepted(t)
      BY <2>9, PushAcceptedAlerts DEF PushAccepted, tables
    <2>10. CASE PushRefused(t)
      BY <2>10, PushRefusedAlerts DEF PushRefused, tables
    <2>11. CASE MarkSent(t)
      BY <2>11, MarkSentAlerts
    <2>12. CASE FinishTask(t)
      BY <2>12, FinishTaskAlerts DEF FinishTask, tables
    <2>13. CASE CheckBatch(t)
      BY <2>13, CheckBatchAlerts DEF CheckBatch, tables
    <2> QED
      BY <1>1, <2>2, <2>3, <2>4, <2>5, <2>6, <2>7, <2>8, <2>9, <2>10, <2>11, <2>12, <2>13
         DEF TaskStep
  <1>2. ASSUME NEW h \in Sellers, SaleStep(h) PROVE AlertInv' /\ (UNCHANGED alert \/ Ages)
    <2>1. h \in Parties
      BY DEF Parties
    <2>2. CASE LockAlert(h)
      BY <2>1, <2>2, LockAlertAlerts DEF LockAlert, tables
    <2>3. CASE DeductLine(h)
      BY <2>3, DeductLineAlerts DEF DeductLine, tables
    <2>4. CASE CommitSale(h)
      BY <2>1, <2>4, CommitSaleAlerts, ApplyAges DEF CommitSale
    <2>5. CASE LockBatch(h)
      BY <2>5, LockBatchAlerts DEF LockBatch, tables
    <2>6. CASE CoverStock(h)
      BY <2>6, CoverStockAlerts DEF CoverStock, tables
    <2>7. CASE RefuseSale(h)
      <3>1. Stop(h) /\ crashes' \in 0 .. MaxCrashes
        BY <2>7, LifecycleAssumption DEF RefuseSale, AlertInv, TypeOK
      <3> QED
        BY <2>1, <3>1, StopAlerts DEF Stop, tables
    <2> QED
      BY <1>2, <2>2, <2>3, <2>4, <2>5, <2>6, <2>7 DEF SaleStep
  <1>3. ASSUME NEW h \in Sellers, NEW o \in Orders, Sell(h, o) PROVE AlertInv' /\ UNCHANGED alert
    BY <1>3, SellAlerts DEF Sell, tables
  <1>4. ASSUME NEW k \in Keys, Dismiss(k) PROVE AlertInv' /\ Ages
    BY <1>4, DismissAlerts
  <1>5. ASSUME NEW x \in Parties, Crash(x) \/ BreakDeadlock(x) PROVE AlertInv' /\ UNCHANGED alert
    <2>1. crashes' \in 0 .. MaxCrashes /\ Stop(x)
      BY <1>5, LifecycleAssumption DEF Crash, BreakDeadlock, AlertInv, TypeOK
    <2> QED
      BY <2>1, StopAlerts DEF Stop, tables
  <1>6. CASE UNCHANGED vars \/ Tick
    BY <1>6, TickAlerts DEF vars, Tick, tables
  <1> QED
    BY <1>1, <1>2, <1>3, <1>4, <1>5, <1>6 DEF Next
-----------------------------------------------------------------------------
LEMMA AlertInvariant == Spec => []AlertInv
  <1>1. AlertInv /\ [Next]_vars => AlertInv'
    BY NextAlerts
  <1> QED
    BY <1>1, InitAlerts, PTL DEF Spec

\* Every table, lock and local variable of the evaluations and the sales is well typed;
\* stock stays natural and no alert that is marked or resolved is none.
THEOREM LifecycleTyped == Spec => []TypeOK
  <1>1. AlertInv => TypeOK
    BY DEF AlertInv
  <1> QED
    BY <1>1, AlertInvariant, PTL

\* An alert that is resolved, dismissed or marked as sent stays so, and none disappears,
\* however many evaluations, sales and vendors overlap and wherever they are rolled back
\* (lifecycle.py, "on conflict do nothing"; catalog.py, dismiss).  It says nothing of the
\* number of pushes: two tasks that have both listed an alert push it twice.
THEOREM AlertsStand == Spec => AlertsOnlyAge
  <1>1. AlertInv /\ [Next]_vars => [\A k \in Keys : alert[k] # None =>
                                       /\ alert'[k] # None
                                       /\ alert[k].resolved => alert'[k].resolved
                                       /\ alert[k].sent => alert'[k].sent]_alert
    BY NextAlerts DEF Ages
  <1> QED
    BY <1>1, AlertInvariant, PTL DEF Spec, AlertsOnlyAge
=============================================================================
