---------------------------- MODULE SalesProofs ----------------------------
(***************************************************************************)
(* Theorems about POST /api/v1/sales, for any number of concurrent         *)
(* requests, keys and batches and for sales of any number of lines: the    *)
(* row locks, what is left of each batch and what is recorded as sold, the *)
(* low_stock alerts, and the atomic ledger the statements implement.       *)
(***************************************************************************)
EXTENDS Sales, SumLemmas

Writing  == {"insert", "item", "update", "alert", "resolve", "commit"}
Holding  == Writing \union {"validate"}
InLine   == {"update", "alert", "resolve"}

\* How far each handler's loops are at each statement, and that it holds the
\* locks of the rows it reads and writes.
Shape(h) ==
    /\ pc[h] # "idle" => req[h] \in Requests
    /\ pc[h] \in Holding =>
         \A i \in DOMAIN Lines(h) :
             Lines(h)[i].batch \in Batches /\ rowLock[Lines(h)[i].batch] = h
    /\ pc[h] \in {"idle", "advisory", "load", "items", "lock"} =>
         plan[h] = <<>> /\ done[h] = 0
    /\ pc[h] = "validate" => Len(plan[h]) < Len(Lines(h)) /\ done[h] = 0
    /\ pc[h] \in Writing => Len(plan[h]) = Len(Lines(h))
    /\ pc[h] = "insert" => done[h] = 0
    /\ pc[h] = "item" => done[h] < Len(Lines(h))
    /\ pc[h] \in InLine => done[h] \in 1 .. Len(Lines(h))
    /\ pc[h] = "commit" => done[h] = Len(Lines(h))
    /\ pc[h] = "items" => sales[req[h].key] # None

\* A recorded sale names its own key and only batches of the tenant.
Recorded(k) ==
    sales[k] # None =>
        /\ sales[k].key = k
        /\ \A i \in DOMAIN sales[k].lines : sales[k].lines[i].batch \in Batches

TypeInv ==
    /\ TypeOK
    /\ \A h \in Handlers : Shape(h)
    /\ \A k \in Keys : Recorded(k)

-----------------------------------------------------------------------------
LEMMA RequestShape ==
    ASSUME NEW r \in Requests
    PROVE  /\ r.key \in Keys
           /\ r.lines \in Seq(Line)
           /\ Len(r.lines) \in Nat \ {0}
           /\ DOMAIN r.lines = 1 .. Len(r.lines)
           /\ \A i \in DOMAIN r.lines :
                /\ r.lines[i].product \in Products
                /\ r.lines[i].batch \in Nat
                /\ r.lines[i].qty \in Nat \ {0}
  <1>1. r.key \in Keys /\ r.lines \in Seq(Line) /\ r.lines # <<>>
    BY SalesAssumption
  <1>2. \A i \in DOMAIN r.lines : r.lines[i] \in Line
    BY <1>1
  <1> QED
    BY <1>1, <1>2 DEF Line

LEMMA InitTypeInv == Init => TypeInv
  <1> SUFFICES ASSUME Init PROVE TypeInv
    OBVIOUS
  <1> USE SalesAssumption DEF Init
  <1>1. TypeOK
    BY DEF TypeOK, NoReply, Severity, Status
  <1>2. \A h \in Handlers : Shape(h)
    BY DEF Shape, Holding, Writing, InLine
  <1>3. \A k \in Keys : Recorded(k)
    BY DEF Recorded
  <1> QED
    BY <1>1, <1>2, <1>3 DEF TypeInv

-----------------------------------------------------------------------------
\* A step of one handler leaves the shape of the others alone.
LEMMA OtherShape ==
    ASSUME NEW g \in Handlers, Shape(g),
           pc'[g] = pc[g], req'[g] = req[g], plan'[g] = plan[g], done'[g] = done[g],
           \A b \in Batches : rowLock[b] = g => rowLock'[b] = g,
           \A k \in Keys : sales[k] # None => sales'[k] # None
    PROVE  Shape(g)'
  <1> USE DEF Shape, Holding, Writing, InLine, Lines
  <1>1. pc[g] # "idle" => req[g].key \in Keys
    BY SalesAssumption
  <1> QED
    BY <1>1

LEMMA FinishTypes ==
    ASSUME TypeOK, NEW h \in Handlers, NEW status \in Status, NEW left \in Seq(Nat),
           Finish(h, status, left)
    PROVE  /\ pc' \in [Handlers -> Steps \union {"idle", "done"}]
           /\ reply' \in [Handlers -> [status : Status, left : Seq(Nat)]]
           /\ advisory' \in [Keys -> Handlers \union {None}]
           /\ rowLock' \in [Batches -> Handlers \union {None}]
           /\ pc'[h] = "done"
           /\ \A g \in Handlers \ {h} :
                pc'[g] = pc[g] /\ \A b \in Batches : rowLock[b] = g => rowLock'[b] = g
  BY DEF TypeOK, Finish, Goto

LEMMA RollbackTypeInv ==
    ASSUME TypeInv, NEW h \in Handlers, NEW status \in Status, pc[h] # "idle",
           Rollback(h, status)
    PROVE  TypeInv'
  <1> USE DEF TypeInv
  <1>1. <<>> \in Seq(Nat) /\ Finish(h, status, <<>>)
    BY DEF Rollback
  <1>2. UNCHANGED <<access, stock, sales, sold, low, aging, req, remaining, plan, done,
                    seen, itemQty, newLow, cleared>>
    BY DEF Rollback, tables, locals, writes
  <1>3. TypeOK'
    BY <1>1, <1>2, FinishTypes DEF TypeOK
  <1>4. Shape(h)'
    BY <1>1, <1>2, FinishTypes DEF Shape, Holding, Writing, InLine
  <1>5. ASSUME NEW g \in Handlers, g # h PROVE Shape(g)'
    <2>1. /\ pc'[g] = pc[g]
          /\ \A b \in Batches : rowLock[b] = g => rowLock'[b] = g
      BY <1>1, <1>5 DEF TypeOK, Finish, Goto
    <2> QED
      BY <1>2, <2>1, OtherShape
  <1>6. \A k \in Keys : Recorded(k)'
    BY <1>2 DEF Recorded
  <1> QED
    BY <1>3, <1>4, <1>5, <1>6

-----------------------------------------------------------------------------
\* A statement of h that ends no transaction.
LocalStep(h) ==
    /\ \A g \in Handlers \ {h} :
         pc'[g] = pc[g] /\ req'[g] = req[g] /\ plan'[g] = plan[g] /\ done'[g] = done[g]
    /\ \A b \in Batches : rowLock[b] # None => rowLock'[b] = rowLock[b]
    /\ sales' = sales

LEMMA LocalStepTypeInv ==
    ASSUME TypeInv, NEW h \in Handlers, LocalStep(h), TypeOK', Shape(h)'
    PROVE  TypeInv'
  <1>1. ASSUME NEW g \in Handlers, g # h PROVE Shape(g)'
    <2>1. /\ pc'[g] = pc[g] /\ req'[g] = req[g]
          /\ plan'[g] = plan[g] /\ done'[g] = done[g]
      BY <1>1 DEF LocalStep
    <2>2. \A b \in Batches : rowLock[b] = g => rowLock'[b] = g
      BY SalesAssumption DEF LocalStep
    <2>3. \A k \in Keys : sales[k] # None => sales'[k] # None
      BY DEF LocalStep
    <2>4. Shape(g)
      BY DEF TypeInv
    <2> QED
      BY <2>1, <2>2, <2>3, <2>4, OtherShape
  <1>2. \A k \in Keys : Recorded(k)'
    BY DEF LocalStep, TypeInv, Recorded
  <1> QED
    BY <1>1, <1>2 DEF TypeInv

LEMMA StatementTypeInv ==
    ASSUME TypeInv, NEW h \in Handlers, Statement(h)
    PROVE  TypeInv'
  <1> USE DEF Goto, tables, locks, locals, writes
  <1>a. TypeOK /\ Shape(h) /\ (\A k \in Keys : Recorded(k))
    BY DEF TypeInv
  <1>b. pc[h] \in Steps => req[h] \in Requests
    BY <1>a DEF Shape, Steps
  <1>c. pc[h] \in Steps =>
          /\ req[h].key \in Keys
          /\ Lines(h) \in Seq(Line)
          /\ Len(Lines(h)) \in Nat \ {0}
          /\ DOMAIN Lines(h) = 1 .. Len(Lines(h))
          /\ \A i \in DOMAIN Lines(h) :
                /\ Lines(h)[i].product \in Products
                /\ Lines(h)[i].batch \in Nat
                /\ Lines(h)[i].qty \in Nat \ {0}
    BY <1>b, RequestShape DEF Lines
  <1>d. ASSUME NEW status \in Status, Rollback(h, status), pc[h] \in Steps PROVE TypeInv'
    BY <1>d, RollbackTypeInv DEF Steps
  <1>1. CASE TakeAdvisoryLock(h)
    <2> USE <1>1 DEF TakeAdvisoryLock
    <2>1. TypeOK'
      BY <1>a DEF TypeOK, Steps
    <2>2. Shape(h)'
      BY <1>a DEF TypeOK, Shape, Holding, Writing, InLine, Lines
    <2>3. LocalStep(h)
      BY <1>a DEF TypeOK, LocalStep
    <2> QED
      BY <2>1, <2>2, <2>3, LocalStepTypeInv
  <1>2. CASE LoadSale(h)
    <2> USE <1>2 DEF LoadSale
    <2>1. TypeOK'
      BY <1>a DEF TypeOK, Steps
    <2>2. Shape(h)'
      BY <1>a DEF TypeOK, Shape, Holding, Writing, InLine, Lines
    <2>3. LocalStep(h)
      BY <1>a DEF TypeOK, LocalStep
    <2> QED
      BY <2>1, <2>2, <2>3, LocalStepTypeInv
  <1>3. CASE LoadItems(h)
    <2> USE <1>3 DEF LoadItems
    <2>1. PICK rows \in IF access THEN Reorderings(sales[req[h].key].lines) ELSE {<<>>} :
            IF sales[req[h].key].source = req[h].source /\ rows = Lines(h)
            THEN Finish(h, "replayed", [i \in DOMAIN rows |-> stock[rows[i].batch]])
            ELSE Finish(h, "conflict", <<>>)
      OBVIOUS
    <2>2. UNCHANGED <<access, stock, sales, sold, low, aging, req, remaining, plan, done,
                      seen, itemQty, newLow, cleared>>
      OBVIOUS
    <2>3. \E status \in Status, left \in Seq(Nat) : Finish(h, status, left)
      <3>1. CASE Finish(h, "conflict", <<>>)
        <4>1. "conflict" \in Status /\ <<>> \in Seq(Nat)
          BY DEF Status
        <4> QED
          BY <3>1, <4>1
      <3>2. CASE /\ rows = Lines(h)
                 /\ Finish(h, "replayed", [i \in DOMAIN rows |-> stock[rows[i].batch]])
        <4>1. req[h].key \in Keys /\ sales[req[h].key] # None
          BY <1>a, <1>c DEF Shape, Steps
        <4>2. sales[req[h].key] \in Requests
          BY <1>a, <4>1 DEF TypeOK
        <4> DEFINE s == sales[req[h].key].lines
        <4>3. DOMAIN s = 1 .. Len(s) /\ \A i \in DOMAIN s : s[i].batch \in Batches
          BY <1>a, <4>1, <4>2, RequestShape DEF Recorded
        <4>4. DOMAIN rows = 1 .. Len(rows) /\ Len(rows) \in Nat
          BY <3>2, <1>c DEF Steps
        <4>5. rows # <<>>
          BY <3>2, <1>c DEF Steps
        <4>6. rows \in Reorderings(s)
          BY <2>1, <4>5
        <4> HIDE DEF s
        <4>7. PICK p \in [DOMAIN s -> DOMAIN s] : rows = [i \in DOMAIN s |-> s[p[i]]]
          BY <4>6 DEF Reorderings
        <4>8. \A i \in DOMAIN rows : stock[rows[i].batch] \in Nat
          BY <1>a, <4>3, <4>7 DEF TypeOK
        <4> DEFINE left == [i \in DOMAIN rows |-> stock[rows[i].batch]]
        <4>9. left \in Seq(Nat)
          BY <4>4, <4>8
        <4> HIDE DEF left
        <4> QED
          BY <3>2, <4>9 DEF left, Status
      <3> QED
        BY <2>1, <3>1, <3>2
    <2>4. PICK status \in Status, left \in Seq(Nat) : Finish(h, status, left)
      BY <2>3
    <2>5. TypeOK'
      BY <1>a, <2>2, <2>4, FinishTypes DEF TypeOK
    <2>6. Shape(h)'
      BY <1>a, <1>b, <2>2, <2>4, FinishTypes DEF Shape, Holding, Writing, InLine, Steps
    <2>7. ASSUME NEW g \in Handlers, g # h PROVE Shape(g)'
      <3>1. /\ pc'[g] = pc[g]
            /\ \A b \in Batches : rowLock[b] = g => rowLock'[b] = g
        BY <1>a, <2>4, <2>7 DEF TypeOK, Finish
      <3>2. Shape(g)
        BY DEF TypeInv
      <3> QED
        BY <2>2, <3>1, <3>2, OtherShape
    <2> QED
      BY <1>a, <2>2, <2>5, <2>6, <2>7 DEF TypeInv, Recorded
  <1>4. CASE LockBatch(h)
    <2> DEFINE missing == {b \in Needed(h) : b \notin Batches \/ rowLock[b] # h}
    <2>1. CASE Rollback(h, "invalid")
      BY <1>4, <1>d, <2>1 DEF LockBatch, Steps, Status
    <2>2. CASE ~Rollback(h, "invalid")
      <3>1. PICK b \in missing :
              /\ access /\ b \in Batches
              /\ rowLock[b] = None
              /\ rowLock' = [rowLock EXCEPT ![b] = h]
              /\ remaining' = [remaining EXCEPT ![h][b] = stock[b]]
              /\ seen' = [seen EXCEPT ![h][b] = stock[b]]
              /\ pc' = [pc EXCEPT ![h] = IF missing = {b} THEN "validate" ELSE "lock"]
              /\ UNCHANGED <<access, stock, sales, sold, low, aging, advisory, req, plan,
                             done, itemQty, newLow, cleared, reply>>
        BY <1>4, <2>2 DEF LockBatch
      <3>2. TypeOK'
        BY <1>a, <3>1 DEF TypeOK, Steps
      <3>3. missing = {b} =>
              \A i \in DOMAIN Lines(h) :
                  Lines(h)[i].batch \in Batches /\ rowLock'[Lines(h)[i].batch] = h
        BY <1>a, <3>1 DEF TypeOK, Needed
      <3>4. Shape(h)'
        BY <1>a, <1>c, <1>4, <3>1, <3>3
          DEF LockBatch, TypeOK, Shape, Holding, Writing, InLine, Lines, Steps
      <3>5. LocalStep(h)
        BY <1>a, <3>1 DEF TypeOK, LocalStep
      <3> QED
        BY <3>2, <3>4, <3>5, LocalStepTypeInv
    <2> QED
      BY <2>1, <2>2
  <1>5. CASE ValidateLine(h)
    <2> DEFINE n    == Len(plan[h])
               line == Lines(h)[n + 1]
               left == remaining[h][line.batch] - line.qty
    <2>1. CASE Rollback(h, "invalid")
      BY <1>5, <1>d, <2>1 DEF ValidateLine, Steps, Status
    <2>2. CASE ~Rollback(h, "invalid")
      <3>1. /\ pc[h] = "validate"
            /\ ~(left < 0)
            /\ remaining' = [remaining EXCEPT ![h][line.batch] = left]
            /\ plan' = [plan EXCEPT ![h] = Append(@, left)]
            /\ pc' = [pc EXCEPT ![h] =
                         IF n + 1 = Len(Lines(h)) THEN "insert" ELSE "validate"]
            /\ UNCHANGED <<access, stock, sales, sold, low, aging, advisory, rowLock, req,
                           done, seen, itemQty, newLow, cleared, reply>>
        BY <1>5, <2>2 DEF ValidateLine
      <3>2. n \in Nat /\ n + 1 \in DOMAIN Lines(h) /\ done[h] = 0
        <4>1. plan[h] \in Seq(Nat)
          BY <1>a DEF TypeOK
        <4>2. n \in Nat
          BY <4>1
        <4>3. n < Len(Lines(h)) /\ done[h] = 0
          BY <1>a, <3>1 DEF Shape
        <4>4. Len(Lines(h)) \in Nat /\ DOMAIN Lines(h) = 1 .. Len(Lines(h))
          BY <1>c, <3>1 DEF Steps
        <4> HIDE DEF n
        <4> QED
          BY <4>2, <4>3, <4>4
      <3>3. line.batch \in Batches /\ line.qty \in Nat
        BY <1>a, <1>c, <3>1, <3>2 DEF Shape, Holding, Steps
      <3>4. left \in Nat
        BY <1>a, <3>1, <3>3 DEF TypeOK
      <3> HIDE DEF left, line
      <3>5. plan'[h] \in Seq(Nat) /\ Len(plan'[h]) = n + 1
        BY <1>a, <3>1, <3>4 DEF TypeOK
      <3>6. TypeOK'
        BY <1>a, <3>1, <3>3, <3>4, <3>5 DEF TypeOK, Steps
      <3>7. Shape(h)'
        BY <1>a, <1>c, <3>1, <3>2, <3>5
          DEF TypeOK, Shape, Holding, Writing, InLine, Lines, Steps
      <3>8. LocalStep(h)
        BY <1>a, <3>1 DEF TypeOK, LocalStep
      <3> QED
        BY <3>6, <3>7, <3>8, LocalStepTypeInv
    <2> QED
      BY <2>1, <2>2
  <1>6. CASE InsertSale(h)
    <2>1. CASE Rollback(h, "error")
      BY <1>6, <1>d, <2>1 DEF InsertSale, Steps, Status
    <2>2. CASE ~Rollback(h, "error")
      <3> USE <1>6, <2>2 DEF InsertSale
      <3>1. TypeOK'
        BY <1>a DEF TypeOK, Steps
      <3>2. Shape(h)'
        BY <1>a, <1>c DEF TypeOK, Shape, Holding, Writing, InLine, Lines, Steps
      <3>3. LocalStep(h)
        BY <1>a DEF TypeOK, LocalStep
      <3> QED
        BY <3>1, <3>2, <3>3, LocalStepTypeInv
    <2> QED
      BY <2>1, <2>2
  <1>7. CASE InsertItem(h)
    <2> DEFINE line == Lines(h)[done[h] + 1]
    <2>1. CASE Rollback(h, "error")
      BY <1>7, <1>d, <2>1 DEF InsertItem, Steps, Status
    <2>2. CASE ~Rollback(h, "error")
      <3>1. /\ pc[h] = "item"
            /\ done' = [done EXCEPT ![h] = @ + 1]
            /\ itemQty' = [itemQty EXCEPT ![h][line.batch] = @ + line.qty]
            /\ pc' = [pc EXCEPT ![h] = "update"]
            /\ UNCHANGED <<access, stock, sales, sold, low, aging, advisory, rowLock, req,
                           remaining, plan, seen, newLow, cleared, reply>>
        BY <1>7, <2>2 DEF InsertItem
      <3>2. done[h] + 1 \in DOMAIN Lines(h)
        BY <1>a, <1>c, <3>1 DEF TypeOK, Shape, Steps
      <3>3. line.batch \in Batches /\ line.qty \in Nat
        BY <1>a, <1>c, <3>1, <3>2 DEF Shape, Holding, Writing, Steps
      <3> HIDE DEF line
      <3>4. TypeOK'
        <4>1. itemQty[h] \in [Batches -> Nat]
          BY <1>a DEF TypeOK
        <4>2. [itemQty[h] EXCEPT ![line.batch] = @ + line.qty] \in [Batches -> Nat]
          BY <3>3, <4>1
        <4>3. itemQty' \in [Handlers -> [Batches -> Nat]]
          BY <1>a, <3>1, <4>2 DEF TypeOK
        <4>4. pc' \in [Handlers -> Steps \union {"idle", "done"}]
          BY <1>a, <3>1 DEF TypeOK, Steps
        <4>5. done' \in [Handlers -> Nat]
          BY <1>a, <3>1 DEF TypeOK
        <4> QED
          BY <1>a, <3>1, <4>3, <4>4, <4>5 DEF TypeOK
      <3>5. Shape(h)'
        BY <1>a, <1>c, <3>1, <3>2
          DEF TypeOK, Shape, Holding, Writing, InLine, Lines, Steps
      <3>6. LocalStep(h)
        BY <1>a, <3>1 DEF TypeOK, LocalStep
      <3> QED
        BY <3>4, <3>5, <3>6, LocalStepTypeInv
    <2> QED
      BY <2>1, <2>2
  <1>8. CASE UpdateStock(h)
    <2> USE <1>8 DEF UpdateStock
    <2>1. /\ Current(h).batch \in Batches
          /\ plan[h][done[h]] \in Nat
      <3>1. done[h] \in 1 .. Len(Lines(h)) /\ Len(plan[h]) = Len(Lines(h))
        BY <1>a DEF Shape, Writing, InLine
      <3>2. plan[h] \in Seq(Nat)
        BY <1>a DEF TypeOK
      <3>3. DOMAIN Lines(h) = 1 .. Len(Lines(h))
        BY <1>c, RequestShape DEF Lines, Steps
      <3> QED
        BY <1>a, <3>1, <3>2, <3>3 DEF Shape, Holding, Writing, Current
    <2>2. TypeOK'
      BY <1>a, <2>1 DEF TypeOK, Steps
    <2>3. Shape(h)'
      BY <1>a DEF TypeOK, Shape, Holding, Writing, InLine, Lines
    <2>4. LocalStep(h)
      BY <1>a DEF TypeOK, LocalStep
    <2> QED
      BY <2>2, <2>3, <2>4, LocalStepTypeInv
  <1>9. CASE EvaluateAlerts(h)
    <2> DEFINE b    == Current(h).batch
               step == IF plan[h][done[h]] = 0 THEN "resolve" ELSE AfterLine(h)
    <2>1. CASE Rollback(h, "error")
      BY <1>9, <1>d, <2>1 DEF EvaluateAlerts, Steps, Status
    <2>2. CASE ~Rollback(h, "error")
      <3>1. /\ pc[h] = "alert"
            /\ pc' = [pc EXCEPT ![h] = step]
            /\ \/ newLow' = newLow
               \/ newLow' = [newLow EXCEPT ![h][b] =
                               IF plan[h][done[h]] = 0 THEN "critical" ELSE "warning"]
            /\ UNCHANGED <<access, stock, sales, sold, low, aging, advisory, rowLock, req,
                           remaining, plan, done, seen, itemQty, cleared, reply>>
        BY <1>9, <2>2 DEF EvaluateAlerts
      <3>2. done[h] \in 1 .. Len(Lines(h)) /\ b \in Batches
        BY <1>a, <1>c, <3>1 DEF TypeOK, Shape, Holding, Writing, InLine, Current, Steps
      <3>3. /\ step \in {"resolve", "commit", "item"}
            /\ step = "commit" => done[h] = Len(Lines(h))
            /\ step = "item" => done[h] < Len(Lines(h))
        BY <1>c, <3>1, <3>2 DEF AfterLine, Steps
      <3> HIDE DEF step, b
      <3>4. TypeOK'
        <4> DEFINE mark == IF plan[h][done[h]] = 0 THEN "critical" ELSE "warning"
        <4>1. mark \in Severity
          BY DEF Severity
        <4> HIDE DEF mark
        <4>2. newLow' = newLow \/ newLow' = [newLow EXCEPT ![h][b] = mark]
          BY <3>1 DEF mark
        <4>3. newLow[h] \in [Batches -> Severity]
          BY <1>a DEF TypeOK
        <4>4. [newLow[h] EXCEPT ![b] = mark] \in [Batches -> Severity]
          BY <3>2, <4>1, <4>3
        <4>5. newLow' \in [Handlers -> [Batches -> Severity]]
          BY <1>a, <4>2, <4>4 DEF TypeOK
        <4> QED
          BY <1>a, <3>1, <3>3, <4>5 DEF TypeOK, Steps
      <3>5. Shape(h)'
        BY <1>a, <3>1, <3>2, <3>3 DEF TypeOK, Shape, Holding, Writing, InLine, Lines
      <3>6. LocalStep(h)
        BY <1>a, <3>1 DEF TypeOK, LocalStep
      <3> QED
        BY <3>4, <3>5, <3>6, LocalStepTypeInv
    <2> QED
      BY <2>1, <2>2
  <1>10. CASE ResolveAging(h)
    <2> USE <1>10 DEF ResolveAging
    <2>1. done[h] \in 1 .. Len(Lines(h)) /\ Current(h).batch \in Batches
      BY <1>a, <1>c DEF TypeOK, Shape, Holding, Writing, InLine, Current, Steps
    <2>2. /\ AfterLine(h) \in {"commit", "item"}
          /\ AfterLine(h) = "commit" => done[h] = Len(Lines(h))
          /\ AfterLine(h) = "item" => done[h] < Len(Lines(h))
      BY <1>c, <2>1 DEF AfterLine, Steps
    <2>3. TypeOK'
      BY <1>a, <2>1, <2>2 DEF TypeOK, Steps
    <2>4. Shape(h)'
      BY <1>a, <2>1, <2>2 DEF TypeOK, Shape, Holding, Writing, InLine, Lines
    <2>5. LocalStep(h)
      BY <1>a DEF TypeOK, LocalStep
    <2> QED
      BY <2>3, <2>4, <2>5, LocalStepTypeInv
  <1>11. CASE Commit(h)
    <2> USE <1>11 DEF Commit
    <2>1. Finish(h, "created", plan[h]) /\ "created" \in Status /\ plan[h] \in Seq(Nat)
      BY <1>a DEF TypeOK, Status
    <2>2. UNCHANGED <<access, req, remaining, plan, done, seen, itemQty, newLow, cleared>>
      OBVIOUS
    <2>3. sales' = [sales EXCEPT ![req[h].key] = req[h]]
      OBVIOUS
    <2>4. TypeOK'
      <3>1. sales' \in [Keys -> Requests \union {None}]
        BY <1>a, <1>b, <1>c, <2>3 DEF TypeOK, Steps
      <3>2. stock' \in [Batches -> Nat] /\ sold' \in [Batches -> Nat]
        BY <1>a DEF TypeOK
      <3>3. low' \in [Batches -> Severity]
        BY <1>a DEF TypeOK
      <3>4. aging' \subseteq Batches
        BY <1>a DEF TypeOK
      <3>5. /\ pc' \in [Handlers -> Steps \union {"idle", "done"}]
            /\ reply' \in [Handlers -> [status : Status, left : Seq(Nat)]]
            /\ advisory' \in [Keys -> Handlers \union {None}]
            /\ rowLock' \in [Batches -> Handlers \union {None}]
        BY <1>a, <2>1, FinishTypes
      <3>6. /\ access' \in BOOLEAN
            /\ req' \in [Handlers -> Requests \union {None}]
            /\ remaining' \in [Handlers -> [Batches -> Nat]]
            /\ plan' \in [Handlers -> Seq(Nat)]
            /\ done' \in [Handlers -> Nat]
            /\ seen' \in [Handlers -> [Batches -> Nat]]
            /\ itemQty' \in [Handlers -> [Batches -> Nat]]
            /\ newLow' \in [Handlers -> [Batches -> Severity]]
            /\ cleared' \in [Handlers -> SUBSET Batches]
        BY <1>a, <2>2 DEF TypeOK
      <3> HIDE <1>11
      <3> QED
        BY <3>1, <3>2, <3>3, <3>4, <3>5, <3>6 DEF TypeOK
    <2>5. Shape(h)'
      BY <1>a, <1>b, <2>1, <2>2, FinishTypes DEF Shape, Holding, Writing, InLine, Steps
    <2>6. ASSUME NEW g \in Handlers, g # h PROVE Shape(g)'
      <3>1. /\ pc'[g] = pc[g]
            /\ \A b \in Batches : rowLock[b] = g => rowLock'[b] = g
        BY <1>a, <2>1, <2>6 DEF TypeOK, Finish
      <3>2. \A k \in Keys : sales[k] # None => sales'[k] # None
        BY <1>a, <1>b, <2>3, SalesAssumption DEF TypeOK, Steps
      <3>3. Shape(g)
        BY DEF TypeInv
      <3> QED
        BY <2>2, <3>1, <3>2, <3>3, OtherShape
    <2>7. \A k \in Keys : Recorded(k)'
      BY <1>a, <1>b, <1>c, <2>3 DEF TypeOK, Recorded, Shape, Holding, Writing, Lines, Steps
    <2> QED
      BY <2>4, <2>5, <2>6, <2>7 DEF TypeInv
  <1> QED
    BY <1>1, <1>2, <1>3, <1>4, <1>5, <1>6, <1>7, <1>8, <1>9, <1>10, <1>11 DEF Statement

LEMMA NextTypeInv == TypeInv /\ [Next]_vars => TypeInv'
  <1> SUFFICES ASSUME TypeInv, [Next]_vars PROVE TypeInv'
    OBVIOUS
  <1>a. TypeOK /\ (\A h \in Handlers : Shape(h)) /\ (\A k \in Keys : Recorded(k))
    BY DEF TypeInv
  <1>1. ASSUME NEW h \in Handlers, NEW r \in Requests, Begin(h, r) PROVE TypeInv'
    <2> USE <1>1 DEF Begin, Goto, tables, locks, locals, writes
    <2>1. <<>> \in Seq(Nat) /\ "forbidden" \in Status
      BY DEF Status
    <2>2. TypeOK'
      <3>1. reply' \in [Handlers -> [status : Status, left : Seq(Nat)]]
        <4> DEFINE refused == [status |-> "forbidden", left |-> <<>>]
        <4>1. refused \in [status : Status, left : Seq(Nat)]
          BY <2>1
        <4> HIDE DEF refused
        <4>2. reply' = reply \/ reply' = [reply EXCEPT ![h] = refused]
          BY DEF refused
        <4> QED
          BY <1>a, <4>1, <4>2 DEF TypeOK
      <3>2. pc' \in [Handlers -> Steps \union {"idle", "done"}]
        BY <1>a DEF TypeOK, Steps
      <3>3. req' \in [Handlers -> Requests \union {None}]
        BY <1>a DEF TypeOK
      <3> QED
        BY <1>a, <3>1, <3>2, <3>3 DEF TypeOK
    <2>3. Shape(h)'
      BY <1>a DEF TypeOK, Shape, Holding, Writing, InLine
    <2>4. LocalStep(h)
      BY <1>a DEF TypeOK, LocalStep
    <2> QED
      BY <2>2, <2>3, <2>4, LocalStepTypeInv
  <1>2. ASSUME NEW h \in Handlers, Abort(h) PROVE TypeInv'
    <2>1. "error" \in Status /\ pc[h] # "idle" /\ Rollback(h, "error")
      BY <1>2 DEF Abort, Status, Steps
    <2> QED
      BY <2>1, RollbackTypeInv
  <1>3. CASE SetAccess
    <2> USE <1>3 DEF SetAccess, tables, locks, locals, writes
    <2>1. TypeOK'
      BY <1>a DEF TypeOK
    <2>2. \A h \in Handlers : Shape(h)'
      BY <1>a DEF Shape, Lines
    <2>3. \A k \in Keys : Recorded(k)'
      BY <1>a DEF Recorded
    <2> QED
      BY <2>1, <2>2, <2>3 DEF TypeInv
  <1>4. CASE UNCHANGED vars
    <2> USE <1>4 DEF vars, tables, locks, locals, writes
    <2>1. TypeOK'
      BY <1>a DEF TypeOK
    <2>2. \A h \in Handlers : Shape(h)'
      BY <1>a DEF Shape, Lines
    <2>3. \A k \in Keys : Recorded(k)'
      BY <1>a DEF Recorded
    <2> QED
      BY <2>1, <2>2, <2>3 DEF TypeInv
  <1> QED
    BY <1>1, <1>2, <1>3, <1>4, StatementTypeInv DEF Next, SteadyNext, Quiet

\* TypeOK holds for any number of requests and even when access is revoked in
\* the middle of a sale: no batch ever has a negative quantity, whatever lines
\* SalesService.create is given.
THEOREM TypeCorrect == Spec => []TypeOK
  <1>1. TypeInv => TypeOK
    BY DEF TypeInv
  <1> QED
    BY <1>1, InitTypeInv, NextTypeInv, PTL DEF Spec

-----------------------------------------------------------------------------
\* A handler past its wait for the advisory lock owns the lock of its key, and
\* only that one; row locks are held from _lock_batches to the end.
LockInv ==
    /\ \A h \in Handlers : pc[h] \in Steps \ {"advisory"} => advisory[req[h].key] = h
    /\ \A h \in Handlers, k \in Keys :
         advisory[k] = h => pc[h] \in Steps \ {"advisory"} /\ req[h].key = k
    /\ \A h \in Handlers, b \in Batches :
         rowLock[b] = h => pc[h] \in Holding \union {"lock"}

LEMMA InitLockInv == Init => LockInv
  BY SalesAssumption DEF Init, LockInv, Steps

\* The keys of running requests are keys of the tenant.
LEMMA RunningKey ==
    ASSUME TypeInv, NEW h \in Handlers, pc[h] # "idle"
    PROVE  req[h] \in Requests /\ req[h].key \in Keys
  BY SalesAssumption DEF TypeInv, Shape

LEMMA FinishLockInv ==
    ASSUME TypeInv, LockInv, NEW h \in Handlers, NEW status, NEW left,
           Finish(h, status, left), req' = req
    PROVE  LockInv'
  <1> USE DEF Finish, Goto
  <1>1. TypeOK
    BY DEF TypeInv
  <1>2. \A g \in Handlers : pc'[g] \in Steps => g # h /\ pc'[g] = pc[g]
    BY <1>1 DEF TypeOK, Steps
  <1>3. ASSUME NEW g \in Handlers, pc'[g] \in Steps \ {"advisory"}
        PROVE  advisory'[req'[g].key] = g
    BY <1>2, <1>3, RunningKey DEF LockInv, Steps
  <1>4. ASSUME NEW g \in Handlers, NEW k \in Keys, advisory'[k] = g
        PROVE  pc'[g] \in Steps \ {"advisory"} /\ req'[g].key = k
    BY <1>1, <1>4, SalesAssumption DEF LockInv, TypeOK
  <1>5. ASSUME NEW g \in Handlers, NEW b \in Batches, rowLock'[b] = g
        PROVE  pc'[g] \in Holding \union {"lock"}
    <2>1. rowLock[b] = g /\ g # h
      BY <1>1, <1>5, SalesAssumption DEF TypeOK
    <2>2. pc'[g] = pc[g]
      BY <1>1, <2>1 DEF TypeOK
    <2> QED
      BY <2>1, <2>2 DEF LockInv
  <1> QED
    BY <1>3, <1>4, <1>5 DEF LockInv

\* A statement that leaves the lock tables alone, on a handler that goes on.
LEMMA MoveLockInv ==
    ASSUME TypeInv, LockInv, NEW h \in Handlers,
           pc[h] \in Steps \ {"advisory"}, NEW step \in Steps \ {"advisory"},
           pc[h] \in Holding \union {"lock"} => step \in Holding,
           pc' = [pc EXCEPT ![h] = step], UNCHANGED <<advisory, rowLock, req>>
    PROVE  LockInv'
  <1>1. TypeOK
    BY DEF TypeInv
  <1>2. pc'[h] = step /\ \A g \in Handlers \ {h} : pc'[g] = pc[g]
    BY <1>1 DEF TypeOK
  <1> QED
    BY <1>2 DEF LockInv

LEMMA StatementLockInv ==
    ASSUME TypeInv, LockInv, NEW h \in Handlers, Statement(h)
    PROVE  LockInv'
  <1> USE DEF Goto, tables, locks, locals, writes
  <1>a. TypeOK
    BY DEF TypeInv
  <1>b. ASSUME NEW status, Rollback(h, status) PROVE LockInv'
    BY <1>b, FinishLockInv DEF Rollback
  <1>1. CASE TakeAdvisoryLock(h)
    <2> USE <1>1 DEF TakeAdvisoryLock
    <2>1. req[h].key \in Keys
      BY RunningKey
    <2>2. /\ pc'[h] = "load"
          /\ \A g \in Handlers \ {h} : pc'[g] = pc[g]
          /\ advisory'[req[h].key] = h
          /\ \A k \in Keys \ {req[h].key} : advisory'[k] = advisory[k]
      BY <1>a, <2>1 DEF TypeOK
    <2>3. \A g \in Handlers \ {h} : pc[g] \in Steps => req[g].key \in Keys
      BY RunningKey DEF Steps
    <2> QED
      BY <2>1, <2>2, <2>3, SalesAssumption DEF LockInv, Steps, Holding, Writing
  <1>2. CASE LoadSale(h)
    <2> DEFINE step == IF access /\ sales[req[h].key] # None THEN "items" ELSE "lock"
    <2>1. \A b \in Batches : rowLock[b] # h
      BY <1>2 DEF LoadSale, LockInv, Holding, Writing
    <2>2. step \in {"items", "lock"}
      OBVIOUS
    <2> HIDE DEF step
    <2>3. pc'[h] = step /\ \A g \in Handlers \ {h} : pc'[g] = pc[g]
      BY <1>2, <1>a DEF LoadSale, TypeOK, step
    <2> QED
      BY <1>2, <2>1, <2>2, <2>3 DEF LoadSale, LockInv, Steps
  <1>3. CASE LoadItems(h)
    <2>1. req' = req /\ \E status, left : Finish(h, status, left)
      BY <1>3 DEF LoadItems
    <2> QED
      BY <2>1, FinishLockInv
  <1>4. CASE LockBatch(h)
    <2>1. CASE \E status : Rollback(h, status)
      BY <1>b, <2>1
    <2>2. CASE ~\E status : Rollback(h, status)
      <3>1. PICK b \in Batches, step \in {"validate", "lock"} :
              /\ pc[h] = "lock"
              /\ rowLock[b] = None
              /\ rowLock' = [rowLock EXCEPT ![b] = h]
              /\ pc' = [pc EXCEPT ![h] = step]
              /\ UNCHANGED <<advisory, req>>
        BY <1>4, <2>2 DEF LockBatch
      <3>2. /\ pc'[h] = step
            /\ \A g \in Handlers \ {h} : pc'[g] = pc[g]
            /\ rowLock'[b] = h
            /\ \A c \in Batches \ {b} : rowLock'[c] = rowLock[c]
        BY <1>a, <3>1 DEF TypeOK
      <3> QED
        BY <3>1, <3>2 DEF LockInv, Steps, Holding, Writing
    <2> QED
      BY <2>1, <2>2
  <1>5. CASE ValidateLine(h)
    <2>1. CASE \E status : Rollback(h, status)
      BY <1>b, <2>1
    <2>2. CASE ~\E status : Rollback(h, status)
      <3>1. PICK step \in {"insert", "validate"} :
              /\ pc[h] = "validate"
              /\ pc' = [pc EXCEPT ![h] = step]
              /\ UNCHANGED <<advisory, rowLock, req>>
        BY <1>5, <2>2 DEF ValidateLine
      <3> QED
        BY <3>1, MoveLockInv DEF Steps, Holding, Writing
    <2> QED
      BY <2>1, <2>2
  <1>6. CASE InsertSale(h)
    <2>1. CASE \E status : Rollback(h, status)
      BY <1>b, <2>1
    <2>2. CASE ~\E status : Rollback(h, status)
      BY <1>6, <2>2, MoveLockInv DEF InsertSale, Steps, Holding, Writing
    <2> QED
      BY <2>1, <2>2
  <1>7. CASE InsertItem(h)
    <2>1. CASE \E status : Rollback(h, status)
      BY <1>b, <2>1
    <2>2. CASE ~\E status : Rollback(h, status)
      BY <1>7, <2>2, MoveLockInv DEF InsertItem, Steps, Holding, Writing
    <2> QED
      BY <2>1, <2>2
  <1>8. CASE UpdateStock(h)
    BY <1>8, MoveLockInv DEF UpdateStock, Steps, Holding, Writing
  <1>9. CASE EvaluateAlerts(h)
    <2>1. CASE \E status : Rollback(h, status)
      BY <1>b, <2>1
    <2>2. CASE ~\E status : Rollback(h, status)
      <3>1. PICK step \in {"resolve", "commit", "item"} :
              /\ pc[h] = "alert"
              /\ pc' = [pc EXCEPT ![h] = step]
              /\ UNCHANGED <<advisory, rowLock, req>>
        BY <1>9, <2>2 DEF EvaluateAlerts, AfterLine
      <3> QED
        BY <3>1, MoveLockInv DEF Steps, Holding, Writing
    <2> QED
      BY <2>1, <2>2
  <1>10. CASE ResolveAging(h)
    <2>1. AfterLine(h) \in {"commit", "item"}
      BY DEF AfterLine
    <2> QED
      BY <1>10, <2>1, MoveLockInv DEF ResolveAging, Steps, Holding, Writing
  <1>11. CASE Commit(h)
    BY <1>11, FinishLockInv DEF Commit
  <1> QED
    BY <1>1, <1>2, <1>3, <1>4, <1>5, <1>6, <1>7, <1>8, <1>9, <1>10, <1>11 DEF Statement

LEMMA NextLockInv == TypeInv /\ LockInv /\ [Next]_vars => LockInv'
  <1> SUFFICES ASSUME TypeInv, LockInv, [Next]_vars PROVE LockInv'
    OBVIOUS
  <1>a. TypeOK
    BY DEF TypeInv
  <1>1. ASSUME NEW h \in Handlers, NEW r \in Requests, Begin(h, r) PROVE LockInv'
    <2>1. /\ pc[h] = "idle"
          /\ pc'[h] \in {"advisory", "done"}
          /\ \A g \in Handlers \ {h} : pc'[g] = pc[g] /\ req'[g] = req[g]
          /\ UNCHANGED <<advisory, rowLock>>
      BY <1>a, <1>1 DEF TypeOK, Begin, Goto, locks
    <2>2. \A k \in Keys : advisory[k] # h
      BY <2>1 DEF LockInv, Steps
    <2>3. \A b \in Batches : rowLock[b] # h
      BY <2>1 DEF LockInv, Holding, Writing
    <2> QED
      BY <2>1, <2>2, <2>3 DEF LockInv, Steps
  <1>2. ASSUME NEW h \in Handlers, Abort(h) PROVE LockInv'
    BY <1>2, FinishLockInv DEF Abort, Rollback
  <1>3. CASE SetAccess
    BY <1>3 DEF SetAccess, locks, LockInv
  <1>4. CASE UNCHANGED vars
    BY <1>4 DEF vars, locks, LockInv
  <1> QED
    BY <1>1, <1>2, <1>3, <1>4, StatementLockInv DEF Next, SteadyNext, Quiet

\* Whatever way a request ends - an answer, an exception, a lost connection -
\* it leaves no key and no batch locked behind it.
THEOREM LocksReleased == Spec => []LocksBelongToRunning
  <1>1. TypeInv /\ LockInv => LocksBelongToRunning
    <2> SUFFICES ASSUME TypeInv, LockInv PROVE LocksBelongToRunning
      OBVIOUS
    <2> QED
      BY DEF TypeInv, TypeOK, LockInv, LocksBelongToRunning, Steps, Holding, Writing
  <1> QED
    BY <1>1, InitTypeInv, NextTypeInv, InitLockInv, NextLockInv, PTL DEF Spec
-----------------------------------------------------------------------------
(* The key is locked before the rows, and the rows in the order of their ids. *)

\* While it locks, a handler holds exactly the first of the rows it needs.
HoldsFirst(h) ==
    pc[h] = "lock" =>
        \A b \in Batches : rowLock[b] = h =>
            \A c \in Needed(h) : c < b => c \in Batches /\ rowLock[c] = h

OrderInv == TypeInv /\ LockInv /\ \A h \in Handlers : HoldsFirst(h)

-----------------------------------------------------------------------------
LEMMA HoldsNone ==
    ASSUME LockInv, NEW h \in Handlers, pc[h] \notin Holding \union {"lock"}
    PROVE  \A b \in Batches : rowLock[b] # h
  BY DEF LockInv

\* A step of another handler takes no row from h and gives it none.
LEMMA OtherHoldsFirst ==
    ASSUME NEW h \in Handlers, HoldsFirst(h), pc'[h] = pc[h], req'[h] = req[h],
           \A b \in Batches : rowLock'[b] = h <=> rowLock[b] = h
    PROVE  HoldsFirst(h)'
  BY DEF HoldsFirst, Needed, Lines

LEMMA NextOrderInv == OrderInv /\ [Next]_vars => OrderInv'
  <1> SUFFICES ASSUME OrderInv, [Next]_vars PROVE \A h \in Handlers : HoldsFirst(h)'
    BY NextTypeInv, NextLockInv DEF OrderInv
  <1> USE DEF Goto, tables, locks, locals, writes
  <1>a. TypeOK /\ TypeInv /\ LockInv /\ \A h \in Handlers : HoldsFirst(h)
    BY DEF OrderInv, TypeInv
  <1>b. ASSUME NEW h \in Handlers, NEW status, NEW left, Finish(h, status, left), req' = req
        PROVE  \A g \in Handlers : HoldsFirst(g)'
    <2>1. ASSUME NEW g \in Handlers, g # h PROVE HoldsFirst(g)'
      <3>0. g # None
        BY SalesAssumption
      <3>1. pc'[g] = pc[g]
        BY <1>a, <1>b, <2>1 DEF TypeOK, Finish
      <3>2. \A b \in Batches : rowLock'[b] = g <=> rowLock[b] = g
        BY <1>a, <1>b, <2>1, <3>0 DEF TypeOK, Finish
      <3> QED
        BY <1>a, <1>b, <3>1, <3>2, OtherHoldsFirst
    <2>2. pc'[h] = "done"
      BY <1>a, <1>b DEF TypeOK, Finish
    <2> QED
      BY <2>1, <2>2 DEF HoldsFirst
  \* A step that moves no row lock of a handler that has none, or is past locking.
  <1>c. ASSUME NEW h \in Handlers, rowLock' = rowLock,
               \A g \in Handlers \ {h} : pc'[g] = pc[g] /\ req'[g] = req[g],
               pc'[h] = "lock" => \A b \in Batches : rowLock[b] # h
        PROVE  \A g \in Handlers : HoldsFirst(g)'
    <2>1. ASSUME NEW g \in Handlers, g # h PROVE HoldsFirst(g)'
      BY <1>a, <1>c, <2>1, OtherHoldsFirst
    <2>2. HoldsFirst(h)'
      BY <1>c DEF HoldsFirst
    <2> QED
      BY <2>1, <2>2
  <1>1. ASSUME NEW h \in Handlers, NEW r \in Requests, Begin(h, r)
        PROVE  \A g \in Handlers : HoldsFirst(g)'
    <2>1. /\ rowLock' = rowLock /\ pc'[h] # "lock"
          /\ \A g \in Handlers \ {h} : pc'[g] = pc[g] /\ req'[g] = req[g]
      BY <1>1, <1>a DEF Begin, TypeOK
    <2> QED
      BY <1>c, <2>1
  <1>2. ASSUME NEW h \in Handlers, TakeAdvisoryLock(h) \/ LoadSale(h)
        PROVE  \A g \in Handlers : HoldsFirst(g)'
    <2>1. /\ rowLock' = rowLock /\ req' = req /\ pc[h] \in {"advisory", "load"}
          /\ \A g \in Handlers \ {h} : pc'[g] = pc[g]
      BY <1>2, <1>a DEF TakeAdvisoryLock, LoadSale, TypeOK
    <2>2. \A b \in Batches : rowLock[b] # h
      BY <1>a, <2>1, HoldsNone DEF Holding, Writing
    <2> QED
      BY <1>c, <2>1, <2>2
  <1>3. ASSUME NEW h \in Handlers, LockBatch(h) PROVE \A g \in Handlers : HoldsFirst(g)'
    <2> DEFINE missing == {b \in Needed(h) : b \notin Batches \/ rowLock[b] # h}
    <2>1. CASE \E status : Rollback(h, status)
      BY <1>b, <2>1 DEF Rollback
    <2>2. CASE ~\E status : Rollback(h, status)
      <3>1. PICK b \in missing :
              /\ \A c \in missing : b <= c
              /\ b \in Batches
              /\ rowLock[b] = None
              /\ rowLock' = [rowLock EXCEPT ![b] = h]
              /\ \E step : pc' = [pc EXCEPT ![h] = step]
              /\ req' = req
        BY <1>3, <2>2 DEF LockBatch
      <3>2. /\ pc[h] = "lock" /\ rowLock'[b] = h
            /\ \A c \in Batches \ {b} : rowLock'[c] = rowLock[c]
            /\ \A g \in Handlers \ {h} : pc'[g] = pc[g]
            /\ Needed(h)' = Needed(h)
        BY <1>3, <1>a, <3>1 DEF LockBatch, TypeOK, Needed, Lines
      <3>3. \A c \in Needed(h) : c \in Nat
        <4>1. req[h] \in Requests
          BY <1>a, <3>2, RunningKey
        <4> QED
          BY <4>1, RequestShape DEF Needed, Lines
      <3>4. ASSUME NEW g \in Handlers, g # h PROVE HoldsFirst(g)'
        <4>1. \A c \in Batches : rowLock'[c] = g <=> rowLock[c] = g
          BY <3>1, <3>2, <3>4, SalesAssumption
        <4> QED
          BY <1>a, <3>1, <3>2, <3>4, <4>1, OtherHoldsFirst
      <3>5. HoldsFirst(h)'
        <4> SUFFICES ASSUME NEW d \in Batches, rowLock'[d] = h, NEW c \in Needed(h), c < d
                     PROVE  c \in Batches /\ rowLock'[c] = h
          BY <3>2 DEF HoldsFirst
        <4>1. CASE d = b
          <5>1. c \notin missing
            BY <3>1, <3>3, <4>1, SalesAssumption
          <5> QED
            BY <3>1, <3>2, <5>1
        <4>2. CASE d # b
          <5>1. rowLock[d] = h
            BY <3>2, <4>2
          <5>2. c \in Batches /\ rowLock[c] = h
            BY <1>a, <3>2, <5>1 DEF HoldsFirst
          <5> QED
            BY <3>1, <3>2, <5>2
        <4> QED
          BY <4>1, <4>2
      <3> QED
        BY <3>4, <3>5
    <2> QED
      BY <2>1, <2>2
  <1>4. ASSUME NEW h \in Handlers, Statement(h),
               ~(TakeAdvisoryLock(h) \/ LoadSale(h) \/ LockBatch(h))
        PROVE  \A g \in Handlers : HoldsFirst(g)'
    <2>1. CASE \E status, left : Finish(h, status, left)
      <3>1. req' = req
        BY <1>4 DEF Statement, LoadItems, ValidateLine, InsertSale, InsertItem, UpdateStock,
               EvaluateAlerts, ResolveAging, Commit, Rollback
      <3> QED
        BY <1>b, <2>1, <3>1
    <2>2. CASE ~\E status, left : Finish(h, status, left)
      <3>1. /\ rowLock' = rowLock /\ req' = req
            /\ \E step \in Steps \ {"lock"} : pc' = [pc EXCEPT ![h] = step]
        BY <1>4, <2>2
          DEF Statement, LoadItems, ValidateLine, InsertSale, InsertItem, UpdateStock,
              EvaluateAlerts, ResolveAging, Commit, Rollback, AfterLine, Steps
      <3>2. pc'[h] # "lock" /\ \A g \in Handlers \ {h} : pc'[g] = pc[g]
        BY <1>a, <3>1 DEF TypeOK
      <3> QED
        BY <1>c, <3>1, <3>2
    <2> QED
      BY <2>1, <2>2
  <1>5. ASSUME NEW h \in Handlers, Abort(h) PROVE \A g \in Handlers : HoldsFirst(g)'
    BY <1>5, <1>b DEF Abort, Rollback
  <1>6. CASE SetAccess \/ UNCHANGED vars
    BY <1>6, <1>a DEF SetAccess, vars, HoldsFirst, Needed, Lines
  <1> QED
    BY <1>1, <1>2, <1>3, <1>4, <1>5, <1>6 DEF Next, SteadyNext, Quiet

-----------------------------------------------------------------------------
\* The batch whose row h waits for.
Waits(h, b) ==
    /\ pc[h] = "lock"
    /\ b \in Needed(h) \intersect Batches
    /\ \A c \in Needed(h) : c < b => c \in Batches /\ rowLock[c] = h

\* Who holds the row that another waits for, itself waits for a later row only.
LEMMA WaitsUpwards ==
    ASSUME OrderInv, NEW h \in Handlers, NEW g \in Handlers, NEW f \in Handlers,
           NEW b, NEW c, Waits(h, b), rowLock[b] = g, Waits(g, c), rowLock[c] = f, f # g
    PROVE  b < c
  <1>1. b \in Nat /\ c \in Nat /\ b \in Batches /\ c \in Needed(g)
    BY SalesAssumption DEF Waits
  <1>2. c # b
    OBVIOUS
  <1>3. ~(c < b)
    BY <1>1 DEF OrderInv, HoldsFirst, Waits
  <1> QED
    BY <1>1, <1>2, <1>3

\* With batch ids below some bound, which those of a table always are, no set
\* of requests waits in a circle, however many there are, whatever batches each
\* sells in whatever order, and whoever loses access meanwhile.
THEOREM NoDeadlock ==
    ASSUME NEW m \in Nat, \A b \in Batches : b <= m
    PROVE  Spec => []NoWaitCycle
  <1>1. OrderInv => NoWaitCycle
    <2> SUFFICES ASSUME OrderInv, NEW S \in SUBSET Handlers, S # {}
                 PROVE  \E h \in S : \A g \in S : ~WaitsFor(h, g)
      BY DEF NoWaitCycle
    <2> DEFINE T == {b \in Batches : \E h, g \in S : h # g /\ Waits(h, b) /\ rowLock[b] = g}
    <2>1. ASSUME NEW h \in S, NEW g \in S, WaitsFor(h, g)
          PROVE  \/ pc[h] = "advisory" /\ pc[g] # "advisory"
                 \/ \E b \in T : Waits(h, b) /\ rowLock[b] = g /\ h # g
      <3>1. CASE pc[h] = "advisory" /\ advisory[req[h].key] = g
        <4>1. req[h].key \in Keys
          BY <3>1, RunningKey DEF OrderInv
        <4> QED
          BY <3>1, <4>1 DEF OrderInv, LockInv
      <3>2. CASE pc[h] = "lock"
        <4>1. PICK b \in Needed(h) \intersect Batches :
                rowLock[b] = g /\ \A c \in Needed(h) : c < b => c \in Batches /\ rowLock[c] = h
          BY <2>1, <3>2 DEF WaitsFor
        <4>2. Waits(h, b) /\ h # g
          BY <2>1, <3>2, <4>1 DEF Waits, WaitsFor
        <4> QED
          BY <4>1, <4>2
      <3> QED
        BY <2>1, <3>1, <3>2 DEF WaitsFor
    <2>2. CASE T = {}
      \* Only keys are waited for, and whoever holds one waits for none.
      BY <2>1, <2>2
    <2>3. CASE T # {}
      <3>1. T \subseteq 0 .. m
        BY SalesAssumption
      <3>2. PICK b \in T : \A c \in T : c <= b
        BY <2>3, <3>1, Greatest
      <3>3. PICK h \in S, g \in S : h # g /\ Waits(h, b) /\ rowLock[b] = g
        BY <3>2
      \* The holder of the greatest row waited for waits for nobody.
      <3>4. ASSUME NEW f \in S, WaitsFor(g, f) PROVE FALSE
        <4>1. pc[g] # "advisory"
          BY <3>3 DEF OrderInv, LockInv, Holding, Writing
        <4>2. PICK c \in T : Waits(g, c) /\ rowLock[c] = f /\ g # f
          BY <2>1, <3>4, <4>1
        <4>3. b < c
          BY <3>3, <4>2, WaitsUpwards
        <4>4. b \in Nat /\ c \in Nat
          BY SalesAssumption
        <4> QED
          BY <3>2, <4>3, <4>4
      <3> QED
        BY <3>4
    <2> QED
      BY <2>2, <2>3
  <1>2. Init => OrderInv
    <2>1. Init => \A h \in Handlers : HoldsFirst(h)
      BY DEF Init, HoldsFirst
    <2> QED
      BY <2>1, InitTypeInv, InitLockInv DEF OrderInv
  <1> QED
    BY <1>1, <1>2, NextOrderInv, PTL DEF Spec

-----------------------------------------------------------------------------
\* v is what the first n lines leave of batch b, when start was there before
\* them and left[i] is the quantity computed for line i: the quantity of the
\* last of these lines about b, or start when none is.
LeavesOf(lines, left, start, n, b, v) ==
    \/ /\ \A i \in 1 .. n : lines[i].batch # b
       /\ v = start
    \/ \E i \in 1 .. n :
         /\ lines[i].batch = b
         /\ v = left[i]
         /\ \A j \in i + 1 .. n : lines[j].batch # b

Leaves(h, n, b, v) == LeavesOf(Lines(h), plan[h], stock[b], n, b, v)

\* Lines whose new quantity has reached the handler's version of the row.
Applied(h) == IF pc[h] = "update" THEN done[h] - 1 ELSE done[h]

\* What the sale_item under way has taken that is not yet deducted.
InFlight(h, b) ==
    IF pc[h] = "update" /\ Current(h).batch = b THEN Current(h).qty ELSE 0

\* The plan subtracts each line from what the lines before it leave.
PlanRight(h) ==
    pc[h] \in Holding =>
        \A i \in DOMAIN plan[h] :
            Leaves(h, i - 1, Lines(h)[i].batch, plan[h][i] + Lines(h)[i].qty)

\* The dict of the validation loop and the plan are where the lines handled so
\* far leave each row.  The handler's version of the row, which an update without
\* access leaves as it was, has at least that; it has exactly that as long as
\* nobody's access changes (kind = "exact").
RowRight(h, b, kind) ==
    rowLock[b] = h =>
        /\ pc[h] \in {"lock", "validate"} => Leaves(h, Len(plan[h]), b, remaining[h][b])
        /\ \E v \in Nat :
             Leaves(h, Applied(h), b, v) /\ v + itemQty[h][b] = stock[b] + InFlight(h, b)
        /\ seen[h][b] <= stock[b]
        /\ seen[h][b] + itemQty[h][b] >= stock[b] + InFlight(h, b)
        /\ kind = "exact" => seen[h][b] + itemQty[h][b] = stock[b] + InFlight(h, b)

\* A running handler has sold nothing from the rows it does not hold.
ItemsOnHeldRows(h, b) == pc[h] # "done" /\ rowLock[b] # h => itemQty[h][b] = 0

BooksOf(h, kind) ==
    PlanRight(h) /\ \A b \in Batches : RowRight(h, b, kind) /\ ItemsOnHeldRows(h, b)

Books(kind) == \A h \in Handlers : BooksOf(h, kind)

\* A handler that has inserted its sale is the only one that can record its key.
KeyFree == \A h \in Handlers : pc[h] \in Writing \ {"insert"} => sales[req[h].key] = None

StockInv == TypeInv /\ LockInv /\ KeyFree /\ Books("surplus") /\ NoUnrecordedDeduction

SteadyInv == TypeInv /\ LockInv /\ access = TRUE /\ KeyStillFree /\ Conserved /\ Books("exact")

-----------------------------------------------------------------------------
LEMMA LeavesUnique ==
    ASSUME NEW lines, NEW left, NEW start, NEW n \in Nat, NEW b, NEW v, NEW w,
           LeavesOf(lines, left, start, n, b, v), LeavesOf(lines, left, start, n, b, w)
    PROVE  v = w
  <1>1. CASE \A i \in 1 .. n : lines[i].batch # b
    BY <1>1 DEF LeavesOf
  <1>2. CASE ~\A i \in 1 .. n : lines[i].batch # b
    <2>1. PICK i \in 1 .. n :
            lines[i].batch = b /\ v = left[i] /\ \A j \in i + 1 .. n : lines[j].batch # b
      BY <1>2 DEF LeavesOf
    <2>2. PICK k \in 1 .. n :
            lines[k].batch = b /\ w = left[k] /\ \A j \in k + 1 .. n : lines[j].batch # b
      BY <1>2 DEF LeavesOf
    <2>3. i = k
      BY <2>1, <2>2
    <2> QED
      BY <2>1, <2>2, <2>3
  <1> QED
    BY <1>1, <1>2

\* A line about another batch leaves b as it was.
LEMMA LeavesSkip ==
    ASSUME NEW lines, NEW left, NEW start, NEW n \in Nat, NEW b, NEW v,
           lines[n + 1].batch # b, LeavesOf(lines, left, start, n, b, v)
    PROVE  LeavesOf(lines, left, start, n + 1, b, v)
  <1>1. CASE \A i \in 1 .. n : lines[i].batch # b
    <2>1. v = start
      BY <1>1 DEF LeavesOf
    <2>2. \A i \in 1 .. n + 1 : lines[i].batch # b
      <3> TAKE i \in 1 .. n + 1
      <3> i \in 1 .. n \/ i = n + 1
        OBVIOUS
      <3> QED
        BY <1>1
    <2> QED
      BY <2>1, <2>2 DEF LeavesOf
  <1>2. CASE ~\A i \in 1 .. n : lines[i].batch # b
    <2>1. PICK i \in 1 .. n :
            lines[i].batch = b /\ v = left[i] /\ \A j \in i + 1 .. n : lines[j].batch # b
      BY <1>2 DEF LeavesOf
    <2>2. i \in 1 .. n + 1
      OBVIOUS
    <2>3. \A j \in i + 1 .. n + 1 : lines[j].batch # b
      <3> TAKE j \in i + 1 .. n + 1
      <3> j \in i + 1 .. n \/ j = n + 1
        OBVIOUS
      <3> QED
        BY <2>1
    <2> QED
      BY <2>1, <2>2, <2>3 DEF LeavesOf
  <1> QED
    BY <1>1, <1>2

\* A line about b leaves the quantity computed for it.
LEMMA LeavesTake ==
    ASSUME NEW lines, NEW left, NEW start, NEW n \in Nat, NEW b, lines[n + 1].batch = b
    PROVE  LeavesOf(lines, left, start, n + 1, b, left[n + 1])
  <1>1. n + 1 \in 1 .. n + 1 /\ \A j \in (n + 1) + 1 .. n + 1 : lines[j].batch # b
    OBVIOUS
  <1> QED
    BY <1>1 DEF LeavesOf

LEMMA LeavesFrame ==
    ASSUME NEW lines, NEW left, NEW left2, NEW start, NEW n \in Nat, NEW b, NEW v,
           \A i \in 1 .. n : left2[i] = left[i], LeavesOf(lines, left, start, n, b, v)
    PROVE  LeavesOf(lines, left2, start, n, b, v)
  BY DEF LeavesOf

-----------------------------------------------------------------------------
\* Steps of other handlers leave the books of g right: they move neither its
\* own variables nor the stock of the rows it holds.
LEMMA OtherBooks ==
    ASSUME NEW kind, TypeInv, NEW g \in Handlers, BooksOf(g, kind),
           pc'[g] = pc[g], req'[g] = req[g], plan'[g] = plan[g], done'[g] = done[g],
           remaining'[g] = remaining[g], seen'[g] = seen[g], itemQty'[g] = itemQty[g],
           \A b \in Batches : rowLock'[b] = g <=> rowLock[b] = g,
           \A b \in Batches : rowLock[b] = g => stock'[b] = stock[b]
    PROVE  BooksOf(g, kind)'
  <1>1. Lines(g)' = Lines(g) /\ Applied(g)' = Applied(g)
    BY DEF Lines, Applied
  <1>2. \A b \in Batches : InFlight(g, b)' = InFlight(g, b)
    BY <1>1 DEF InFlight, Current
  <1>3. PlanRight(g)'
    <2> SUFFICES ASSUME pc[g] \in Holding, NEW i \in DOMAIN plan[g]
                 PROVE  Leaves(g, i - 1, Lines(g)[i].batch, plan[g][i] + Lines(g)[i].qty)'
      BY DEF PlanRight
    <2>1. Leaves(g, i - 1, Lines(g)[i].batch, plan[g][i] + Lines(g)[i].qty)
      BY DEF BooksOf, PlanRight
    <2>2. plan[g] \in Seq(Nat) /\ req[g] \in Requests /\ Len(plan[g]) <= Len(Lines(g))
      BY DEF TypeInv, TypeOK, Shape, Holding, Writing
    <2>3. i \in DOMAIN Lines(g)
      BY <2>2, RequestShape DEF Lines
    <2>4. stock'[Lines(g)[i].batch] = stock[Lines(g)[i].batch]
      BY <2>3 DEF TypeInv, Shape
    <2> QED
      BY <1>1, <2>1, <2>4 DEF Leaves
  <1>4. ASSUME NEW b \in Batches PROVE RowRight(g, b, kind)'
    BY <1>1, <1>2 DEF BooksOf, RowRight, Leaves
  <1>5. ASSUME NEW b \in Batches PROVE ItemsOnHeldRows(g, b)'
    BY DEF BooksOf, ItemsOnHeldRows
  <1> QED
    BY <1>3, <1>4, <1>5 DEF BooksOf

\* The same for all the other handlers at once.
OthersUntouched(h) ==
    \A g \in Handlers \ {h} :
        /\ pc'[g] = pc[g] /\ req'[g] = req[g] /\ plan'[g] = plan[g] /\ done'[g] = done[g]
        /\ remaining'[g] = remaining[g] /\ seen'[g] = seen[g] /\ itemQty'[g] = itemQty[g]
        /\ \A b \in Batches : rowLock'[b] = g <=> rowLock[b] = g
        /\ \A b \in Batches : rowLock[b] = g => stock'[b] = stock[b]

LEMMA BooksByHandler ==
    ASSUME NEW kind, TypeInv, Books(kind), NEW h \in Handlers, OthersUntouched(h),
           BooksOf(h, kind)'
    PROVE  Books(kind)'
  <1>1. ASSUME NEW g \in Handlers, g # h PROVE BooksOf(g, kind)'
    <2>1. BooksOf(g, kind)
      BY DEF Books, BooksOf, BooksOf
    <2> QED
      BY <1>1, <2>1, OtherBooks DEF OthersUntouched
  <1> QED
    BY <1>1 DEF Books, BooksOf, BooksOf

\* A transaction that ends has no books left to keep.
LEMMA FinishBooks ==
    ASSUME NEW kind, TypeInv, Books(kind), NEW h \in Handlers, NEW status, NEW left,
           Finish(h, status, left),
           UNCHANGED <<req, remaining, plan, done, seen, itemQty>>,
           \A b \in Batches : rowLock[b] # h => stock'[b] = stock[b]
    PROVE  Books(kind)'
  <1>1. TypeOK
    BY DEF TypeInv
  <1>2. /\ pc'[h] = "done"
        /\ \A g \in Handlers \ {h} : pc'[g] = pc[g]
        /\ \A b \in Batches : rowLock'[b] # h
        /\ \A g \in Handlers \ {h}, b \in Batches : rowLock'[b] = g <=> rowLock[b] = g
    <2>1. None \notin Handlers
      BY SalesAssumption
    <2>2. pc'[h] = "done" /\ \A g \in Handlers \ {h} : pc'[g] = pc[g]
      BY <1>1 DEF TypeOK, Finish, Goto
    <2>3. \A b \in Batches : rowLock'[b] = IF rowLock[b] = h THEN None ELSE rowLock[b]
      BY <1>1 DEF TypeOK, Finish
    <2> QED
      BY <2>1, <2>2, <2>3
  <1>3. BooksOf(h, kind)'
    BY <1>2 DEF BooksOf, PlanRight, RowRight, ItemsOnHeldRows, Holding, Writing
  <1>4. OthersUntouched(h)
    BY <1>2 DEF OthersUntouched
  <1> QED
    BY <1>3, <1>4, BooksByHandler

\* A handler that holds no row yet, and has nothing in flight, keeps its books.
LEMMA EarlyBooks ==
    ASSUME NEW kind, TypeInv, LockInv, Books(kind), NEW h \in Handlers,
           pc[h] \in {"idle", "advisory", "load", "items"},
           NEW step \in {"advisory", "load", "items", "lock", "done"},
           pc' = [pc EXCEPT ![h] = step],
           \A g \in Handlers \ {h} : req'[g] = req[g],
           UNCHANGED <<stock, rowLock, remaining, plan, done, seen, itemQty>>
    PROVE  Books(kind)'
  <1>1. TypeOK
    BY DEF TypeInv
  <1>2. pc'[h] = step /\ \A g \in Handlers \ {h} : pc'[g] = pc[g]
    BY <1>1 DEF TypeOK
  <1>3. \A b \in Batches : rowLock[b] # h
    BY DEF LockInv, Holding, Writing
  <1>4. BooksOf(h, kind)'
    BY <1>2, <1>3
      DEF Books, BooksOf, PlanRight, RowRight, ItemsOnHeldRows, Holding, Writing
  <1>5. OthersUntouched(h)
    BY <1>2 DEF OthersUntouched
  <1> QED
    BY <1>4, <1>5, BooksByHandler

\* From one statement of the writing loop to another when no row is written.
LEMMA MoveBooks ==
    ASSUME NEW kind, TypeInv, Books(kind), NEW h \in Handlers,
           pc[h] \in Writing \ {"update"}, NEW step \in Writing \ {"update"},
           pc' = [pc EXCEPT ![h] = step],
           UNCHANGED <<req, stock, rowLock, remaining, plan, done, seen, itemQty>>
    PROVE  Books(kind)'
  <1>1. TypeOK
    BY DEF TypeInv
  <1>2. pc'[h] = step /\ \A g \in Handlers \ {h} : pc'[g] = pc[g]
    BY <1>1 DEF TypeOK
  <1>3. Lines(h)' = Lines(h) /\ Applied(h)' = Applied(h)
    BY <1>2 DEF Lines, Applied
  <1>4. \A b \in Batches : InFlight(h, b)' = InFlight(h, b)
    BY <1>2 DEF InFlight
  <1>5. BooksOf(h, kind)'
    BY <1>2, <1>3, <1>4
      DEF Books, BooksOf, PlanRight, RowRight, ItemsOnHeldRows, Leaves, Holding, Writing
  <1>6. OthersUntouched(h)
    BY <1>2 DEF OthersUntouched
  <1> QED
    BY <1>5, <1>6, BooksByHandler

LEMMA LockBooks ==
    ASSUME NEW kind, TypeInv, LockInv, Books(kind), NEW h \in Handlers, pc[h] = "lock",
           NEW b \in Batches, NEW step \in {"validate", "lock"},
           rowLock[b] = None, rowLock' = [rowLock EXCEPT ![b] = h],
           remaining' = [remaining EXCEPT ![h][b] = stock[b]],
           seen' = [seen EXCEPT ![h][b] = stock[b]],
           pc' = [pc EXCEPT ![h] = step],
           UNCHANGED <<req, stock, plan, done, itemQty>>
    PROVE  Books(kind)'
  <1>1. TypeOK /\ plan[h] = <<>> /\ done[h] = 0
    BY DEF TypeInv, Shape
  <1>2. /\ pc'[h] = step
        /\ \A g \in Handlers \ {h} :
             pc'[g] = pc[g] /\ remaining'[g] = remaining[g] /\ seen'[g] = seen[g]
        /\ rowLock'[b] = h /\ remaining'[h][b] = stock[b] /\ seen'[h][b] = stock[b]
        /\ \A c \in Batches \ {b} :
             /\ rowLock'[c] = rowLock[c]
             /\ remaining'[h][c] = remaining[h][c]
             /\ seen'[h][c] = seen[h][c]
    BY <1>1 DEF TypeOK
  <1>3. OthersUntouched(h)
    BY <1>2, SalesAssumption DEF OthersUntouched
  <1>4. PlanRight(h)'
    BY <1>1 DEF PlanRight
  <1>5. Applied(h) = 0 /\ Applied(h)' = 0 /\ Len(plan[h]) = 0 /\ Len(plan'[h]) = 0
    BY <1>1, <1>2 DEF Applied
  <1>6. ASSUME NEW c \in Batches PROVE RowRight(h, c, kind)'
    <2>1. InFlight(h, c) = 0 /\ InFlight(h, c)' = 0
      BY <1>2 DEF InFlight
    <2>2. CASE c = b
      <3>1. LeavesOf(Lines(h)', plan'[h], stock[b], 0, b, stock[b])
        BY DEF LeavesOf
      <3>2. itemQty[h][b] = 0
        BY <1>2, SalesAssumption DEF Books, BooksOf, ItemsOnHeldRows
      <3>3. stock[b] \in Nat
        BY <1>1 DEF TypeOK
      <3> QED
        BY <1>2, <1>5, <2>1, <2>2, <3>1, <3>2, <3>3 DEF RowRight, Leaves
    <2>3. CASE c # b
      <3>1. RowRight(h, c, kind)
        BY DEF Books, BooksOf
      <3>2. Lines(h)' = Lines(h)
        BY DEF Lines
      <3> QED
        BY <1>2, <1>5, <2>1, <2>3, <3>1, <3>2 DEF RowRight, Leaves
    <2> QED
      BY <2>2, <2>3
  <1>7. ASSUME NEW c \in Batches PROVE ItemsOnHeldRows(h, c)'
    BY <1>2 DEF Books, BooksOf, ItemsOnHeldRows
  <1> QED
    BY <1>3, <1>4, <1>6, <1>7, BooksByHandler DEF BooksOf

LEMMA ValidateBooks ==
    ASSUME NEW kind, TypeInv, Books(kind), NEW h \in Handlers, pc[h] = "validate",
           NEW n, n = Len(plan[h]),
           NEW line, line = Lines(h)[n + 1],
           NEW rest \in Nat, rest = remaining[h][line.batch] - line.qty,
           NEW step \in {"validate", "insert"},
           remaining' = [remaining EXCEPT ![h][line.batch] = rest],
           plan' = [plan EXCEPT ![h] = Append(@, rest)],
           pc' = [pc EXCEPT ![h] = step],
           UNCHANGED <<req, stock, rowLock, done, seen, itemQty>>
    PROVE  Books(kind)'
  <1>1. TypeOK /\ Shape(h)
    BY DEF TypeInv
  <1>2. n \in Nat /\ n < Len(Lines(h)) /\ done[h] = 0
    BY <1>1 DEF TypeOK, Shape
  <1>3. n + 1 \in DOMAIN Lines(h) /\ line.qty \in Nat
    <2>1. req[h] \in Requests
      BY <1>1 DEF Shape
    <2>2. /\ DOMAIN Lines(h) = 1 .. Len(Lines(h)) /\ Len(Lines(h)) \in Nat
          /\ \A i \in DOMAIN Lines(h) : Lines(h)[i].qty \in Nat
      BY <2>1, RequestShape DEF Lines
    <2> QED
      BY <1>2, <2>2
  <1>4. line.batch \in Batches /\ rowLock[line.batch] = h
    BY <1>1, <1>3 DEF Shape, Holding
  <1>5. /\ pc'[h] = step
        /\ \A g \in Handlers \ {h} :
             pc'[g] = pc[g] /\ remaining'[g] = remaining[g] /\ plan'[g] = plan[g]
        /\ plan'[h] = Append(plan[h], rest)
        /\ remaining'[h][line.batch] = rest
        /\ \A c \in Batches \ {line.batch} : remaining'[h][c] = remaining[h][c]
    <2>1. /\ pc \in [Handlers -> Steps \union {"idle", "done"}]
          /\ remaining \in [Handlers -> [Batches -> Nat]]
          /\ plan \in [Handlers -> Seq(Nat)]
      BY <1>1 DEF TypeOK
    <2> QED
      BY <1>4, <2>1
  <1>6. /\ Len(plan'[h]) = n + 1
        /\ plan'[h][n + 1] = rest
        /\ \A i \in 1 .. n : plan'[h][i] = plan[h][i]
        /\ DOMAIN plan'[h] = 1 .. n + 1
        /\ DOMAIN plan[h] = 1 .. n
    <2>1. plan[h] \in Seq(Nat)
      BY <1>1 DEF TypeOK
    <2>2. plan'[h] = Append(plan[h], rest) /\ Len(plan[h]) = n
      BY <1>5
    <2>3. DOMAIN plan[h] = 1 .. n
      BY <2>1, <2>2
    <2>4. Len(plan'[h]) = n + 1 /\ plan'[h][n + 1] = rest
      BY <2>1, <2>2
    <2>5. \A i \in 1 .. n : plan'[h][i] = plan[h][i]
      BY <2>1, <2>2
    <2>6. DOMAIN plan'[h] = 1 .. n + 1
      BY <2>1, <2>2
    <2> QED
      BY <2>3, <2>4, <2>5, <2>6
  <1>7. Lines(h)' = Lines(h) /\ Applied(h) = 0 /\ Applied(h)' = 0
    BY <1>2, <1>5 DEF Lines, Applied
  <1>8. OthersUntouched(h)
    BY <1>5 DEF OthersUntouched
  <1>9. \A b \in Batches : rowLock[b] = h => Leaves(h, n, b, remaining[h][b])
    BY DEF Books, BooksOf, RowRight
  <1>10. ASSUME NEW i \in Nat, i <= n, NEW b, NEW v, Leaves(h, i, b, v)
         PROVE  LeavesOf(Lines(h), plan'[h], stock[b], i, b, v)
    <2>1. \A j \in 1 .. i : plan'[h][j] = plan[h][j]
      BY <1>2, <1>6, <1>10
    <2>2. LeavesOf(Lines(h), plan[h], stock[b], i, b, v)
      BY <1>10 DEF Leaves
    <2> QED
      BY ONLY <2>1, <2>2, <1>10, LeavesFrame
  <1>11. PlanRight(h)'
    <2> SUFFICES ASSUME NEW i \in 1 .. n + 1
                 PROVE  LeavesOf(Lines(h), plan'[h], stock[Lines(h)[i].batch], i - 1,
                                 Lines(h)[i].batch, plan'[h][i] + Lines(h)[i].qty)
      BY <1>6, <1>7 DEF PlanRight, Leaves
    <2>1. CASE i = n + 1
      <3>1. rest + line.qty = remaining[h][line.batch]
        <4>1. remaining[h][line.batch] \in Nat
          BY <1>1, <1>4 DEF TypeOK
        <4> QED
          BY <1>3, <4>1
      <3>2. Leaves(h, n, line.batch, rest + line.qty)
        BY <1>4, <1>9, <3>1
      <3>3. LeavesOf(Lines(h), plan'[h], stock[line.batch], n, line.batch, rest + line.qty)
        <4>1. n \in Nat /\ n <= n
          BY <1>2
        <4> QED
          BY <1>10, <3>2, <4>1, Zenon
      <3>4. i - 1 = n /\ Lines(h)[i] = line /\ plan'[h][i] = rest
        BY <1>2, <1>6, <2>1
      <3>5. plan'[h][i] + Lines(h)[i].qty = rest + line.qty
        BY <3>4
      <3> QED
        BY <3>3, <3>4, <3>5, Zenon
    <2>2. CASE i # n + 1
      <3>1. i \in DOMAIN plan[h] /\ i - 1 \in Nat /\ i - 1 <= n
        BY <1>2, <1>6, <2>2
      <3>2. Leaves(h, i - 1, Lines(h)[i].batch, plan[h][i] + Lines(h)[i].qty)
        BY <3>1 DEF Books, BooksOf, PlanRight, Holding
      <3>3. plan'[h][i] = plan[h][i]
        BY <1>6, <3>1
      <3>4. LeavesOf(Lines(h), plan'[h], stock[Lines(h)[i].batch], i - 1,
                     Lines(h)[i].batch, plan[h][i] + Lines(h)[i].qty)
        BY <1>10, <3>1, <3>2
      <3>5. plan'[h][i] + Lines(h)[i].qty = plan[h][i] + Lines(h)[i].qty
        BY <3>3
      <3> QED
        BY <3>4, <3>5, Zenon
    <2> QED
      BY <2>1, <2>2
  <1>12. ASSUME NEW b \in Batches PROVE RowRight(h, b, kind)'
    <2> SUFFICES ASSUME rowLock[b] = h PROVE RowRight(h, b, kind)'
      BY DEF RowRight
    <2>1. RowRight(h, b, kind)
      BY DEF Books, BooksOf
    <2>2. LeavesOf(Lines(h), plan'[h], stock[b], n + 1, b, remaining'[h][b])
      <3>1. CASE b = line.batch
        <4>1. LeavesOf(Lines(h), plan'[h], stock[b], n + 1, b, plan'[h][n + 1])
          BY <1>2, <3>1, LeavesTake
        <4>2. plan'[h][n + 1] = remaining'[h][b]
          BY <1>5, <1>6, <3>1
        <4> QED
          BY <4>1, <4>2, Zenon
      <3>2. CASE b # line.batch
        <4>1. LeavesOf(Lines(h), plan'[h], stock[b], n, b, remaining[h][b])
          BY <1>2, <1>9, <1>10
        <4>2. LeavesOf(Lines(h), plan'[h], stock[b], n + 1, b, remaining[h][b])
          BY <1>2, <3>2, <4>1, LeavesSkip
        <4>3. remaining'[h][b] = remaining[h][b]
          BY <1>5, <3>2
        <4> QED
          BY <4>2, <4>3, Zenon
      <3> QED
        BY <3>1, <3>2
    <2>3. PICK v \in Nat : Leaves(h, 0, b, v) /\ v + itemQty[h][b] = stock[b] + InFlight(h, b)
      BY <1>7, <2>1 DEF RowRight
    <2>4. LeavesOf(Lines(h), plan'[h], stock[b], 0, b, v)
      BY <1>2, <1>10, <2>3
    <2>5. InFlight(h, b) = 0 /\ InFlight(h, b)' = 0
      BY <1>5 DEF InFlight
    <2> QED
      BY <1>6, <1>7, <2>1, <2>2, <2>3, <2>4, <2>5 DEF RowRight, Leaves
  <1>13. ASSUME NEW b \in Batches PROVE ItemsOnHeldRows(h, b)'
    BY <1>5 DEF Books, BooksOf, ItemsOnHeldRows
  <1> QED
    BY <1>8, <1>11, <1>12, <1>13, BooksByHandler DEF BooksOf

LEMMA ItemBooks ==
    ASSUME NEW kind, TypeInv, Books(kind), NEW h \in Handlers, pc[h] = "item",
           NEW line, line = Lines(h)[done[h] + 1],
           done' = [done EXCEPT ![h] = @ + 1],
           itemQty' = [itemQty EXCEPT ![h][line.batch] = @ + line.qty],
           pc' = [pc EXCEPT ![h] = "update"],
           UNCHANGED <<req, stock, rowLock, remaining, plan, seen>>
    PROVE  Books(kind)'
  <1>1. TypeOK /\ Shape(h)
    BY DEF TypeInv
  <1>2. done[h] \in Nat /\ done[h] < Len(Lines(h))
    BY <1>1 DEF TypeOK, Shape
  <1>3. done[h] + 1 \in DOMAIN Lines(h) /\ line.qty \in Nat
    <2>1. req[h] \in Requests
      BY <1>1 DEF Shape
    <2>2. /\ DOMAIN Lines(h) = 1 .. Len(Lines(h)) /\ Len(Lines(h)) \in Nat
          /\ \A i \in DOMAIN Lines(h) : Lines(h)[i].qty \in Nat
      BY <2>1, RequestShape DEF Lines
    <2> QED
      BY <1>2, <2>2
  <1>4. line.batch \in Batches /\ rowLock[line.batch] = h
    BY <1>1, <1>3 DEF Shape, Holding, Writing
  <1>5. /\ pc'[h] = "update" /\ done'[h] = done[h] + 1
        /\ \A g \in Handlers \ {h} :
             pc'[g] = pc[g] /\ done'[g] = done[g] /\ itemQty'[g] = itemQty[g]
    BY <1>1 DEF TypeOK
  <1>6. /\ itemQty'[h][line.batch] = itemQty[h][line.batch] + line.qty
        /\ \A c \in Batches \ {line.batch} : itemQty'[h][c] = itemQty[h][c]
    BY <1>1, <1>4 DEF TypeOK
  <1>7. /\ Lines(h)' = Lines(h)
        /\ Applied(h) = done[h] /\ Applied(h)' = done[h]
        /\ Current(h)' = line
    BY <1>2, <1>5 DEF Lines, Applied, Current
  <1>8. OthersUntouched(h)
    BY <1>5 DEF OthersUntouched
  <1>9. PlanRight(h)'
    BY <1>5, <1>7 DEF Books, BooksOf, PlanRight, Leaves, Holding, Writing
  <1>10. ASSUME NEW b \in Batches PROVE RowRight(h, b, kind)'
    <2> SUFFICES ASSUME rowLock[b] = h PROVE RowRight(h, b, kind)'
      BY DEF RowRight
    <2>1. RowRight(h, b, kind)
      BY DEF Books, BooksOf
    <2>2. InFlight(h, b) = 0 /\ InFlight(h, b)' = IF b = line.batch THEN line.qty ELSE 0
      BY <1>5, <1>7 DEF InFlight
    <2>a. /\ seen \in [Handlers -> [Batches -> Nat]]
          /\ itemQty \in [Handlers -> [Batches -> Nat]]
          /\ stock \in [Batches -> Nat]
      BY <1>1 DEF TypeOK
    <2>b. seen[h][b] \in Nat /\ itemQty[h][b] \in Nat /\ stock[b] \in Nat
      BY <2>a
    <2>c. itemQty'[h][b] \in Nat
      <3>1. CASE b = line.batch
        BY <1>3, <1>6, <2>b, <3>1
      <3>2. CASE b # line.batch
        BY <1>6, <2>b, <3>2
      <3> QED
        BY <3>1, <3>2
    <2>3. /\ seen[h][b] \in Nat /\ itemQty[h][b] \in Nat
          /\ stock[b] \in Nat /\ itemQty'[h][b] \in Nat
      BY <2>b, <2>c
    <2>4. InFlight(h, b)' \in Nat /\ itemQty'[h][b] = itemQty[h][b] + InFlight(h, b)'
      BY <1>3, <1>6, <2>2, <2>3
    <2>5. PICK v \in Nat : Leaves(h, done[h], b, v) /\ v + itemQty[h][b] = stock[b]
      BY <1>7, <2>1, <2>2, <2>3 DEF RowRight
    <2>6. v + itemQty'[h][b] = stock[b] + InFlight(h, b)'
      BY <2>3, <2>4, <2>5
    <2>7. /\ seen[h][b] <= stock[b]
          /\ seen[h][b] + itemQty'[h][b] >= stock[b] + InFlight(h, b)'
          /\ kind = "exact" => seen[h][b] + itemQty'[h][b] = stock[b] + InFlight(h, b)'
      BY <2>1, <2>2, <2>3, <2>4 DEF RowRight
    <2> QED
      BY <1>5, <1>7, <2>5, <2>6, <2>7 DEF RowRight, Leaves
  <1>11. ASSUME NEW b \in Batches PROVE ItemsOnHeldRows(h, b)'
    BY <1>4, <1>5, <1>6 DEF Books, BooksOf, ItemsOnHeldRows
  <1> QED
    BY <1>8, <1>9, <1>10, <1>11, BooksByHandler DEF BooksOf

LEMMA UpdateBooks ==
    ASSUME NEW kind, TypeInv, Books(kind), NEW h \in Handlers, pc[h] = "update",
           NEW n, n = done[h],
           \/ seen' = [seen EXCEPT ![h][Current(h).batch] = plan[h][n]]
           \/ seen' = seen /\ kind # "exact",
           pc' = [pc EXCEPT ![h] = "alert"],
           UNCHANGED <<req, stock, rowLock, remaining, plan, done, itemQty>>
    PROVE  Books(kind)'
  <1>1. TypeOK /\ Shape(h)
    BY DEF TypeInv
  <1>2. n \in Nat /\ n - 1 \in Nat /\ n \in DOMAIN Lines(h) /\ n \in DOMAIN plan[h]
    <2>1. req[h] \in Requests /\ n \in 1 .. Len(Lines(h)) /\ Len(plan[h]) = Len(Lines(h))
      BY <1>1 DEF Shape, Writing, InLine
    <2>2. DOMAIN Lines(h) = 1 .. Len(Lines(h)) /\ Len(Lines(h)) \in Nat
      BY <2>1, RequestShape DEF Lines
    <2>3. DOMAIN plan[h] = 1 .. Len(plan[h])
      BY <1>1 DEF TypeOK
    <2> QED
      BY <2>1, <2>2, <2>3
  <1> DEFINE line == Lines(h)[n]
  <1>3. Current(h) = line /\ line.batch \in Batches /\ rowLock[line.batch] = h
    BY <1>1, <1>2 DEF Shape, Holding, Writing, Current
  <1>q. line.qty \in Nat
    <2>1. req[h] \in Requests
      BY <1>1 DEF Shape
    <2>2. \A i \in DOMAIN Lines(h) : Lines(h)[i].qty \in Nat
      BY <2>1, RequestShape DEF Lines
    <2> QED
      BY <1>2, <2>2
  <1>4. /\ pc'[h] = "alert"
        /\ \A g \in Handlers \ {h} : pc'[g] = pc[g] /\ seen'[g] = seen[g]
        /\ \/ seen'[h][line.batch] = plan[h][n]
           \/ seen'[h][line.batch] = seen[h][line.batch] /\ kind # "exact"
        /\ \A c \in Batches \ {line.batch} : seen'[h][c] = seen[h][c]
    <2>1. /\ pc \in [Handlers -> Steps \union {"idle", "done"}]
          /\ seen \in [Handlers -> [Batches -> Nat]]
      BY <1>1 DEF TypeOK
    <2> HIDE DEF line
    <2> QED
      BY <1>3, <2>1
  <1>5. Lines(h)' = Lines(h) /\ Applied(h) = n - 1 /\ Applied(h)' = n
    BY <1>4 DEF Lines, Applied
  <1>6. OthersUntouched(h)
    BY <1>4 DEF OthersUntouched
  <1>7. PlanRight(h)'
    BY <1>4, <1>5 DEF Books, BooksOf, PlanRight, Leaves, Holding, Writing
  <1>8. plan[h][n] + itemQty[h][line.batch] = stock[line.batch]
    <2>1. Leaves(h, n - 1, line.batch, plan[h][n] + line.qty)
      BY <1>2 DEF Books, BooksOf, PlanRight, Holding, Writing
    <2>2. PICK v \in Nat :
            /\ Leaves(h, n - 1, line.batch, v)
            /\ v + itemQty[h][line.batch] = stock[line.batch] + line.qty
      BY <1>3, <1>5 DEF Books, BooksOf, RowRight, InFlight
    <2>3. /\ plan[h][n] \in Nat /\ itemQty[h][line.batch] \in Nat /\ stock[line.batch] \in Nat
      BY <1>1, <1>2, <1>3 DEF TypeOK
    <2> HIDE DEF line
    <2>4. v = plan[h][n] + line.qty
      BY <1>2, <2>1, <2>2, LeavesUnique DEF Leaves
    <2> QED
      BY <1>q, <2>2, <2>3, <2>4
  <1> HIDE DEF line
  <1>9. ASSUME NEW b \in Batches PROVE RowRight(h, b, kind)'
    <2> SUFFICES ASSUME rowLock[b] = h PROVE RowRight(h, b, kind)'
      BY DEF RowRight
    <2>1. RowRight(h, b, kind)
      BY DEF Books, BooksOf
    <2>2. /\ InFlight(h, b) = IF b = line.batch THEN line.qty ELSE 0
          /\ InFlight(h, b)' = 0
      BY <1>3, <1>4 DEF InFlight
    <2>3. /\ seen[h][b] \in Nat /\ itemQty[h][b] \in Nat
          /\ stock[b] \in Nat /\ plan[h][n] \in Nat
      BY <1>1, <1>2 DEF TypeOK
    <2>4. /\ seen'[h][b] <= stock[b]
          /\ seen'[h][b] + itemQty[h][b] >= stock[b]
          /\ kind = "exact" => seen'[h][b] + itemQty[h][b] = stock[b]
      <3>1. CASE b = line.batch /\ seen'[h][b] = plan[h][n]
        BY <1>8, <2>3, <3>1
      <3>2. CASE b # line.batch
        BY <1>4, <2>1, <2>2, <2>3, <3>2 DEF RowRight
      <3>3. CASE b = line.batch /\ seen'[h][b] = seen[h][b] /\ kind # "exact"
        BY <1>q, <2>1, <2>2, <2>3, <3>3 DEF RowRight
      <3> QED
        BY <1>4, <3>1, <3>2, <3>3
    <2>5. \E v \in Nat :
            LeavesOf(Lines(h), plan[h], stock[b], n, b, v) /\ v + itemQty[h][b] = stock[b]
      <3>0. (n - 1) + 1 = n
        BY <1>2
      <3>1. CASE b = line.batch
        <4>1. LeavesOf(Lines(h), plan[h], stock[b], (n - 1) + 1, b, plan[h][(n - 1) + 1])
          BY <1>2, <3>0, <3>1, LeavesTake DEF line
        <4>2. LeavesOf(Lines(h), plan[h], stock[b], n, b, plan[h][n])
          BY <3>0, <4>1, Zenon
        <4> QED
          BY <1>8, <2>3, <3>1, <4>2
      <3>2. CASE b # line.batch
        <4>1. PICK v \in Nat :
                LeavesOf(Lines(h), plan[h], stock[b], n - 1, b, v) /\ v + itemQty[h][b] = stock[b]
          BY <1>5, <2>1, <2>2, <2>3, <3>2 DEF RowRight, Leaves
        <4>2. LeavesOf(Lines(h), plan[h], stock[b], (n - 1) + 1, b, v)
          BY <1>2, <3>0, <3>2, <4>1, LeavesSkip DEF line
        <4>3. LeavesOf(Lines(h), plan[h], stock[b], n, b, v)
          BY <3>0, <4>2, Zenon
        <4> QED
          BY <4>1, <4>3
      <3> QED
        BY <3>1, <3>2
    <2> QED
      BY <1>4, <1>5, <2>2, <2>3, <2>4, <2>5 DEF RowRight, Leaves
  <1>10. ASSUME NEW b \in Batches PROVE ItemsOnHeldRows(h, b)'
    BY <1>4 DEF Books, BooksOf, ItemsOnHeldRows
  <1> QED
    BY <1>6, <1>7, <1>9, <1>10, BooksByHandler DEF BooksOf

-----------------------------------------------------------------------------
LEMMA StatementBooks ==
    ASSUME NEW kind, TypeInv, LockInv, Books(kind), kind = "exact" => access,
           NEW h \in Handlers, Statement(h)
    PROVE  Books(kind)'
  <1> USE DEF Goto, tables, locks, locals, writes
  <1>a. TypeOK
    BY DEF TypeInv
  <1>b. ASSUME NEW status, Rollback(h, status) PROVE Books(kind)'
    BY <1>b, FinishBooks DEF Rollback
  <1>1. CASE TakeAdvisoryLock(h)
    BY <1>1, EarlyBooks DEF TakeAdvisoryLock
  <1>2. CASE LoadSale(h)
    BY <1>2, EarlyBooks DEF LoadSale
  <1>3. CASE LoadItems(h)
    <2>1. \E status, left : Finish(h, status, left)
      BY <1>3 DEF LoadItems
    <2> QED
      BY <1>3, <2>1, FinishBooks DEF LoadItems
  <1>4. CASE LockBatch(h)
    <2>1. CASE \E status : Rollback(h, status)
      BY <1>b, <2>1
    <2>2. CASE ~\E status : Rollback(h, status)
      <3>1. PICK b \in Batches, step \in {"validate", "lock"} :
              /\ pc[h] = "lock"
              /\ rowLock[b] = None
              /\ rowLock' = [rowLock EXCEPT ![b] = h]
              /\ remaining' = [remaining EXCEPT ![h][b] = stock[b]]
              /\ seen' = [seen EXCEPT ![h][b] = stock[b]]
              /\ pc' = [pc EXCEPT ![h] = step]
              /\ UNCHANGED <<req, stock, plan, done, itemQty>>
        BY <1>4, <2>2 DEF LockBatch
      <3> QED
        BY <3>1, LockBooks
    <2> QED
      BY <2>1, <2>2
  <1>5. CASE ValidateLine(h)
    <2>1. CASE \E status : Rollback(h, status)
      BY <1>b, <2>1
    <2>2. CASE ~\E status : Rollback(h, status)
      <3> DEFINE n    == Len(plan[h])
                 line == Lines(h)[n + 1]
                 rest == remaining[h][line.batch] - line.qty
      <3>1. /\ pc[h] = "validate"
            /\ ~(rest < 0)
            /\ remaining' = [remaining EXCEPT ![h][line.batch] = rest]
            /\ plan' = [plan EXCEPT ![h] = Append(@, rest)]
            /\ UNCHANGED <<req, stock, rowLock, done, seen, itemQty>>
        BY <1>5, <2>2 DEF ValidateLine
      <3>2. PICK step \in {"validate", "insert"} : pc' = [pc EXCEPT ![h] = step]
        BY <1>5, <2>2 DEF ValidateLine
      <3>3. rest \in Int
        <4>1. req[h] \in Requests /\ n < Len(Lines(h)) /\ n \in Nat
          BY <3>1 DEF TypeInv, TypeOK, Shape
        <4>2. DOMAIN Lines(h) = 1 .. Len(Lines(h)) /\ Len(Lines(h)) \in Nat
          BY <4>1, RequestShape DEF Lines
        <4>3. n + 1 \in DOMAIN Lines(h)
          BY <4>1, <4>2
        <4>4. line.batch \in Batches
          BY <3>1, <4>3 DEF TypeInv, Shape, Holding
        <4>5. line.qty \in Nat
          BY <4>1, <4>3, RequestShape DEF Lines
        <4> QED
          BY <1>a, <4>4, <4>5 DEF TypeOK
      <3>4. rest \in Nat
        BY <3>1, <3>3
      <3> HIDE DEF n, line, rest
      <3> QED
        BY <3>1, <3>2, <3>4, ValidateBooks DEF n, line, rest
    <2> QED
      BY <2>1, <2>2
  <1>6. CASE InsertSale(h)
    <2>1. CASE \E status : Rollback(h, status)
      BY <1>b, <2>1
    <2>2. CASE ~\E status : Rollback(h, status)
      BY <1>6, <2>2, MoveBooks DEF InsertSale, Writing
    <2> QED
      BY <2>1, <2>2
  <1>7. CASE InsertItem(h)
    <2>1. CASE \E status : Rollback(h, status)
      BY <1>b, <2>1
    <2>2. CASE ~\E status : Rollback(h, status)
      BY <1>7, <2>2, ItemBooks DEF InsertItem
    <2> QED
      BY <2>1, <2>2
  <1>8. CASE UpdateStock(h)
    <2>1. /\ pc[h] = "update"
          /\ \/ seen' = [seen EXCEPT ![h][Current(h).batch] = plan[h][done[h]]]
             \/ seen' = seen /\ kind # "exact"
          /\ pc' = [pc EXCEPT ![h] = "alert"]
          /\ UNCHANGED <<req, stock, rowLock, remaining, plan, done, itemQty>>
      BY <1>8 DEF UpdateStock
    <2> QED
      BY <2>1, UpdateBooks
  <1>9. CASE EvaluateAlerts(h)
    <2>1. CASE \E status : Rollback(h, status)
      BY <1>b, <2>1
    <2>2. CASE ~\E status : Rollback(h, status)
      <3>1. PICK step \in {"resolve", "commit", "item"} :
              /\ pc[h] = "alert"
              /\ pc' = [pc EXCEPT ![h] = step]
              /\ UNCHANGED <<req, stock, rowLock, remaining, plan, done, seen, itemQty>>
        BY <1>9, <2>2 DEF EvaluateAlerts, AfterLine
      <3> QED
        BY <3>1, MoveBooks DEF Writing
    <2> QED
      BY <2>1, <2>2
  <1>10. CASE ResolveAging(h)
    <2>1. AfterLine(h) \in {"commit", "item"}
      BY DEF AfterLine
    <2> QED
      BY <1>10, <2>1, MoveBooks DEF ResolveAging, Writing
  <1>11. CASE Commit(h)
    <2>1. \A b \in Batches : rowLock[b] # h => stock'[b] = stock[b]
      BY <1>11 DEF Commit
    <2> QED
      BY <1>11, <2>1, FinishBooks DEF Commit
  <1> QED
    BY <1>1, <1>2, <1>3, <1>4, <1>5, <1>6, <1>7, <1>8, <1>9, <1>10, <1>11 DEF Statement

\* A commit moves to the sold side what it takes from the stock, and more only
\* when access was revoked before an update.
LEMMA CommitBalances ==
    ASSUME NEW kind, TypeInv, LockInv, Books(kind), NEW h \in Handlers, Commit(h),
           NEW b \in Batches
    PROVE  /\ stock'[b] <= stock[b]
           /\ stock'[b] + sold'[b] >= stock[b] + sold[b]
           /\ kind = "exact" => stock'[b] + sold'[b] = stock[b] + sold[b]
  <1>1. TypeOK /\ pc[h] = "commit"
    BY DEF TypeInv, Commit
  <1>2. /\ stock'[b] = IF rowLock[b] = h THEN seen[h][b] ELSE stock[b]
        /\ sold'[b] = sold[b] + itemQty[h][b]
    BY DEF Commit
  <1>3. stock[b] \in Nat /\ sold[b] \in Nat /\ seen[h][b] \in Nat /\ itemQty[h][b] \in Nat
    BY <1>1 DEF TypeOK
  <1>4. CASE rowLock[b] = h
    <2>1. /\ seen[h][b] <= stock[b]
          /\ seen[h][b] + itemQty[h][b] >= stock[b]
          /\ kind = "exact" => seen[h][b] + itemQty[h][b] = stock[b]
      BY <1>1, <1>3, <1>4 DEF Books, BooksOf, RowRight, InFlight
    <2> QED
      BY <1>2, <1>3, <1>4, <2>1
  <1>5. CASE rowLock[b] # h
    <2>1. itemQty[h][b] = 0
      BY <1>1, <1>5 DEF Books, BooksOf, ItemsOnHeldRows
    <2> QED
      BY <1>2, <1>3, <1>5, <2>1
  <1> QED
    BY <1>4, <1>5

\* A commit records no key that another running handler has locked.
LEMMA CommitOtherKey ==
    ASSUME TypeInv, LockInv, NEW h \in Handlers, Commit(h), NEW g \in Handlers, g # h,
           pc[g] \in Steps \ {"advisory"}, sales[req[g].key] = None
    PROVE  sales'[req'[g].key] = None
  <1>1. TypeOK
    BY DEF TypeInv
  <1>2. advisory[req[g].key] = g /\ advisory[req[h].key] = h
    BY DEF Commit, LockInv, Steps
  <1>3. req[g].key \in Keys
    BY RunningKey DEF Steps
  <1> QED
    BY <1>1, <1>2, <1>3 DEF Commit, locals, TypeOK

LEMMA OnlyCommitsWrite ==
    ASSUME NEW h \in Handlers, Statement(h), ~Commit(h)
    PROVE  UNCHANGED <<stock, sold, sales, req>>
  BY DEF Statement, TakeAdvisoryLock, LoadSale, LoadItems, LockBatch, ValidateLine, InsertSale,
         InsertItem, UpdateStock, EvaluateAlerts, ResolveAging, Rollback, tables

\* Where a statement other than a commit may lead, as far as keys matter.
LEMMA StatementGoto ==
    ASSUME TypeInv, NEW h \in Handlers, Statement(h), ~Commit(h)
    PROVE  /\ \A g \in Handlers \ {h} : pc'[g] = pc[g]
           /\ pc'[h] \in Steps \ {"advisory", "load", "items"} =>
                \/ pc[h] \in Steps \ {"advisory", "load", "items"}
                \/ access => sales[req[h].key] = None
           /\ pc'[h] \in Writing \ {"insert"} =>
                pc[h] \in Writing \ {"insert"} \/ sales[req[h].key] = None
  <1> USE DEF Goto, Writing
  <1>a. TypeOK
    BY DEF TypeInv
  <1>1. CASE TakeAdvisoryLock(h)
    BY <1>a, <1>1 DEF TakeAdvisoryLock, TypeOK
  <1>2. CASE LoadSale(h)
    BY <1>a, <1>2 DEF LoadSale, TypeOK
  <1>3. CASE LoadItems(h)
    BY <1>a, <1>3 DEF LoadItems, Finish, TypeOK, Steps
  <1>4. CASE LockBatch(h)
    BY <1>a, <1>4 DEF LockBatch, Rollback, Finish, TypeOK, Steps
  <1>5. CASE ValidateLine(h)
    BY <1>a, <1>5 DEF ValidateLine, Rollback, Finish, TypeOK, Steps
  <1>6. CASE InsertSale(h)
    BY <1>a, <1>6 DEF InsertSale, Rollback, Finish, TypeOK, Steps
  <1>7. CASE InsertItem(h)
    BY <1>a, <1>7 DEF InsertItem, Rollback, Finish, TypeOK, Steps
  <1>8. CASE UpdateStock(h)
    BY <1>a, <1>8 DEF UpdateStock, TypeOK, Steps
  <1>9. CASE EvaluateAlerts(h)
    BY <1>a, <1>9 DEF EvaluateAlerts, Rollback, Finish, TypeOK, Steps
  <1>10. CASE ResolveAging(h)
    BY <1>a, <1>10 DEF ResolveAging, TypeOK, Steps
  <1> QED
    BY <1>1, <1>2, <1>3, <1>4, <1>5, <1>6, <1>7, <1>8, <1>9, <1>10 DEF Statement

-----------------------------------------------------------------------------
LEMMA InitBooks == \A kind : Init => Books(kind)
  BY SalesAssumption
    DEF Init, Books, BooksOf, PlanRight, RowRight, ItemsOnHeldRows, Holding, Writing

\* The books of any step while it may see access or not.
LEMMA NextBooks ==
    ASSUME NEW kind, TypeInv, LockInv, Books(kind), [Next]_vars,
           kind = "exact" => access = TRUE
    PROVE  Books(kind)'
  <1>a. TypeOK
    BY DEF TypeInv
  <1>1. ASSUME NEW h \in Handlers, NEW r \in Requests, Begin(h, r) PROVE Books(kind)'
    <2>1. \A g \in Handlers \ {h} : req'[g] = req[g]
      BY <1>a, <1>1 DEF Begin, TypeOK
    <2>2. PICK step \in {"advisory", "done"} : pc' = [pc EXCEPT ![h] = step]
      BY <1>1 DEF Begin, Goto
    <2> QED
      BY <1>1, <2>1, <2>2, EarlyBooks DEF Begin, tables, locks, locals, writes
  <1>2. ASSUME NEW h \in Handlers, Statement(h) PROVE Books(kind)'
    BY <1>2, StatementBooks
  <1>3. ASSUME NEW h \in Handlers, Abort(h) PROVE Books(kind)'
    BY <1>3, FinishBooks DEF Abort, Rollback, tables, locals, writes
  <1>4. CASE SetAccess \/ UNCHANGED vars
    BY <1>4 DEF SetAccess, vars, tables, locks, locals, writes, Books, BooksOf, PlanRight, RowRight,
         ItemsOnHeldRows, Leaves, Lines, Applied, InFlight, Current
  <1> QED
    BY <1>1, <1>2, <1>3, <1>4 DEF Next, SteadyNext, Quiet

LEMMA InitStockInv == Init => StockInv
  <1> SUFFICES ASSUME Init PROVE StockInv
    OBVIOUS
  <1>1. KeyFree
    BY DEF Init, KeyFree, Writing
  <1>2. NoUnrecordedDeduction
    BY SalesAssumption DEF Init, NoUnrecordedDeduction
  <1> QED
    BY <1>1, <1>2, InitBooks, InitTypeInv, InitLockInv DEF StockInv

LEMMA NextStockInv == StockInv /\ [Next]_vars => StockInv'
  <1> SUFFICES ASSUME StockInv, [Next]_vars PROVE StockInv'
    OBVIOUS
  <1>0. TypeInv' /\ LockInv' /\ Books("surplus")'
    BY NextTypeInv, NextLockInv, NextBooks DEF StockInv
  <1>a. TypeInv /\ TypeOK /\ LockInv /\ KeyFree
    BY DEF StockInv, TypeInv
  <1>1. ASSUME NEW h \in Handlers, Commit(h) PROVE KeyFree' /\ NoUnrecordedDeduction'
    <2>1. ASSUME NEW b \in Batches PROVE stock'[b] + sold'[b] >= Received[b]
      <3>1. /\ stock[b] + sold[b] >= Received[b]
            /\ stock'[b] + sold'[b] >= stock[b] + sold[b]
        BY <1>1, CommitBalances DEF StockInv, NoUnrecordedDeduction
      <3>2. /\ stock[b] \in Nat /\ sold[b] \in Nat /\ stock'[b] \in Nat /\ sold'[b] \in Nat
            /\ Received[b] \in Nat
        BY <1>0, <1>a, SalesAssumption DEF TypeInv, TypeOK
      <3> QED
        BY <3>1, <3>2
    <2>2. ASSUME NEW g \in Handlers, pc'[g] \in Writing \ {"insert"}
          PROVE  sales'[req'[g].key] = None
      <3>1. g # h /\ pc'[g] = pc[g]
        BY <1>1, <1>a, <2>2 DEF Commit, Finish, Goto, TypeOK, Writing
      <3>2. pc[g] \in Steps \ {"advisory"} /\ sales[req[g].key] = None
        BY <1>a, <2>2, <3>1 DEF KeyFree, Writing, Steps
      <3> QED
        BY <1>1, <1>a, <3>1, <3>2, CommitOtherKey
    <2> QED
      BY <2>1, <2>2 DEF KeyFree, NoUnrecordedDeduction
  <1>2. ASSUME NEW h \in Handlers, Statement(h), ~Commit(h)
        PROVE  KeyFree' /\ NoUnrecordedDeduction'
    <2>1. UNCHANGED <<stock, sold, sales, req>>
      BY <1>2, OnlyCommitsWrite
    <2> QED
      BY <1>a, <1>2, <2>1, StatementGoto DEF StockInv, KeyFree, NoUnrecordedDeduction
  <1>3. ASSUME NEW h \in Handlers, Abort(h) \/ \E r \in Requests : Begin(h, r)
        PROVE  KeyFree' /\ NoUnrecordedDeduction'
    <2>1. /\ UNCHANGED <<stock, sold, sales>>
          /\ pc'[h] \in {"done", "advisory"}
          /\ \A g \in Handlers \ {h} : pc'[g] = pc[g] /\ req'[g] = req[g]
      BY <1>a, <1>3 DEF Abort, Begin, Rollback, Finish, Goto, TypeOK, tables
    <2> QED
      BY <1>a, <2>1 DEF StockInv, KeyFree, NoUnrecordedDeduction, Writing
  <1>4. CASE SetAccess \/ UNCHANGED vars
    BY <1>0, <1>a, <1>4 DEF StockInv, SetAccess, vars, tables, KeyFree, NoUnrecordedDeduction
  <1> QED
    BY <1>0, <1>1, <1>2, <1>3, <1>4 DEF Next, SteadyNext, Quiet, Statement, StockInv

LEMMA StockInvariant == Spec => []StockInv
  BY InitStockInv, NextStockInv, PTL DEF Spec

\* Whenever access is revoked or restored while sales run, stock is never taken
\* without a recorded sale item: the skipped update of a batch can only leave too
\* much.
THEOREM DeductionsRecorded == Spec => []NoUnrecordedDeduction
  <1>1. StockInv => NoUnrecordedDeduction
    BY DEF StockInv
  <1> QED
    BY <1>1, StockInvariant, PTL

\* No step of any request puts stock back, and none records a second sale over
\* the first of its key, even when its lookup ran without access and missed it.
THEOREM SalesStand == Spec => OnlySalesDeduct
  <1> DEFINE Stands ==
        /\ \A b \in Batches : stock'[b] <= stock[b]
        /\ \A k \in Keys : sales[k] # None => sales'[k] = sales[k]
  <1>1. ASSUME StockInv, [Next]_vars PROVE [Stands]_tables
    <2>a. TypeInv /\ TypeOK /\ LockInv
      BY <1>1 DEF StockInv, TypeInv
    <2>1. ASSUME NEW h \in Handlers, Commit(h) PROVE Stands
      <3>1. \A b \in Batches : stock'[b] <= stock[b]
        BY <1>1, <2>1, CommitBalances DEF StockInv
      <3>2. pc[h] = "commit" /\ sales[req[h].key] = None
        BY <1>1, <2>1 DEF Commit, StockInv, KeyFree, Writing
      <3>3. \A k \in Keys : sales[k] # None => sales'[k] = sales[k]
        BY <2>a, <2>1, <3>2 DEF Commit, TypeOK
      <3> QED
        BY <3>1, <3>3
    <2>2. CASE ~\E h \in Handlers : Commit(h)
      <3>1. stock' = stock /\ sales' = sales
        BY <1>1, <2>2, OnlyCommitsWrite
          DEF Next, SteadyNext, Quiet, Begin, Abort, Rollback, SetAccess, vars, tables
      <3>2. \A b \in Batches : stock[b] \in Nat
        BY <2>a DEF TypeOK
      <3> QED
        BY <3>1, <3>2
    <2> QED
      BY <2>1, <2>2
  <1>2. Spec => [][Stands]_tables
    BY <1>1, StockInvariant, PTL DEF Spec
  <1> QED
    BY <1>2 DEF OnlySalesDeduct

-----------------------------------------------------------------------------
LEMMA InitSteadyInv == Init => SteadyInv
  <1> SUFFICES ASSUME Init PROVE SteadyInv
    OBVIOUS
  <1>1. access = TRUE /\ KeyStillFree
    BY DEF Init, KeyStillFree, Steps
  <1>2. Conserved
    BY SalesAssumption DEF Init, Conserved
  <1> QED
    BY <1>1, <1>2, InitBooks, InitTypeInv, InitLockInv DEF SteadyInv

LEMMA NextSteadyInv == SteadyInv /\ [SteadyNext]_vars => SteadyInv'
  <1> SUFFICES ASSUME SteadyInv, [SteadyNext]_vars PROVE SteadyInv'
    OBVIOUS
  <1>0. TypeInv' /\ LockInv' /\ Books("exact")'
    BY NextTypeInv, NextLockInv, NextBooks DEF SteadyInv, Next
  <1>a. TypeInv /\ TypeOK /\ LockInv
    BY DEF SteadyInv, TypeInv
  <1>b. access' = TRUE
    <2>1. access = TRUE
      BY DEF SteadyInv
    <2>2. ASSUME NEW h \in Handlers, Statement(h) PROVE access' = access
      BY <2>2 DEF Statement, TakeAdvisoryLock, LoadSale, LoadItems, LockBatch, ValidateLine,
           InsertSale, InsertItem, UpdateStock, EvaluateAlerts, ResolveAging, Commit, Rollback
    <2> QED
      BY <2>1, <2>2 DEF SteadyNext, Quiet, Begin, Abort, Rollback, vars
  <1>1. ASSUME NEW h \in Handlers, Commit(h) PROVE KeyStillFree' /\ Conserved'
    <2>1. ASSUME NEW b \in Batches PROVE stock'[b] + sold'[b] = Received[b]
      BY <1>1, CommitBalances DEF SteadyInv, Conserved
    <2>2. ASSUME NEW g \in Handlers, pc'[g] \in Steps \ {"advisory", "load", "items"}
          PROVE  sales'[req'[g].key] = None
      <3>1. g # h /\ pc'[g] = pc[g]
        BY <1>1, <1>a, <2>2 DEF Commit, Finish, Goto, TypeOK, Steps
      <3>2. pc[g] \in Steps \ {"advisory"} /\ sales[req[g].key] = None
        BY <2>2, <3>1 DEF SteadyInv, KeyStillFree
      <3> QED
        BY <1>1, <1>a, <3>1, <3>2, CommitOtherKey
    <2> QED
      BY <2>1, <2>2 DEF KeyStillFree, Conserved
  <1>2. ASSUME NEW h \in Handlers, Statement(h), ~Commit(h) PROVE KeyStillFree' /\ Conserved'
    <2>1. UNCHANGED <<stock, sold, sales, req>>
      BY <1>2, OnlyCommitsWrite
    <2> QED
      BY <1>a, <1>2, <2>1, StatementGoto DEF SteadyInv, KeyStillFree, Conserved
  <1>3. ASSUME NEW h \in Handlers, Abort(h) \/ \E r \in Requests : Begin(h, r)
        PROVE  KeyStillFree' /\ Conserved'
    <2>1. /\ UNCHANGED <<stock, sold, sales>>
          /\ pc'[h] \in {"done", "advisory"}
          /\ \A g \in Handlers \ {h} : pc'[g] = pc[g] /\ req'[g] = req[g]
      BY <1>a, <1>3 DEF Abort, Begin, Rollback, Finish, Goto, TypeOK, tables
    <2> QED
      BY <2>1 DEF SteadyInv, KeyStillFree, Conserved, Steps
  <1>4. CASE UNCHANGED vars
    BY <1>0, <1>4 DEF SteadyInv, vars, tables, KeyStillFree, Conserved
  <1> QED
    BY <1>0, <1>b, <1>1, <1>2, <1>3, <1>4 DEF SteadyNext, Quiet, Statement, SteadyInv

LEMMA SteadyInvariant == SteadySpec => []SteadyInv
  BY InitSteadyInv, NextSteadyInv, PTL DEF SteadySpec

\* Any number of concurrent sales and retries, with any lines in any order:
\* what is left of a batch and what was recorded as sold from it add up to what
\* was received.  So no update is lost and no retry deducts twice.
THEOREM StockConserved == SteadySpec => []Conserved
  <1>1. SteadyInv => Conserved
    BY DEF SteadyInv
  <1> QED
    BY <1>1, SteadyInvariant, PTL

\* The handler's clause for a unique violation of (tenant_id, idempotency_key)
\* is never reached: the advisory lock has already serialized the requests.
THEOREM KeyReserved == SteadySpec => []KeyStillFree
  <1>1. SteadyInv => KeyStillFree
    BY DEF SteadyInv
  <1> QED
    BY <1>1, SteadyInvariant, PTL
-----------------------------------------------------------------------------
(* The alert of a row that the books say is low. *)

\* A row that a handler has taken to the threshold or below has its alert,
\* committed or in the transaction, or the handler is about to insert it.
AlertRight(h, b) ==
    rowLock[b] = h /\ seen[h][b] < stock[b] /\ seen[h][b] <= Threshold[ProductOf[b]] =>
        \/ low[b] # "none"
        \/ newLow[h][b] # "none"
        \/ pc[h] = "alert" /\ Current(h).batch = b

AlertsRight == \A h \in Handlers, b \in Batches : AlertRight(h, b)

AlertInv == StockInv /\ LowStockWarned /\ AlertsRight

-----------------------------------------------------------------------------
\* Alerts that are committed stay, and h leaves the rows of the others alone.
OtherRowsUntouched(h) ==
    /\ \A b \in Batches : low[b] # "none" => low'[b] # "none"
    /\ \A g \in Handlers \ {h} :
        /\ pc'[g] = pc[g] /\ req'[g] = req[g] /\ done'[g] = done[g]
        /\ seen'[g] = seen[g] /\ newLow'[g] = newLow[g]
        /\ \A b \in Batches : rowLock'[b] = g => rowLock[b] = g /\ stock'[b] = stock[b]

LEMMA AlertsByHandler ==
    ASSUME AlertsRight, NEW h \in Handlers, OtherRowsUntouched(h),
           \A b \in Batches : AlertRight(h, b)'
    PROVE  AlertsRight'
  <1>1. ASSUME NEW g \in Handlers, g # h, NEW b \in Batches PROVE AlertRight(g, b)'
    <2>1. AlertRight(g, b)
      BY DEF AlertsRight
    <2>2. Current(g)' = Current(g)
      BY <1>1 DEF OtherRowsUntouched, Current, Lines
    <2> QED
      BY <1>1, <2>1, <2>2 DEF OtherRowsUntouched, AlertRight
  <1> QED
    BY <1>1 DEF AlertsRight

\* A transaction that ends holds no row any more.
LEMMA FinishAlerts ==
    ASSUME TypeOK, AlertsRight, NEW h \in Handlers, NEW status, NEW left,
           Finish(h, status, left), UNCHANGED <<req, done, seen, newLow>>,
           \A b \in Batches : rowLock[b] # h => stock'[b] = stock[b],
           \A b \in Batches : low[b] # "none" => low'[b] # "none"
    PROVE  AlertsRight'
  <1>1. /\ \A b \in Batches : rowLock'[b] # h
        /\ \A g \in Handlers \ {h}, b \in Batches : rowLock'[b] = g => rowLock[b] = g
        /\ \A g \in Handlers \ {h} : pc'[g] = pc[g]
    BY SalesAssumption DEF TypeOK, Finish, Goto
  <1>2. OtherRowsUntouched(h)
    BY <1>1 DEF OtherRowsUntouched
  <1> QED
    BY <1>1, <1>2, AlertsByHandler DEF AlertRight

\* A statement that touches neither rows nor alerts.
LEMMA MoveAlerts ==
    ASSUME TypeOK, AlertsRight, NEW h \in Handlers, pc[h] # "alert", NEW step,
           pc' = [pc EXCEPT ![h] = step],
           \A g \in Handlers \ {h} : req'[g] = req[g] /\ done'[g] = done[g],
           UNCHANGED <<stock, low, rowLock, seen, newLow>>
    PROVE  AlertsRight'
  <1>1. OtherRowsUntouched(h)
    BY DEF OtherRowsUntouched, TypeOK
  <1>2. \A b \in Batches : AlertRight(h, b)'
    BY DEF AlertsRight, AlertRight
  <1> QED
    BY <1>1, <1>2, AlertsByHandler

\* What the current line leaves of its batch is no more than the handler's row
\* has: the row has more when its update was skipped.
LEMMA PlannedBelowSeen ==
    ASSUME TypeInv, Books("surplus"), NEW h \in Handlers, pc[h] = "alert"
    PROVE  /\ Current(h).batch \in Batches
           /\ plan[h][done[h]] \in Nat
           /\ plan[h][done[h]] <= seen[h][Current(h).batch]
  <1> DEFINE n == done[h]
             b == Current(h).batch
  <1>1. TypeOK /\ Shape(h)
    BY DEF TypeInv
  <1>2. n - 1 \in Nat /\ n \in Nat /\ n \in DOMAIN Lines(h) /\ n \in DOMAIN plan[h]
    <2>1. req[h] \in Requests /\ n \in 1 .. Len(Lines(h)) /\ Len(plan[h]) = Len(Lines(h))
      BY <1>1 DEF Shape, Writing, InLine
    <2>2. DOMAIN Lines(h) = 1 .. Len(Lines(h)) /\ Len(Lines(h)) \in Nat
      BY <2>1, RequestShape DEF Lines
    <2>3. DOMAIN plan[h] = 1 .. Len(plan[h])
      BY <1>1 DEF TypeOK
    <2> QED
      BY <2>1, <2>2, <2>3
  <1>3. b \in Batches /\ rowLock[b] = h /\ b = Lines(h)[n].batch
    BY <1>1, <1>2 DEF Shape, Holding, Writing, Current
  <1> HIDE DEF b, n
  <1>4. /\ plan[h][n] \in Nat /\ seen[h][b] \in Nat /\ itemQty[h][b] \in Nat
        /\ stock[b] \in Nat
    <2>1. /\ plan[h] \in Seq(Nat) /\ stock \in [Batches -> Nat]
          /\ seen[h] \in [Batches -> Nat] /\ itemQty[h] \in [Batches -> Nat]
      BY <1>1 DEF TypeOK
    <2> QED
      BY <1>2, <1>3, <2>1
  <1>5. /\ seen[h][b] + itemQty[h][b] >= stock[b]
        /\ \E v \in Nat : Leaves(h, n, b, v) /\ v + itemQty[h][b] = stock[b]
    BY <1>3, <1>4 DEF Books, BooksOf, RowRight, Applied, InFlight, n
  <1>6. Leaves(h, n, b, plan[h][n])
    <2>1. (n - 1) + 1 = n
      BY <1>2
    <2>2. Lines(h)[(n - 1) + 1].batch = b
      BY <1>3, <2>1
    <2>3. LeavesOf(Lines(h), plan[h], stock[b], (n - 1) + 1, b, plan[h][(n - 1) + 1])
      BY <1>2, <2>2, LeavesTake
    <2> QED
      BY <2>1, <2>3, Zenon DEF Leaves
  <1>7. plan[h][n] + itemQty[h][b] = stock[b]
    BY <1>2, <1>5, <1>6, LeavesUnique DEF Leaves
  <1> QED
    BY <1>3, <1>4, <1>5, <1>7 DEF b, n

-----------------------------------------------------------------------------
LEMMA StatementAlerts ==
    ASSUME StockInv, AlertsRight, NEW h \in Handlers, Statement(h)
    PROVE  AlertsRight'
  <1> USE DEF Goto, tables, locks, locals, writes
  <1>a. TypeInv /\ TypeOK /\ LockInv /\ Books("surplus")
    BY DEF StockInv, TypeInv
  <1>b. ASSUME NEW status, Rollback(h, status) PROVE AlertsRight'
    BY <1>a, <1>b, FinishAlerts DEF Rollback
  <1>c. CASE \E status : Rollback(h, status)
    BY <1>b, <1>c
  <1>1. CASE TakeAdvisoryLock(h) \/ LoadSale(h)
    BY <1>a, <1>1, MoveAlerts DEF TakeAdvisoryLock, LoadSale
  <1>2. CASE LoadItems(h)
    <2>1. \E status, left : Finish(h, status, left)
      BY <1>2 DEF LoadItems
    <2> QED
      BY <1>a, <1>2, <2>1, FinishAlerts DEF LoadItems
  <1>3. CASE LockBatch(h) /\ ~\E status : Rollback(h, status)
    <2>1. PICK b \in Batches, step \in {"validate", "lock"} :
            /\ pc[h] = "lock"
            /\ rowLock' = [rowLock EXCEPT ![b] = h]
            /\ seen' = [seen EXCEPT ![h][b] = stock[b]]
            /\ pc' = [pc EXCEPT ![h] = step]
            /\ UNCHANGED <<req, stock, low, done, newLow>>
      BY <1>3 DEF LockBatch
    <2>2. /\ seen'[h][b] = stock[b] /\ stock[b] \in Nat
          /\ \A c \in Batches \ {b} : rowLock'[c] = rowLock[c] /\ seen'[h][c] = seen[h][c]
          /\ rowLock'[b] = h
          /\ \A g \in Handlers \ {h} : pc'[g] = pc[g] /\ seen'[g] = seen[g]
      BY <1>a, <2>1 DEF TypeOK
    <2>3. OtherRowsUntouched(h)
      BY <2>1, <2>2 DEF OtherRowsUntouched
    <2>4. \A c \in Batches : AlertRight(h, c)'
      BY <2>1, <2>2 DEF AlertsRight, AlertRight
    <2> QED
      BY <2>3, <2>4, AlertsByHandler
  <1>4. CASE ValidateLine(h) /\ ~\E status : Rollback(h, status)
    <2>1. PICK step : pc' = [pc EXCEPT ![h] = step]
      BY <1>4 DEF ValidateLine
    <2> QED
      BY <1>a, <1>4, <2>1, MoveAlerts DEF ValidateLine
  <1>5. CASE InsertSale(h) /\ ~\E status : Rollback(h, status)
    BY <1>a, <1>5, MoveAlerts DEF InsertSale
  <1>6. CASE InsertItem(h) /\ ~\E status : Rollback(h, status)
    <2>1. \A g \in Handlers \ {h} : done'[g] = done[g]
      BY <1>a, <1>6 DEF InsertItem, TypeOK
    <2> QED
      BY <1>a, <1>6, <2>1, MoveAlerts DEF InsertItem
  <1>7. CASE UpdateStock(h)
    <2> DEFINE b == Current(h).batch
    <2>1. /\ pc[h] = "update" /\ pc' = [pc EXCEPT ![h] = "alert"]
          /\ seen' = seen \/ seen' = [seen EXCEPT ![h][b] = plan[h][done[h]]]
          /\ UNCHANGED <<req, stock, low, rowLock, done, newLow>>
      BY <1>7 DEF UpdateStock
    <2>2. Current(h)' = Current(h)
      BY <2>1 DEF Current, Lines
    <2> HIDE DEF b
    <2>3. /\ pc'[h] = "alert"
          /\ \A c \in Batches \ {b} : seen'[h][c] = seen[h][c]
          /\ \A g \in Handlers \ {h} : pc'[g] = pc[g] /\ seen'[g] = seen[g]
      <3>1. /\ pc \in [Handlers -> Steps \union {"idle", "done"}]
            /\ seen \in [Handlers -> [Batches -> Nat]]
        BY <1>a DEF TypeOK
      <3> QED
        BY <2>1, <3>1
    <2>4. OtherRowsUntouched(h)
      BY <2>1, <2>3 DEF OtherRowsUntouched
    <2>5. \A c \in Batches : AlertRight(h, c)'
      BY <2>1, <2>2, <2>3 DEF AlertsRight, AlertRight, b
    <2> QED
      BY <2>4, <2>5, AlertsByHandler
  <1>8. CASE EvaluateAlerts(h) /\ ~\E status : Rollback(h, status)
    <2> DEFINE b    == Current(h).batch
               left == plan[h][done[h]]
    <2>1. /\ pc[h] = "alert"
          /\ \E step \in Steps \ {"alert"} : pc' = [pc EXCEPT ![h] = step]
          /\ UNCHANGED <<req, stock, low, rowLock, done, seen>>
      BY <1>8 DEF EvaluateAlerts, AfterLine, Steps
    <2>2. \/ left > Threshold[ProductOf[b]] /\ newLow' = newLow
          \/ (low[b] # "none" \/ newLow[h][b] # "none") /\ newLow' = newLow
          \/ \E s \in {"critical", "warning"} : newLow' = [newLow EXCEPT ![h][b] = s]
      BY <1>8 DEF EvaluateAlerts
    <2>3. b \in Batches /\ left \in Nat /\ left <= seen[h][b]
      BY <1>a, <2>1, PlannedBelowSeen
    <2> HIDE DEF left, b
    <2>4. seen[h][b] \in Nat /\ Threshold[ProductOf[b]] \in Nat
      <3>1. seen[h][b] \in Nat
        BY <1>a, <2>3 DEF TypeOK
      <3> QED
        BY <2>3, <3>1, SalesAssumption
    <2>t. /\ pc \in [Handlers -> Steps \union {"idle", "done"}]
          /\ newLow \in [Handlers -> [Batches -> Severity]]
      BY <1>a DEF TypeOK
    <2>5. /\ pc'[h] # "alert"
          /\ \A c \in Batches \ {b} : newLow'[h][c] = newLow[h][c]
          /\ \A g \in Handlers \ {h} : pc'[g] = pc[g] /\ newLow'[g] = newLow[g]
      BY <2>t, <2>1, <2>2, <2>3
    <2>6. \/ left > Threshold[ProductOf[b]]
          \/ low'[b] # "none"
          \/ newLow'[h][b] # "none"
      BY <2>t, <2>1, <2>2, <2>3
    <2>7. OtherRowsUntouched(h)
      BY <2>1, <2>5 DEF OtherRowsUntouched
    <2>8. ASSUME NEW c \in Batches PROVE AlertRight(h, c)'
      <3>1. CASE c = b
        BY <2>1, <2>3, <2>4, <2>6, <3>1 DEF AlertRight
      <3>2. CASE c # b
        BY <2>1, <2>5, <3>2 DEF AlertsRight, AlertRight, b
      <3> QED
        BY <3>1, <3>2
    <2> QED
      BY <2>7, <2>8, AlertsByHandler
  <1>9. CASE ResolveAging(h)
    BY <1>a, <1>9, MoveAlerts DEF ResolveAging
  <1>10. CASE Commit(h)
    <2>1. \A b \in Batches : low[b] # "none" => low'[b] # "none"
      BY <1>10 DEF Commit
    <2>2. \A b \in Batches : rowLock[b] # h => stock'[b] = stock[b]
      BY <1>10 DEF Commit
    <2> QED
      BY <1>a, <1>10, <2>1, <2>2, FinishAlerts DEF Commit
  <1> QED
    BY <1>c, <1>1, <1>2, <1>3, <1>4, <1>5, <1>6, <1>7, <1>8, <1>9, <1>10 DEF Statement

\* What a commit leaves low was low before or is announced with it.
LEMMA CommitWarns ==
    ASSUME AlertInv, NEW h \in Handlers, Commit(h)
    PROVE  LowStockWarned'
  <1> SUFFICES ASSUME NEW b \in Batches, stock'[b] < Received[b],
                      stock'[b] <= Threshold[ProductOf[b]]
               PROVE  low'[b] # "none"
    BY DEF LowStockWarned
  <1>1. TypeOK /\ pc[h] = "commit"
    BY DEF AlertInv, StockInv, TypeInv, Commit
  <1>2. /\ stock'[b] = IF rowLock[b] = h THEN seen[h][b] ELSE stock[b]
        /\ low[b] # "none" \/ newLow[h][b] # "none" => low'[b] # "none"
    BY DEF Commit
  <1>3. CASE stock'[b] = stock[b]
    BY <1>2, <1>3 DEF AlertInv, LowStockWarned
  <1>4. CASE rowLock[b] = h /\ seen[h][b] # stock[b]
    <2>1. seen[h][b] <= stock[b]
      BY <1>4 DEF AlertInv, StockInv, Books, BooksOf, RowRight
    <2>2. seen[h][b] < stock[b]
      BY <1>1, <1>4, <2>1 DEF TypeOK
    <2> QED
      BY <1>1, <1>2, <1>4, <2>2 DEF AlertInv, AlertsRight, AlertRight
  <1> QED
    BY <1>2, <1>3, <1>4

LEMMA NextAlertInv == AlertInv /\ [Next]_vars => AlertInv'
  <1> SUFFICES ASSUME AlertInv, [Next]_vars PROVE LowStockWarned' /\ AlertsRight'
    BY NextStockInv DEF AlertInv
  <1>a. StockInv /\ LowStockWarned /\ AlertsRight /\ TypeOK
    BY DEF AlertInv, StockInv, TypeInv
  <1>1. ASSUME NEW h \in Handlers, Statement(h) PROVE LowStockWarned' /\ AlertsRight'
    <2>1. CASE Commit(h)
      BY <1>a, <1>1, <2>1, CommitWarns, StatementAlerts
    <2>2. CASE ~Commit(h)
      <3>1. UNCHANGED <<stock, low>>
        BY <1>1, <2>2 DEF Statement, TakeAdvisoryLock, LoadSale, LoadItems, LockBatch,
             ValidateLine, InsertSale, InsertItem, UpdateStock, EvaluateAlerts, ResolveAging,
             Rollback, tables
      <3> QED
        BY <1>a, <1>1, <3>1, StatementAlerts DEF LowStockWarned
    <2> QED
      BY <2>1, <2>2
  <1>2. ASSUME NEW h \in Handlers, NEW r \in Requests, Begin(h, r)
        PROVE  LowStockWarned' /\ AlertsRight'
    <2>1. /\ UNCHANGED <<stock, low, rowLock, seen, newLow, done>>
          /\ pc[h] # "alert" /\ \E step : pc' = [pc EXCEPT ![h] = step]
          /\ \A g \in Handlers \ {h} : req'[g] = req[g]
      BY <1>a, <1>2 DEF Begin, Goto, tables, locks, locals, writes, TypeOK
    <2> QED
      BY <1>a, <2>1, MoveAlerts DEF LowStockWarned
  <1>3. ASSUME NEW h \in Handlers, Abort(h) PROVE LowStockWarned' /\ AlertsRight'
    <2>1. /\ Finish(h, "error", <<>>)
          /\ UNCHANGED <<stock, low, req, done, seen, newLow>>
      BY <1>3 DEF Abort, Rollback, tables, locals, writes
    <2> QED
      BY <1>a, <2>1, FinishAlerts DEF LowStockWarned
  <1>4. CASE SetAccess \/ UNCHANGED vars
    BY <1>a, <1>4 DEF SetAccess, vars, tables, locks, locals, writes, LowStockWarned, AlertsRight,
         AlertRight, Current, Lines
  <1> QED
    BY <1>1, <1>2, <1>3, <1>4 DEF Next, SteadyNext, Quiet

\* Whenever a sale leaves a batch at or below its product's threshold, the batch
\* has its low_stock alert from the same commit on, however many lines touched
\* it and whatever happened to access between the statements.
THEOREM LowStockAnnounced == Spec => []LowStockWarned
  <1>1. Init => AlertInv
    <2>1. Init => LowStockWarned
      <3>1. \A b \in Batches : ~(Received[b] < Received[b])
        BY SalesAssumption
      <3> QED
        BY <3>1 DEF Init, LowStockWarned
    <2>2. Init => AlertsRight
      BY SalesAssumption DEF Init, AlertsRight, AlertRight
    <2> QED
      BY <2>1, <2>2, InitStockInv DEF AlertInv
  <1>2. AlertInv => LowStockWarned
    BY DEF AlertInv
  <1> QED
    BY <1>1, <1>2, NextAlertInv, PTL DEF Spec

-----------------------------------------------------------------------------
(* The ledger that the tables implement: sums of lines and of sales. *)

LEMMA DemandCounts ==
    ASSUME NEW r, NEW b
    PROVE  Ledger!Demand(r, b) = (CHOOSE f : Counts(f, r.lines, b))[DOMAIN r.lines]
  BY DEF Ledger!Demand, Ledger!FoldLeft, Ledger!MapThenFoldSet, Ledger!Max, Max, Counts

LEMMA DemandUpto ==
    ASSUME NEW r \in Requests, NEW b
    PROVE  \E taken \in [0 .. Len(r.lines) -> Nat] :
             Tallies(taken, r.lines, b) /\ Ledger!Demand(r, b) = taken[Len(r.lines)]
  BY RequestShape, CountTallies, DemandCounts

\* The library's sum picks any element.
AnyKey == [s \in SUBSET Keys |-> CHOOSE k \in s : TRUE]

TakesOf(recorded, b) ==
    [k \in Keys |-> IF recorded[k] = None THEN 0 ELSE Ledger!Demand(recorded[k], b)]

LEMMA AnyKeyPicks == \A s \in SUBSET Keys : s # {} => AnyKey[s] \in s
  BY DEF AnyKey

LEMMA TakesNat ==
    ASSUME NEW recorded \in [Keys -> Requests \union {None}], NEW b
    PROVE  \A k \in Keys : TakesOf(recorded, b)[k] \in Nat
  <1> TAKE k \in Keys
  <1>1. CASE recorded[k] = None
    BY <1>1 DEF TakesOf
  <1>2. CASE recorded[k] \in Requests
    <2>1. Ledger!Demand(recorded[k], b) \in Nat
      BY <1>2, DemandUpto, RequestShape
    <2> QED
      BY <2>1 DEF TakesOf
  <1> QED
    BY <1>1, <1>2

LEMMA TakenAdds ==
    ASSUME NEW recorded \in [Keys -> Requests \union {None}], NEW b
    PROVE  \E f : Adds(f, Keys, AnyKey, TakesOf(recorded, b)) /\ TakenBy(recorded, b) = f[Keys]
  <1> DEFINE Some(s) == CHOOSE x \in s : TRUE
             Takes(k) == IF recorded[k] = None THEN 0 ELSE Ledger!Demand(recorded[k], b)
             Sums(f) == f = [s \in SUBSET Keys |->
                               IF s = {} THEN 0 ELSE Takes(Some(s)) + f[s \ {Some(s)}]]
  <1>1. TakenBy(recorded, b) = (CHOOSE f : Sums(f))[Keys]
    BY DEF TakenBy, MapThenSumSet, MapThenFoldSet
  <1>2. ASSUME NEW f PROVE Sums(f) <=> Adds(f, Keys, AnyKey, TakesOf(recorded, b))
    <2>1. \A s \in SUBSET Keys : s # {} =>
            AnyKey[s] = Some(s) /\ TakesOf(recorded, b)[AnyKey[s]] = Takes(Some(s))
      BY DEF AnyKey, TakesOf
    <2> HIDE DEF Some, Takes
    <2> QED
      BY <2>1 DEF Adds
  <1>3. \E f : Adds(f, Keys, AnyKey, TakesOf(recorded, b))
    BY AddsExists, AnyKeyPicks, TakesNat, SalesAssumption
  <1> HIDE DEF Sums
  <1> QED
    BY <1>1, <1>2, <1>3

\* Recording a sale under a free key adds its lines to what was taken.
LEMMA TakenMore ==
    ASSUME NEW recorded \in [Keys -> Requests \union {None}], NEW r \in Requests,
           recorded[r.key] = None, NEW b
    PROVE  /\ TakenBy([recorded EXCEPT ![r.key] = r], b)
                = TakenBy(recorded, b) + Ledger!Demand(r, b)
           /\ TakenBy(recorded, b) \in Nat /\ Ledger!Demand(r, b) \in Nat
  <1> DEFINE after == [recorded EXCEPT ![r.key] = r]
             d == Ledger!Demand(r, b)
             wt1 == TakesOf(recorded, b)
             wt2 == TakesOf(after, b)
  <1>1. r.key \in Keys /\ r # None
    BY SalesAssumption
  <1>2. after \in [Keys -> Requests \union {None}]
    OBVIOUS
  <1>3. d \in Nat
    BY DemandUpto, RequestShape
  <1>4. PICK f : Adds(f, Keys, AnyKey, wt1) /\ TakenBy(recorded, b) = f[Keys]
    BY TakenAdds
  <1>5. PICK g : Adds(g, Keys, AnyKey, wt2) /\ TakenBy(after, b) = g[Keys]
    <2> HIDE DEF after
    <2> QED
      BY <1>2, TakenAdds
  <1>6. \A k \in Keys : wt1[k] \in Nat
    BY TakesNat
  <1>7. MoreFor(wt1, wt2, Keys, r.key, d)
    <2>1. wt1[r.key] = 0 /\ wt2[r.key] = d
      BY <1>1 DEF TakesOf
    <2>2. \A k \in Keys \ {r.key} : wt2[k] = wt1[k]
      BY DEF TakesOf
    <2> HIDE DEF wt1, wt2, d
    <2> QED
      BY <1>3, <2>1, <2>2 DEF MoreFor
  <1> HIDE DEF wt1, wt2, d, after
  <1>8. \A s \in SUBSET Keys : f[s] \in Nat
    BY <1>4, <1>6, AddsNat, AnyKeyPicks, SalesAssumption
  <1>9. \A s \in SUBSET Keys : g[s] = IF r.key \in s THEN f[s] + d ELSE f[s]
    <2>1. IsFiniteSet(Keys)
      BY SalesAssumption
    <2> QED
      BY <2>1, <1>3, <1>4, <1>5, <1>6, <1>7, AddsMore, AnyKeyPicks
  <1>10. TakenBy(after, b) = TakenBy(recorded, b) + d /\ TakenBy(recorded, b) \in Nat
    BY <1>1, <1>4, <1>5, <1>8, <1>9
  <1> QED
    BY <1>3, <1>10 DEF after, d

-----------------------------------------------------------------------------
\* What the first n lines leave of a batch and what they take from it make up
\* what was there.
LEMMA PlanTakes ==
    ASSUME NEW lines, Len(lines) \in Nat, \A i \in 1 .. Len(lines) : lines[i].qty \in Nat,
           NEW b, NEW start \in Nat, NEW left, \A i \in 1 .. Len(lines) : left[i] \in Nat,
           \A i \in 1 .. Len(lines) : lines[i].batch = b =>
               LeavesOf(lines, left, start, i - 1, b, left[i] + lines[i].qty),
           NEW taken \in [0 .. Len(lines) -> Nat], Tallies(taken, lines, b)
    PROVE  \A n \in 0 .. Len(lines) : \A v :
               LeavesOf(lines, left, start, n, b, v) => v \in Nat /\ v + taken[n] = start
  <1> DEFINE Right(n) == \A v : LeavesOf(lines, left, start, n, b, v) =>
                                  v \in Nat /\ v + taken[n] = start
             Bad == {n \in 0 .. Len(lines) : ~Right(n)}
  <1> SUFFICES ASSUME Bad # {} PROVE FALSE
    OBVIOUS
  <1>1. PICK n \in Bad : \A m \in Bad : ~(m < n)
    <2>1. Bad \subseteq Nat
      OBVIOUS
    <2> HIDE DEF Bad
    <2> QED
      BY <2>1, LeastNumber
  <1>2. PICK v : LeavesOf(lines, left, start, n, b, v) /\ ~(v \in Nat /\ v + taken[n] = start)
    OBVIOUS
  <1>3. n \in 0 .. Len(lines)
    OBVIOUS
  <1>4. CASE n = 0
    <2>1. v = start
      BY <1>2, <1>4 DEF LeavesOf
    <2> QED
      BY <1>2, <1>4, <2>1 DEF Tallies
  <1>5. CASE n # 0
    <2> DEFINE m == n - 1
    <2>1. m \in Nat /\ m \in 0 .. Len(lines) /\ n \in 1 .. Len(lines) /\ m < n /\ n = m + 1
      BY <1>3, <1>5
    <2>2. Right(m)
      BY <1>1, <2>1
    <2>3. taken[m] \in Nat /\ lines[n].qty \in Nat /\ left[n] \in Nat
      BY <2>1
    <2> HIDE DEF m, Bad
    <2>4. CASE lines[n].batch = b
      <3>1. LeavesOf(lines, left, start, n, b, left[n])
        BY <2>1, <2>4, LeavesTake
      <3>2. v = left[n]
        BY <1>2, <2>1, <3>1, LeavesUnique
      <3>3. LeavesOf(lines, left, start, m, b, left[n] + lines[n].qty)
        BY <2>1, <2>4 DEF m
      <3>4. left[n] + lines[n].qty + taken[m] = start
        BY <2>2, <3>3
      <3>5. taken[n] = taken[m] + lines[n].qty
        BY <2>1, <2>4 DEF m, Tallies
      <3> QED
        BY <1>2, <2>3, <3>2, <3>4, <3>5
    <2>5. CASE lines[n].batch # b
      <3>1. LeavesOf(lines, left, start, m, b, v)
        <4>1. CASE \A i \in 1 .. n : lines[i].batch # b
          BY <1>2, <2>1, <4>1 DEF LeavesOf
        <4>2. CASE ~\A i \in 1 .. n : lines[i].batch # b
          <5>1. PICK i \in 1 .. n :
                  lines[i].batch = b /\ v = left[i] /\ \A j \in i + 1 .. n : lines[j].batch # b
            BY <1>2, <4>2 DEF LeavesOf
          <5>2. i \in 1 .. m /\ \A j \in i + 1 .. m : j \in i + 1 .. n
            BY <2>1, <2>5, <5>1
          <5> QED
            BY <5>1, <5>2 DEF LeavesOf
        <4> QED
          BY <4>1, <4>2
      <3>2. taken[n] = taken[m]
        BY <2>1, <2>5 DEF m, Tallies
      <3> QED
        BY <1>2, <2>2, <3>1, <3>2
    <2> QED
      BY <2>4, <2>5
  <1> QED
    BY <1>4, <1>5

\* A transaction about to commit has inserted the items of its whole request, and
\* its request takes no more of any batch than there is.
LEMMA CommitTakes ==
    ASSUME NEW kind, TypeInv, NEW h \in Handlers, BooksOf(h, kind), pc[h] = "commit",
           NEW b \in Batches
    PROVE  /\ Ledger!Demand(req[h], b) = itemQty[h][b]
           /\ Ledger!Demand(req[h], b) <= stock[b]
           /\ rowLock[b] # h => Ledger!Demand(req[h], b) = 0
  <1> DEFINE lines == Lines(h)
  <1>1. TypeOK /\ Shape(h) /\ req[h] \in Requests
    BY DEF TypeInv, Shape
  <1>2. /\ Len(lines) \in Nat /\ DOMAIN lines = 1 .. Len(lines)
        /\ \A i \in 1 .. Len(lines) : lines[i].qty \in Nat
    BY <1>1, RequestShape DEF Lines
  <1>3. /\ DOMAIN plan[h] = 1 .. Len(lines)
        /\ \A i \in 1 .. Len(lines) : plan[h][i] \in Nat
    <2>1. plan[h] \in Seq(Nat) /\ Len(plan[h]) = Len(lines)
      BY <1>1 DEF TypeOK, Shape, Writing
    <2> QED
      BY <2>1
  <1>4. stock[b] \in Nat /\ itemQty[h][b] \in Nat
    BY <1>1 DEF TypeOK
  <1>5. PICK taken \in [0 .. Len(lines) -> Nat] :
          Tallies(taken, lines, b) /\ Ledger!Demand(req[h], b) = taken[Len(lines)]
    BY <1>1, DemandUpto DEF Lines
  <1> HIDE DEF lines
  <1>6. CASE rowLock[b] = h
    <2>1. done[h] = Len(lines)
      BY <1>1 DEF Shape, lines
    <2>2. PICK v \in Nat : Leaves(h, Len(lines), b, v) /\ v + itemQty[h][b] = stock[b]
      BY <1>4, <1>6, <2>1 DEF BooksOf, RowRight, Applied, InFlight
    <2>3. \A i \in 1 .. Len(lines) : lines[i].batch = b =>
            LeavesOf(lines, plan[h], stock[b], i - 1, b, plan[h][i] + lines[i].qty)
      BY <1>3 DEF BooksOf, PlanRight, Leaves, Holding, Writing, lines
    <2>4. v + taken[Len(lines)] = stock[b]
      <3>1. LeavesOf(lines, plan[h], stock[b], Len(lines), b, v)
        BY <2>2 DEF Leaves, lines
      <3>2. Len(lines) \in 0 .. Len(lines)
        BY <1>2
      <3> QED
        BY <1>2, <1>3, <1>4, <1>5, <2>3, <3>1, <3>2, PlanTakes
    <2>5. taken[Len(lines)] \in Nat
      BY <1>2, <1>5
    <2> QED
      BY <1>4, <1>5, <1>6, <2>2, <2>4, <2>5
  <1>7. CASE rowLock[b] # h
    <2>1. itemQty[h][b] = 0
      BY <1>7 DEF BooksOf, ItemsOnHeldRows
    <2>2. \A i \in 1 .. Len(lines) : lines[i].batch # b
      BY <1>1, <1>2, <1>7 DEF Shape, Holding, Writing, lines
    <2>3. LeavesOf(lines, plan[h], 0, Len(lines), b, 0)
      BY <2>2 DEF LeavesOf
    <2>4. 0 + taken[Len(lines)] = 0
      <3>1. Len(lines) \in 0 .. Len(lines) /\ 0 \in Nat
        BY <1>2
      <3> QED
        BY <1>2, <1>3, <1>5, <2>2, <2>3, <3>1, PlanTakes
    <2>5. taken[Len(lines)] \in Nat
      BY <1>2, <1>5
    <2> QED
      BY <1>4, <1>5, <2>1, <2>4, <2>5
  <1> QED
    BY <1>6, <1>7

-----------------------------------------------------------------------------
LEMMA CommitRecords ==
    ASSUME SteadyInv, NEW h \in Handlers, Commit(h)
    PROVE  Ledger!Next
  <1>1. TypeInv /\ TypeOK /\ pc[h] = "commit" /\ req[h] \in Requests
    BY DEF SteadyInv, TypeInv, Commit, Shape
  <1>2. sales[req[h].key] = None /\ sales' = [sales EXCEPT ![req[h].key] = req[h]]
    BY <1>1 DEF SteadyInv, KeyStillFree, Steps, Commit
  <1>3. ASSUME NEW b \in Batches
        PROVE  /\ Ledger!Demand(req[h], b) <= stock[b]
               /\ stock'[b] = stock[b] - Ledger!Demand(req[h], b)
    <2>1. /\ Ledger!Demand(req[h], b) = itemQty[h][b]
          /\ Ledger!Demand(req[h], b) <= stock[b]
          /\ rowLock[b] # h => Ledger!Demand(req[h], b) = 0
      BY <1>1, CommitTakes DEF SteadyInv, Books
    <2>2. stock'[b] = IF rowLock[b] = h THEN seen[h][b] ELSE stock[b]
      BY DEF Commit
    <2>3. rowLock[b] = h => seen[h][b] + itemQty[h][b] = stock[b] + 0
      BY <1>1 DEF SteadyInv, Books, BooksOf, RowRight, InFlight
    <2>4. stock[b] \in Nat /\ seen[h][b] \in Nat /\ itemQty[h][b] \in Nat
      BY <1>1 DEF TypeOK
    <2> QED
      BY <2>1, <2>2, <2>3, <2>4
  <1>4. stock' = [b \in Batches |-> stock[b] - Ledger!Demand(req[h], b)]
    <2>1. stock' = [b \in Batches |-> stock'[b]]
      BY DEF Commit
    <2> QED
      BY <1>3, <2>1
  <1> QED
    BY <1>1, <1>2, <1>3, <1>4 DEF Ledger!Next, Ledger!Record

\* While access is steady, the many statements of concurrent requests move the
\* committed tables exactly as one atomic, idempotent deduction at a time does:
\* the commit is the abstract step, every other statement leaves the tables alone.
THEOREM SaleLedgerImplemented == SteadySpec => ImplementsLedger
  <1>1. Init => Ledger!Init
    BY DEF Init, Ledger!Init
  <1>2. SteadyInv /\ [SteadyNext]_vars => [Ledger!Next]_<<stock, sales>>
    <2> SUFFICES ASSUME SteadyInv, [SteadyNext]_vars PROVE [Ledger!Next]_<<stock, sales>>
      OBVIOUS
    <2>1. CASE \E h \in Handlers : Commit(h)
      BY <2>1, CommitRecords
    <2>2. CASE ~\E h \in Handlers : Commit(h)
      BY <2>2, OnlyCommitsWrite
        DEF SteadyNext, Quiet, Begin, Abort, Rollback, vars, tables
    <2> QED
      BY <2>1, <2>2
  <1> QED
    BY <1>1, <1>2, SteadyInvariant, PTL DEF SteadySpec, ImplementsLedger, Ledger!Spec

LEMMA CommitKeepsItems ==
    ASSUME StockInv, ItemsAreWholeSales, NEW h \in Handlers, Commit(h)
    PROVE  ItemsAreWholeSales'
  <1>1. TypeInv /\ TypeOK /\ pc[h] = "commit" /\ req[h] \in Requests
    BY DEF StockInv, TypeInv, Commit, Shape
  <1>2. sales[req[h].key] = None /\ sales' = [sales EXCEPT ![req[h].key] = req[h]]
    BY <1>1 DEF StockInv, KeyFree, Writing, Commit
  <1>3. sales \in [Keys -> Requests \union {None}]
    BY <1>1 DEF TypeOK
  <1>4. ASSUME NEW b \in Batches PROVE sold'[b] = TakenBy(sales', b)
    <2>1. Ledger!Demand(req[h], b) = itemQty[h][b]
      BY <1>1, CommitTakes DEF StockInv, Books
    <2>2. sold'[b] = sold[b] + itemQty[h][b] /\ sold[b] = TakenBy(sales, b)
      BY DEF Commit, ItemsAreWholeSales
    <2>3. TakenBy(sales', b) = TakenBy(sales, b) + Ledger!Demand(req[h], b)
      BY <1>1, <1>2, <1>3, TakenMore
    <2> QED
      BY <2>1, <2>2, <2>3
  <1> QED
    BY <1>4 DEF ItemsAreWholeSales

\* The sale_items in the database are those of the recorded sales, every line of
\* them and nothing else, whatever happens to access between two statements: an
\* insert that is refused takes its whole transaction with it.
THEOREM ItemsWhole == Spec => []ItemsAreWholeSales
  <1>1. Init => ItemsAreWholeSales
    <2> SUFFICES ASSUME Init, NEW b \in Batches PROVE sold[b] = TakenBy(sales, b)
      BY DEF ItemsAreWholeSales
    <2>1. PICK f : Adds(f, Keys, AnyKey, TakesOf(sales, b)) /\ TakenBy(sales, b) = f[Keys]
      BY TakenAdds DEF Init
    <2>2. \A k \in Keys : TakesOf(sales, b)[k] = 0
      BY DEF Init, TakesOf
    <2>3. f[Keys] = 0
      <3>1. IsFiniteSet(Keys)
        BY SalesAssumption
      <3>2. PICK takes : takes = TakesOf(sales, b)
        OBVIOUS
      <3>3. Adds(f, Keys, AnyKey, takes) /\ \A k \in Keys : takes[k] = 0
        BY <2>1, <2>2, <3>2
      <3>4. \A s \in SUBSET Keys : f[s] = 0
        BY <3>1, <3>3, AddsZero, AnyKeyPicks
      <3> QED
        BY <3>4
    <2> QED
      BY <2>1, <2>3 DEF Init
  <1>2. StockInv /\ ItemsAreWholeSales /\ [Next]_vars => ItemsAreWholeSales'
    <2> SUFFICES ASSUME StockInv, ItemsAreWholeSales, [Next]_vars PROVE ItemsAreWholeSales'
      OBVIOUS
    <2>1. CASE \E h \in Handlers : Commit(h)
      BY <2>1, CommitKeepsItems
    <2>2. CASE ~\E h \in Handlers : Commit(h)
      <3>1. sold' = sold /\ sales' = sales
        BY <2>2, OnlyCommitsWrite
          DEF Next, SteadyNext, Quiet, Begin, Abort, Rollback, SetAccess, vars, tables
      <3> QED
        BY <3>1 DEF ItemsAreWholeSales
    <2> QED
      BY <2>1, <2>2
  <1> QED
    BY <1>1, <1>2, StockInvariant, PTL DEF Spec
=============================================================================
