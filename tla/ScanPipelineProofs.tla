------------------------- MODULE ScanPipelineProofs -------------------------
(***************************************************************************)
(* What crashes, repeated deliveries and workers that outrun the request   *)
(* cannot do to a scan, and what every scan and push can rely on without   *)
(* them, for any numbers of scans, workers and batches.                    *)
(***************************************************************************)
EXTENDS ScanPipeline, TLAPS

\* Statements before and after the transaction of complete, within it, and those after
\* the update of the scan.
Outside == {"idle", "mark", "classify", "lock", "fail", "tell completed", "tell failed"}
Inside  == {"batch", "write", "alert", "await", "commit"}
Written == {"alert", "await", "commit"}

\* What the transaction of a worker knows of the row it locked: nobody else changes it.
\* Without the lock it has no batch to link.
KnowsRow(w) ==
    LET j == job[w] IN
    /\ j.locks => scan[j.scan] # None
    /\ ~j.locks => ~j.makes /\ j.batch = None
    /\ j.at = "batch" => j.locks /\ j.batch = None /\ ~j.makes /\ scan[j.scan].batch = None
    /\ j.makes => j.batch = j.scan /\ scan[j.scan].batch = None
    /\ j.locks /\ j.batch # None /\ ~j.makes => scan[j.scan].batch = j.batch

Keeps(w) ==
    LET j == job[w] IN
    /\ j.at # "idle" => j.scan \in Scans
    /\ j.at \in Outside => ~j.locks /\ ~j.wrote /\ ~j.alerts
    /\ j.wrote => j.at \in Written
    /\ j.at \in Written => (j.wrote <=> j.locks)

\* A worker that did not outrun the request finds the row, and the row holds nothing the
\* worker does not know of.
NotEarly(w) ==
    LET j == job[w] IN
    j.at # "idle" /\ j.scan \notin early =>
        /\ Answered(j.scan)
        /\ j.at \in Inside /\ scan[j.scan] # None => j.locks
        /\ j.locks => /\ scan[j.scan].product => j.product
                      /\ scan[j.scan].batch # None => j.batch = scan[j.scan].batch

\* Between the update of the scan and the commit the alert is prepared.
Warns(w) ==
    /\ job[w].at \in {"alert", "await"} => NeedsAlert(job[w])
    /\ job[w].at = "commit" /\ NeedsAlert(job[w]) => job[w].alerts \/ job[w].batch \in alerted
    /\ job[w].alerts => job[w].batch # None

Knows(w) == Keeps(w) /\ KnowsRow(w) /\ NotEarly(w) /\ Warns(w)

\* The row lock.
Exclusive ==
    \A v, w \in Workers : v # w /\ job[v].locks /\ job[w].locks => job[v].scan # job[w].scan

\* The API's side: rows are those of accepted requests.
Running == {"insert", "send", "register", "commit"}
Requests ==
    \A s \in Scans : /\ api[s] \in Running => form[s] \in Uploads
                     /\ scan[s] # None <=> api[s] = "accepted"

Batched == \A s \in Scans : /\ made[s] <= 1
                            /\ made[s] # 0 => scan[s] # None /\ scan[s].batch = s

Inv ==
    /\ TypeOK
    /\ access
    /\ Requests
    /\ Batched
    /\ \A w \in Workers : Knows(w)
    /\ Exclusive
    /\ SpoiledBatchAlerted
-----------------------------------------------------------------------------
LEMMA IdleJob ==
    /\ Idle \in Job /\ Idle.at = "idle" /\ Idle.scan = None /\ Idle.batch = None
    /\ ~Idle.locks /\ ~Idle.makes /\ ~Idle.wrote /\ ~Idle.alerts
  BY DEF Idle, Job, JobStep, Verdict

LEMMA InitInv == Init => Inv
  <1> SUFFICES ASSUME Init PROVE Inv
    OBVIOUS
  <1> USE DEF Init
  <1>1. TypeOK
    BY IdleJob DEF TypeOK, ApiStep, Answer
  <1>2. Requests /\ Batched /\ SpoiledBatchAlerted
    BY DEF Requests, Batched, SpoiledBatchAlerted, Running
  <1>3. \A w \in Workers : Knows(w)
    BY IdleJob DEF Knows, Keeps, KnowsRow, NotEarly, Warns, Outside, Inside, Written
  <1>4. Exclusive
    BY IdleJob DEF Exclusive
  <1> QED
    BY <1>1, <1>2, <1>3, <1>4 DEF Inv

\* A worker that does nothing still knows what it knew, if the row it locked keeps its
\* product and batch.
LEMMA StillKnows ==
    ASSUME NEW w \in Workers, TypeOK, Knows(w), job'[w] = job[w],
           early \subseteq early', alerted \subseteq alerted',
           \A s \in Scans : Answered(s) => Answered(s)',
           job[w].locks => /\ scan'[job[w].scan] # None
                           /\ scan'[job[w].scan].batch = scan[job[w].scan].batch
                           /\ scan'[job[w].scan].product = scan[job[w].scan].product,
           \A s \in Scans \ early : Answered(s) /\ scan'[s] # None => scan[s] # None
    PROVE  Knows(w)'
  <1>1. Keeps(w)'
    BY DEF Knows, Keeps
  <1>2. KnowsRow(w)'
    BY DEF Knows, KnowsRow
  <1>3. NotEarly(w)'
    BY DEF Knows, Keeps, NotEarly
  <1>4. Warns(w)'
    BY DEF Knows, Warns, NeedsAlert
  <1> QED
    BY <1>1, <1>2, <1>3, <1>4 DEF Knows

\* Any step of a request but its commit.
LEMMA RequestStep ==
    ASSUME Inv, NEW s \in Scans, NEW step \in ApiStep \ {"accepted"},
           ~Answered(s), api' = [api EXCEPT ![s] = step],
           form' \in [Scans -> Uploads \union {None}],
           \A t \in Scans : api'[t] \in Running => form'[t] \in Uploads,
           queue' \subseteq Scans, UNCHANGED <<access, scan, made, alerted, job, early>>
    PROVE  Inv'
  <1>1. TypeOK /\ TypeOK'
    BY DEF Inv, TypeOK
  <1>2. Requests'
    BY <1>1 DEF Inv, Requests, TypeOK, Answered, Answer
  <1>3. \A t \in Scans : Answered(t) => Answered(t)'
    BY <1>1 DEF TypeOK, Answered, Answer
  <1>4. ASSUME NEW w \in Workers PROVE Knows(w)'
    <2>1. Knows(w) /\ (job[w].locks => scan[job[w].scan] # None)
      BY DEF Inv, Knows, KnowsRow
    <2> QED
      BY <1>1, <1>3, <2>1, StillKnows
  <1> QED
    BY <1>1, <1>2, <1>4 DEF Inv, Batched, Exclusive, SpoiledBatchAlerted

LEMMA PostInv ==
    ASSUME Inv, NEW s \in Scans, NEW f \in Uploads, Post(s, f)
    PROVE  Inv'
  <1>1. TypeOK /\ access /\ ~Answered(s)
    BY DEF Inv, Post, Answered, Answer
  <1>2. api' = [api EXCEPT ![s] = "insert"] /\ form' = [form EXCEPT ![s] = f]
    BY <1>1 DEF Post
  <1>3. /\ form' \in [Scans -> Uploads \union {None}]
        /\ \A t \in Scans : api'[t] \in Running => form'[t] \in Uploads
    BY <1>1, <1>2 DEF Inv, TypeOK, Requests
  <1> QED
    BY <1>1, <1>2, <1>3, RequestStep DEF Post, data, Inv, TypeOK, ApiStep, Answer

\* A request ends without effect, or goes on.
LEMMA RequestGoesOn ==
    ASSUME Inv, NEW s \in Scans, api[s] \in Running, queue' \subseteq Scans,
           UNCHANGED <<access, scan, made, alerted, job, early>>,
           \/ \E answer \in Answer \ {"accepted"} : Fail(s, answer)
           \/ \E step \in Running : Advance(s, step)
    PROVE  Inv'
  <1>1. TypeOK /\ ~Answered(s)
    BY DEF Inv, Answered, Answer, Running
  <1>2. ASSUME NEW answer \in Answer \ {"accepted"}, Fail(s, answer) PROVE Inv'
    <2>1. /\ form' \in [Scans -> Uploads \union {None}]
          /\ \A t \in Scans : api'[t] \in Running => form'[t] \in Uploads
      BY <1>1, <1>2 DEF Fail, Inv, TypeOK, Requests, Running, Answer
    <2> QED
      BY <1>1, <1>2, <2>1, RequestStep DEF Fail, ApiStep, Answer
  <1>3. ASSUME NEW step \in Running, Advance(s, step) PROVE Inv'
    <2>1. /\ form' \in [Scans -> Uploads \union {None}]
          /\ \A t \in Scans : api'[t] \in Running => form'[t] \in Uploads
      BY <1>1, <1>3 DEF Advance, Inv, TypeOK, Requests, Running
    <2> QED
      BY <1>1, <1>3, <2>1, RequestStep DEF Advance, ApiStep, Answer, Running
  <1> QED
    BY <1>2, <1>3

LEMMA CommitPendingInv ==
    ASSUME Inv, NEW s \in Scans, CommitPending(s)
    PROVE  Inv'
  <1> DEFINE row == [status |-> "pending", spoiled |-> FALSE,
                     product |-> form[s].product, batch |-> form[s].batch]
  <1>1. TypeOK /\ scan[s] = None /\ api[s] = "commit" /\ form[s] \in Uploads
    BY DEF Inv, CommitPending, Requests, Running
  <1>2. row \in Row /\ row # None /\ row.status = "pending"
    <2>1. form[s] \in [product : BOOLEAN, batch : OldBatches \union {None}]
      BY <1>1, ScanAssumption
    <2>2. form[s].product \in BOOLEAN /\ form[s].batch \in BatchIds \union {None}
      BY <2>1 DEF BatchIds
    <2>3. row \in Row
      BY <2>2 DEF Row, Status
    <2> QED
      BY <2>3, RowAssumption
  <1>3. scan' = [scan EXCEPT ![s] = row] /\ api' = [api EXCEPT ![s] = "accepted"]
    BY DEF CommitPending
  <1> HIDE DEF row
  <1>4. TypeOK'
    <2>1. scan' \in [Scans -> Row \union {None}]
      BY <1>1, <1>2, <1>3 DEF TypeOK
    <2>2. api' \in [Scans -> ApiStep]
      BY <1>1, <1>3 DEF TypeOK, ApiStep, Answer
    <2>3. form' \in [Scans -> Uploads \union {None}]
      BY <1>1 DEF CommitPending, TypeOK
    <2> QED
      BY <1>1, <2>1, <2>2, <2>3 DEF CommitPending, TypeOK
  <1>5. Requests'
    BY <1>1, <1>2, <1>3 DEF CommitPending, Inv, Requests, TypeOK, Running
  <1>6. Batched'
    BY <1>1, <1>3 DEF CommitPending, Inv, Batched, TypeOK
  <1>7. ASSUME NEW w \in Workers PROVE Knows(w)'
    <2>1. Knows(w) /\ (job[w].locks => scan[job[w].scan] # None)
      BY DEF Inv, Knows, KnowsRow
    <2>2. job[w].locks => job[w].scan \in Scans
      BY <1>1 DEF Inv, Knows, Keeps, Outside, TypeOK, Job, JobStep
    <2>3. job[w].locks => scan'[job[w].scan] = scan[job[w].scan]
      BY <1>1, <1>3, <2>1, <2>2 DEF TypeOK
    <2>4. \A t \in Scans : Answered(t) => Answered(t)' /\ scan'[t] = scan[t]
      BY <1>1, <1>3 DEF TypeOK, Answered, Answer
    <2> QED
      BY <1>1, <2>1, <2>3, <2>4, StillKnows DEF CommitPending
  <1>8. SpoiledBatchAlerted'
    BY <1>1, <1>2, <1>3 DEF CommitPending, Inv, SpoiledBatchAlerted, TypeOK
  <1> QED
    BY <1>4, <1>5, <1>6, <1>7, <1>8 DEF Inv, CommitPending, Exclusive

-----------------------------------------------------------------------------
\* A step of a worker that commits nothing.
LEMMA WorkerStep ==
    ASSUME Inv, NEW w \in Workers, NEW j \in Job, job' = [job EXCEPT ![w] = j],
           UNCHANGED <<access, api, form, scan, made, alerted>>,
           early \subseteq early', early' \subseteq Scans, queue' \subseteq Scans,
           Knows(w)', j.locks => job[w].locks \/ RowFree(j.scan, w),
           j.locks /\ job[w].locks => j.scan = job[w].scan
    PROVE  Inv'
  <1>1. TypeOK /\ job'[w] = j /\ \A v \in Workers \ {w} : job'[v] = job[v]
    BY DEF Inv, TypeOK
  <1>2. TypeOK'
    BY <1>1 DEF TypeOK
  <1>3. ASSUME NEW v \in Workers \ {w} PROVE Knows(v)'
    <2>1. Knows(v) /\ (job[v].locks => scan[job[v].scan] # None)
      BY DEF Inv, Knows, KnowsRow
    <2> QED
      BY <1>1, <2>1, StillKnows DEF Answered, Answer
  <1>4. Exclusive'
    BY <1>1 DEF Inv, Exclusive, RowFree
  <1>5. SpoiledBatchAlerted'
    BY DEF Inv, SpoiledBatchAlerted
  <1> QED
    BY <1>2, <1>3, <1>4, <1>5 DEF Inv, Requests, Batched

LEMMA Typed ==
    ASSUME Inv, NEW w \in Workers
    PROVE  job[w] \in Job /\ Knows(w)
  BY DEF Inv, TypeOK

LEMMA StartInv ==
    ASSUME Inv, NEW w \in Workers, NEW s \in Scans, Start(w, s), queue' \subseteq Scans
    PROVE  Inv'
  <1> DEFINE j == [Idle EXCEPT !.at = "mark", !.scan = s]
  <1>1. /\ j \in Job /\ j.at = "mark" /\ j.scan = s /\ j.batch = None
        /\ ~j.locks /\ ~j.makes /\ ~j.wrote /\ ~j.alerts
    BY IdleJob DEF Job, JobStep
  <1>2. job' = [job EXCEPT ![w] = j] /\ job'[w] = j
    BY DEF Start, Do, Inv, TypeOK
  <1> HIDE DEF j
  <1>3. early \subseteq early' /\ early' \subseteq Scans /\ (s \notin early' => Answered(s)')
    BY DEF Start, Inv, TypeOK, Answered, Answer
  <1>4. Knows(w)'
    BY <1>1, <1>2, <1>3 DEF Knows, Keeps, KnowsRow, NotEarly, Warns, Outside, Inside, Written
  <1> QED
    BY <1>1, <1>2, <1>3, <1>4, WorkerStep DEF Start, data

\* A job that begins anew, after an exception, a crash or its end.
LEMMA FreshInv ==
    ASSUME Inv, NEW w \in Workers, NEW at \in Outside, NEW s \in Scans \union {None},
           Do(w, [Idle EXCEPT !.at = at, !.scan = s]),
           at # "idle" => job[w].at # "idle" /\ s = job[w].scan,
           UNCHANGED <<world, queue, data>>
    PROVE  Inv'
  <1> DEFINE j == [Idle EXCEPT !.at = at, !.scan = s]
  <1>1. /\ j \in Job /\ j.at = at /\ j.scan = s /\ j.batch = None
        /\ ~j.locks /\ ~j.makes /\ ~j.wrote /\ ~j.alerts
    BY IdleJob DEF Job, JobStep, Outside
  <1>2. job' = [job EXCEPT ![w] = j] /\ job'[w] = j
    BY DEF Do, Inv, TypeOK
  <1> HIDE DEF j
  <1>3. job[w] \in Job /\ Knows(w)
    BY Typed
  <1>4. Knows(w)'
    <2>1. Keeps(w)' /\ KnowsRow(w)' /\ Warns(w)'
      BY <1>1, <1>2, <1>3 DEF Knows, Keeps, KnowsRow, Warns, Outside, Written
    <2>2. NotEarly(w)'
      <3>1. UNCHANGED <<api, scan, early>>
        BY DEF world, data
      <3>2. at \notin Inside /\ (at # "idle" /\ s \notin early => Answered(s))
        BY <1>3 DEF Knows, NotEarly, Outside, Inside
      <3> QED
        BY <1>1, <1>2, <3>1, <3>2 DEF NotEarly, Answered, Answer
    <2> QED
      BY <2>1, <2>2 DEF Knows
  <1> QED
    BY <1>1, <1>2, <1>4, WorkerStep DEF world, data, Inv, TypeOK

\* set_status, as the job goes on to a statement outside complete.
LEMMA StatusInv ==
    ASSUME Inv, NEW w \in Workers, NEW status \in {"processing", "failed"},
           SetStatus(w, status), job[w].at \in {"mark", "fail"},
           NEW j \in Job, Do(w, j), j.at \in Outside \ {"idle"}, j.scan = job[w].scan,
           ~j.locks, ~j.makes, ~j.wrote, ~j.alerts, j.batch = None,
           UNCHANGED <<world, queue, made, alerted>>
    PROVE  Inv'
  <1> DEFINE s == job[w].scan
  <1>1. TypeOK /\ Knows(w) /\ s \in Scans /\ job'[w] = j
        /\ \A v \in Workers \ {w} : job'[v] = job[v]
    BY DEF Inv, Knows, Keeps, TypeOK, Do
  <1> HIDE DEF s
  <1>2. UNCHANGED <<access, api, form, early>>
    BY DEF world
  <1>3. /\ scan' \in [Scans -> Row \union {None}]
        /\ \A t \in Scans :
              /\ scan'[t] # None <=> scan[t] # None
              /\ scan[t] # None => /\ scan'[t].batch = scan[t].batch
                                   /\ scan'[t].product = scan[t].product
                                   /\ scan'[t].spoiled = scan[t].spoiled
                                   /\ scan'[t].status = "completed" => scan[t].status = "completed"
    <2>1. CASE scan' = scan
      BY <1>1, <2>1 DEF TypeOK
    <2>2. CASE scan[s] # None /\ scan' = [scan EXCEPT ![s].status = status]
      <3>1. scan[s] \in Row
        BY <1>1, <2>2 DEF TypeOK
      <3> DEFINE row == [scan[s] EXCEPT !.status = status]
      <3>2. /\ row \in Row /\ row.status = status /\ row.batch = scan[s].batch
            /\ row.product = scan[s].product /\ row.spoiled = scan[s].spoiled
        BY <3>1 DEF Row, Status
      <3>3. row # None
        BY <3>2, RowAssumption
      <3>4. scan' = [scan EXCEPT ![s] = row]
        BY <2>2
      <3> HIDE DEF row
      <3> QED
        BY <1>1, <2>2, <3>2, <3>3, <3>4 DEF TypeOK
    <2> QED
      BY <2>1, <2>2 DEF SetStatus, Visible, s
  <1>4. TypeOK'
    BY <1>1, <1>2, <1>3 DEF TypeOK, Do
  <1>5. Requests' /\ Batched'
    BY <1>2, <1>3 DEF Inv, Requests, Batched
  <1>6. Knows(w)'
    <2>1. Keeps(w)' /\ KnowsRow(w)' /\ Warns(w)'
      BY <1>1 DEF s, Keeps, KnowsRow, Warns, Outside, Written
    <2>2. s \notin early => Answered(s)
      BY <1>1 DEF Knows, NotEarly, s
    <2>3. NotEarly(w)'
      BY <1>1, <1>2, <2>2 DEF s, NotEarly, Answered, Answer, Outside, Inside
    <2> QED
      BY <2>1, <2>3 DEF Knows
  <1>7. ASSUME NEW v \in Workers \ {w} PROVE Knows(v)'
    <2>1. Knows(v) /\ (job[v].locks => scan[job[v].scan] # None)
      BY DEF Inv, Knows, KnowsRow
    <2>2. job[v].locks => job[v].scan \in Scans
      BY <1>1, <2>1 DEF Knows, Keeps, Outside, TypeOK, Job, JobStep
    <2> QED
      BY <1>1, <1>2, <1>3, <2>1, <2>2, StillKnows DEF Answered, Answer
  <1>8. Exclusive'
    BY <1>1 DEF Inv, Exclusive
  <1>9. SpoiledBatchAlerted'
    BY <1>2, <1>3 DEF Inv, SpoiledBatchAlerted
  <1> QED
    BY <1>2, <1>4, <1>5, <1>6, <1>7, <1>8, <1>9 DEF Inv

LEMMA MarkProcessingInv ==
    ASSUME Inv, NEW w \in Workers, MarkProcessing(w)
    PROVE  Inv'
  <1> DEFINE j == [job[w] EXCEPT !.at = "classify"]
  <1>1. job[w] \in Job /\ Knows(w) /\ job[w].at = "mark"
    BY Typed DEF MarkProcessing
  <1>2. ~job[w].locks /\ ~job[w].makes /\ ~job[w].wrote /\ ~job[w].alerts /\ job[w].batch = None
    BY <1>1 DEF Knows, Keeps, KnowsRow, Outside
  <1>3. /\ j \in Job /\ j.at = "classify" /\ j.scan = job[w].scan /\ j.batch = None
        /\ ~j.locks /\ ~j.makes /\ ~j.wrote /\ ~j.alerts
    BY <1>1, <1>2 DEF Job, JobStep
  <1> QED
    BY <1>1, <1>3, StatusInv DEF MarkProcessing, Outside

LEMMA MarkFailedInv ==
    ASSUME Inv, NEW w \in Workers, MarkFailed(w)
    PROVE  Inv'
  <1> DEFINE j == [Idle EXCEPT !.at = "tell failed", !.scan = job[w].scan]
  <1>1. job[w] \in Job /\ job[w].at = "fail"
    BY Typed DEF MarkFailed
  <1>2. /\ j \in Job /\ j.at = "tell failed" /\ j.scan = job[w].scan /\ j.batch = None
        /\ ~j.locks /\ ~j.makes /\ ~j.wrote /\ ~j.alerts
    BY <1>1, IdleJob DEF Job, JobStep
  <1> QED
    BY <1>1, <1>2, StatusInv DEF MarkFailed, Outside

\* An exception anywhere in the task but in its except clause.
LEMMA FailingInv ==
    ASSUME Inv, NEW w \in Workers, job[w].at # "idle", Do(w, Failing(w)),
           UNCHANGED <<world, queue, data>>
    PROVE  Inv'
  BY Typed, FreshInv DEF Failing, Outside, Job

LEMMA ClassifyInv ==
    ASSUME Inv, NEW w \in Workers, Classify(w)
    PROVE  Inv'
  <1>1. job[w] \in Job /\ Knows(w) /\ job[w].at = "classify"
    BY Typed DEF Classify
  <1>2. ASSUME NEW v \in Verdict, Do(w, [job[w] EXCEPT !.at = "lock", !.verdict = v])
        PROVE  Inv'
    <2> DEFINE j == [job[w] EXCEPT !.at = "lock", !.verdict = v]
    <2>1. /\ j \in Job /\ j.at = "lock" /\ j.scan = job[w].scan /\ j.batch = job[w].batch
          /\ j.locks = job[w].locks /\ j.makes = job[w].makes /\ j.wrote = job[w].wrote
          /\ j.alerts = job[w].alerts
      BY <1>1 DEF Job, JobStep
    <2>2. job' = [job EXCEPT ![w] = j] /\ job'[w] = j
      BY <1>2 DEF Do, Inv, TypeOK
    <2> HIDE DEF j
    <2>3. UNCHANGED <<access, api, form, early, queue, scan, made, alerted>>
      BY DEF Classify, world, data
    <2>4. ~j.locks /\ ~j.makes /\ ~j.wrote /\ ~j.alerts /\ j.batch = None
      BY <1>1, <2>1 DEF Knows, Keeps, KnowsRow, Outside
    <2>5. j.scan \in Scans /\ (j.scan \notin early => Answered(j.scan))
      BY <1>1, <2>1 DEF Knows, Keeps, NotEarly
    <2>6. Keeps(w)' /\ KnowsRow(w)' /\ Warns(w)'
      BY <2>1, <2>2, <2>4, <2>5 DEF Keeps, KnowsRow, Warns, Outside, Written
    <2>7. NotEarly(w)'
      BY <2>1, <2>2, <2>3, <2>4, <2>5 DEF NotEarly, Inside, Answered, Answer
    <2> QED
      BY <2>1, <2>2, <2>3, <2>4, <2>6, <2>7, WorkerStep DEF Inv, TypeOK, Knows
  <1> QED
    BY <1>1, <1>2, FailingInv DEF Classify

\* A statement of complete that leaves its transaction open.
LEMMA InsideInv ==
    ASSUME Inv, NEW w \in Workers, NEW j \in Job, Do(w, j), UNCHANGED <<world, queue, data>>,
           job[w].at # "idle", j.scan = job[w].scan, j.at \in Inside,
           j.locks => job[w].locks \/ RowFree(j.scan, w),
           j.wrote => j.at \in Written, j.at \in Written => (j.wrote <=> j.locks),
           j.locks => scan[j.scan] # None,
           ~j.locks => ~j.makes /\ j.batch = None,
           j.at = "batch" => j.locks /\ j.batch = None /\ ~j.makes /\ scan[j.scan].batch = None,
           j.makes => j.batch = j.scan /\ scan[j.scan].batch = None,
           j.locks /\ j.batch # None /\ ~j.makes => scan[j.scan].batch = j.batch,
           j.scan \notin early =>
               /\ scan[j.scan] # None => j.locks
               /\ j.locks => /\ scan[j.scan].product => j.product
                             /\ scan[j.scan].batch # None => j.batch = scan[j.scan].batch,
           j.at \in {"alert", "await"} => NeedsAlert(j),
           j.at = "commit" /\ NeedsAlert(j) => j.alerts \/ j.batch \in alerted,
           j.alerts => j.batch # None
    PROVE  Inv'
  <1>1. job' = [job EXCEPT ![w] = j] /\ job'[w] = j
    BY DEF Do, Inv, TypeOK
  <1>2. UNCHANGED <<access, api, form, early, queue, scan, made, alerted>>
    BY DEF world, data
  <1>3. j.scan \in Scans /\ (j.scan \notin early => Answered(j.scan))
    BY Typed DEF Knows, Keeps, NotEarly
  <1>4. Keeps(w)'
    BY <1>1, <1>3 DEF Keeps, Inside, Outside
  <1>5. KnowsRow(w)'
    BY <1>1, <1>2 DEF KnowsRow
  <1>6. NotEarly(w)'
    BY <1>1, <1>2, <1>3 DEF NotEarly, Answered, Answer
  <1>7. Warns(w)'
    BY <1>1, <1>2 DEF Warns
  <1> QED
    BY <1>1, <1>2, <1>4, <1>5, <1>6, <1>7, WorkerStep DEF Knows, Inv, TypeOK

LEMMA LockScanInv ==
    ASSUME Inv, NEW w \in Workers, LockScan(w)
    PROVE  Inv'
  <1> DEFINE s == job[w].scan
             product == scan[s].product \/ job[w].verdict.known
  <1>1. job[w] \in Job /\ Knows(w) /\ job[w].at = "lock" /\ access
    BY Typed DEF LockScan, Inv
  <1>2. /\ s \in Scans
        /\ ~job[w].locks /\ ~job[w].makes /\ ~job[w].wrote /\ ~job[w].alerts
        /\ job[w].batch = None
    BY <1>1 DEF Knows, Keeps, KnowsRow, Outside
  <1>3. CASE scan[s] = None
    <2> DEFINE j == [job[w] EXCEPT !.at = "write"]
    <2>1. /\ j \in Job /\ j.at = "write" /\ j.scan = s /\ j.batch = None
          /\ ~j.locks /\ ~j.makes /\ ~j.wrote /\ ~j.alerts
      BY <1>1, <1>2 DEF Job, JobStep
    <2>2. Do(w, j) /\ UNCHANGED <<world, queue, data>>
      BY <1>3 DEF LockScan, Visible
    <2> HIDE DEF j
    <2> QED
      BY <1>1, <1>3, <2>1, <2>2, InsideInv DEF Inside, Written
  <1>4. CASE scan[s] # None /\ scan[s].batch # None
    <2> DEFINE j == [job[w] EXCEPT !.at = "write", !.locks = TRUE,
                                   !.product = scan[s].product, !.batch = scan[s].batch]
    <2>1. scan[s] \in Row
      BY <1>2, <1>4 DEF Inv, TypeOK
    <2>2. /\ j \in Job /\ j.at = "write" /\ j.scan = s /\ j.batch = scan[s].batch
          /\ j.locks /\ ~j.makes /\ ~j.wrote /\ ~j.alerts
          /\ j.product = scan[s].product
      BY <1>1, <1>2, <2>1 DEF Job, JobStep, Row
    <2>3. Do(w, j) /\ UNCHANGED <<world, queue, data>> /\ RowFree(s, w)
      BY <1>1, <1>4 DEF LockScan, Visible
    <2> HIDE DEF j
    <2> QED
      BY <1>1, <1>4, <2>2, <2>3, InsideInv DEF Inside, Written
  <1>5. CASE scan[s] # None /\ scan[s].batch = None
    <2> DEFINE j == [job[w] EXCEPT !.at = IF product THEN "batch" ELSE "write",
                                   !.locks = TRUE, !.product = product]
    <2>1. scan[s] \in Row
      BY <1>2, <1>5 DEF Inv, TypeOK
    <2>2. product \in BOOLEAN
      BY <1>1, <2>1 DEF Job, Row, Verdict
    <2>3. Do(w, j) /\ UNCHANGED <<world, queue, data>> /\ RowFree(s, w)
      BY <1>1, <1>5 DEF LockScan, Visible
    <2>4. product \/ ~scan[s].product
      OBVIOUS
    <2> HIDE DEF product
    <2>5. /\ j \in Job /\ j.at \in {"batch", "write"} /\ j.scan = s /\ j.batch = None
          /\ j.locks /\ ~j.makes /\ ~j.wrote /\ ~j.alerts
          /\ j.product = product
      BY <1>1, <1>2, <2>2 DEF Job, JobStep
    <2> HIDE DEF j
    <2>6. scan[s].product => j.product
      BY <2>4, <2>5
    <2> QED
      BY <1>1, <1>5, <2>3, <2>5, <2>6, InsideInv DEF Inside, Written
  <1> QED
    BY <1>3, <1>4, <1>5

LEMMA InsertBatchInv ==
    ASSUME Inv, NEW w \in Workers, InsertBatch(w)
    PROVE  Inv'
  <1> DEFINE s == job[w].scan
             j == [job[w] EXCEPT !.at = "write", !.batch = s, !.makes = TRUE]
  <1>1. job[w] \in Job /\ Knows(w) /\ job[w].at = "batch" /\ access
    BY Typed DEF InsertBatch, Inv
  <1>2. s \in Scans /\ job[w].locks /\ scan[s] # None /\ scan[s].batch = None /\ ~job[w].wrote
    BY <1>1 DEF Knows, Keeps, KnowsRow, Written
  <1>3. /\ j \in Job /\ j.at = "write" /\ j.scan = s /\ j.batch = s /\ j.locks /\ j.makes
        /\ ~j.wrote /\ j.product = job[w].product
    BY <1>1, <1>2 DEF Job, JobStep, BatchIds
  <1>4. Do(w, j) /\ UNCHANGED <<world, queue, data>>
    BY <1>1, <1>2 DEF InsertBatch, Visible
  <1>5. s \notin early => (scan[s].product => job[w].product)
    BY <1>1, <1>2 DEF Knows, NotEarly
  <1> HIDE DEF j
  <1> QED
    BY <1>1, <1>2, <1>3, <1>4, <1>5, ScanAssumption, InsideInv DEF Inside, Written

LEMMA WriteScanInv ==
    ASSUME Inv, NEW w \in Workers, WriteScan(w)
    PROVE  Inv'
  <1> DEFINE s == job[w].scan
             seen == Visible(s)
             at == IF NeedsAlert(job[w]) THEN "alert" ELSE "commit"
             j == [job[w] EXCEPT !.at = at, !.locks = @ \/ seen, !.wrote = seen]
  <1>1. job[w] \in Job /\ Knows(w) /\ job[w].at = "write" /\ access
    BY Typed DEF WriteScan, Inv
  <1>2. seen \in BOOLEAN /\ (seen <=> scan[s] # None) /\ (seen => RowFree(s, w))
    BY <1>1 DEF WriteScan, Visible, Inv
  <1>3. Do(w, j) /\ UNCHANGED <<world, queue, data>>
    BY <1>1 DEF WriteScan
  <1>4. job[w].locks => seen
    BY <1>1, <1>2 DEF Knows, KnowsRow
  <1>5. at \in {"alert", "commit"} /\ (at = "alert" <=> NeedsAlert(job[w]))
    OBVIOUS
  <1> HIDE DEF seen, at
  <1>6. /\ j \in Job /\ j.at = at /\ j.scan = s /\ j.batch = job[w].batch
        /\ j.locks = seen /\ j.wrote = seen /\ j.makes = job[w].makes
        /\ j.product = job[w].product /\ j.verdict = job[w].verdict /\ j.alerts = job[w].alerts
    BY <1>1, <1>2, <1>4, <1>5 DEF Job, JobStep
  <1>7. NeedsAlert(j) <=> NeedsAlert(job[w])
    BY <1>6 DEF NeedsAlert
  <1> HIDE DEF j
  <1>8. /\ ~j.locks => ~j.makes /\ j.batch = None
        /\ j.makes => j.batch = s /\ scan[s].batch = None
        /\ j.locks /\ j.batch # None /\ ~j.makes => scan[s].batch = j.batch
        /\ j.alerts => j.batch # None
    BY <1>1, <1>4, <1>6 DEF Knows, KnowsRow, Warns
  <1>9. s \notin early => (j.locks => /\ scan[s].product => j.product
                                      /\ scan[s].batch # None => j.batch = scan[s].batch)
    BY <1>1, <1>2, <1>6 DEF Knows, NotEarly, Inside
  <1> QED
    BY <1>1, <1>2, <1>3, <1>5, <1>6, <1>7, <1>8, <1>9, InsideInv DEF Inside, Written

\* The insertion of the alert, or the end of the wait for it.
LEMMA AlertStep ==
    ASSUME Inv, NEW w \in Workers, job[w].at \in {"alert", "await"},
           NEW at \in {"await", "commit"}, NEW alerts \in BOOLEAN,
           Do(w, [job[w] EXCEPT !.at = at, !.alerts = alerts]),
           at = "commit" => alerts \/ job[w].batch \in alerted,
           UNCHANGED <<world, queue, data>>
    PROVE  Inv'
  <1> DEFINE s == job[w].scan
             j == [job[w] EXCEPT !.at = at, !.alerts = alerts]
  <1>1. job[w] \in Job /\ Knows(w)
    BY Typed
  <1>2. /\ j \in Job /\ j.at = at /\ j.scan = s /\ j.batch = job[w].batch
        /\ j.locks = job[w].locks /\ j.makes = job[w].makes /\ j.wrote = job[w].wrote
        /\ j.product = job[w].product /\ j.verdict = job[w].verdict /\ j.alerts = alerts
    BY <1>1 DEF Job, JobStep
  <1>3. NeedsAlert(job[w]) /\ (NeedsAlert(j) <=> NeedsAlert(job[w])) /\ j.batch # None
    BY <1>1, <1>2 DEF Knows, Warns, NeedsAlert
  <1>4. Do(w, j)
    OBVIOUS
  <1> HIDE DEF j
  <1>5. (j.wrote <=> j.locks) /\ job[w].at \in Inside
    BY <1>1, <1>2 DEF Knows, Keeps, Written, Inside
  <1>6. /\ j.locks => scan[s] # None
        /\ ~j.locks => ~j.makes /\ j.batch = None
        /\ j.makes => j.batch = s /\ scan[s].batch = None
        /\ j.locks /\ j.batch # None /\ ~j.makes => scan[s].batch = j.batch
    BY <1>1, <1>2 DEF Knows, KnowsRow
  <1>7. s \notin early =>
           /\ scan[s] # None => j.locks
           /\ j.locks => /\ scan[s].product => j.product
                         /\ scan[s].batch # None => j.batch = scan[s].batch
    BY <1>1, <1>2, <1>5 DEF Knows, NotEarly, Inside
  <1> QED
    BY <1>2, <1>3, <1>4, <1>5, <1>6, <1>7, InsideInv DEF Inside, Written

LEMMA AlertInv ==
    ASSUME Inv, NEW w \in Workers, InsertAlert(w) \/ AwaitAlert(w)
    PROVE  Inv'
  <1>1. job[w] \in Job /\ access /\ job[w].at \in {"alert", "await"}
    BY Typed DEF InsertAlert, AwaitAlert, Inv
  <1>2. UNCHANGED <<world, queue, data>>
    BY DEF InsertAlert, AwaitAlert
  <1>3. CASE Do(w, Failing(w))
    BY <1>1, <1>2, <1>3, FailingInv
  <1>4. CASE Do(w, [job[w] EXCEPT !.at = "commit", !.alerts = TRUE])
    BY <1>1, <1>2, <1>4, AlertStep
  <1>5. CASE /\ job[w].batch \in alerted
             /\ Do(w, [job[w] EXCEPT !.at = "commit"])
    <2>1. Do(w, [job[w] EXCEPT !.at = "commit", !.alerts = job[w].alerts])
      BY <1>1, <1>5 DEF Job, Do
    <2>2. job[w].alerts \in BOOLEAN
      BY <1>1 DEF Job
    <2> QED
      BY <1>1, <1>2, <1>5, <2>1, <2>2, AlertStep
  <1>6. CASE Do(w, [job[w] EXCEPT !.at = "await"])
    <2>1. Do(w, [job[w] EXCEPT !.at = "await", !.alerts = job[w].alerts])
      BY <1>1, <1>6 DEF Job, Do
    <2>2. job[w].alerts \in BOOLEAN
      BY <1>1 DEF Job
    <2> QED
      BY <1>1, <1>2, <2>1, <2>2, AlertStep
  <1> QED
    BY <1>1, <1>3, <1>4, <1>5, <1>6 DEF InsertAlert, AwaitAlert

LEMMA CommitVerdictInv ==
    ASSUME Inv, NEW w \in Workers, CommitVerdict(w)
    PROVE  Inv'
  <1> DEFINE j == job[w]
             s == j.scan
             after == [Idle EXCEPT !.at = "tell completed", !.scan = s]
             row == Completed(scan[s], j)
  <1>1. j \in Job /\ Knows(w) /\ j.at = "commit" /\ TypeOK
    BY Typed DEF CommitVerdict, Inv
  <1>2. /\ s \in Scans /\ (j.wrote <=> j.locks)
        /\ j.locks => scan[s] # None
        /\ ~j.locks => ~j.makes /\ j.batch = None
        /\ j.makes => j.batch = s /\ scan[s].batch = None
        /\ j.locks /\ j.batch # None /\ ~j.makes => scan[s].batch = j.batch
    BY <1>1 DEF Knows, Keeps, KnowsRow, Written
  <1>3. /\ NeedsAlert(j) => j.alerts \/ j.batch \in alerted
        /\ j.alerts => j.batch # None
    BY <1>1 DEF Knows, Warns
  <1>4. s \notin early /\ j.locks => /\ scan[s].product => j.product
                                     /\ scan[s].batch # None => j.batch = scan[s].batch
    BY <1>1 DEF Knows, NotEarly
  <1>5. /\ after \in Job /\ after.at = "tell completed" /\ after.scan = s /\ after.batch = None
        /\ ~after.locks /\ ~after.makes /\ ~after.wrote /\ ~after.alerts
    BY <1>1, IdleJob DEF Job, JobStep
  <1>6. /\ scan' = IF j.wrote THEN [scan EXCEPT ![s] = row] ELSE scan
        /\ made' = IF j.makes THEN [made EXCEPT ![s] = @ + 1] ELSE made
        /\ alerted' = IF j.alerts THEN alerted \union {j.batch} ELSE alerted
        /\ job' = [job EXCEPT ![w] = after]
        /\ UNCHANGED <<access, api, form, early, queue>>
    BY DEF CommitVerdict, Do, world
  <1>7. j.wrote => /\ scan[s] \in Row /\ row \in Row /\ row # None
                   /\ row.batch = IF j.batch = None THEN scan[s].batch ELSE j.batch
                   /\ row.product = (scan[s].product \/ j.product)
                   /\ row.spoiled = j.verdict.spoiled
    <2> SUFFICES ASSUME j.wrote
                 PROVE  /\ scan[s] \in Row /\ row \in Row /\ row # None
                        /\ row.batch = IF j.batch = None THEN scan[s].batch ELSE j.batch
                        /\ row.product = (scan[s].product \/ j.product)
                        /\ row.spoiled = j.verdict.spoiled
      OBVIOUS
    <2>1. scan[s] \in Row
      BY <1>1, <1>2 DEF TypeOK
    <2>2. /\ j.verdict.spoiled \in BOOLEAN /\ j.product \in BOOLEAN
          /\ j.batch \in BatchIds \union {None}
      BY <1>1 DEF Job, Verdict
    <2>3. scan[s].product \in BOOLEAN /\ scan[s].batch \in BatchIds \union {None}
      BY <2>1 DEF Row
    <2>4. row \in Row
      BY <2>2, <2>3 DEF Row, Completed, Status
    <2> QED
      BY <2>1, <2>4, RowAssumption DEF Completed
  <1> HIDE DEF row, after
  <1>8. /\ \A t \in Scans : t # s => scan'[t] = scan[t]
        /\ j.wrote => scan'[s] = row
        /\ ~j.wrote => scan'[s] = scan[s]
        /\ scan' \in [Scans -> Row \union {None}]
    BY <1>1, <1>2, <1>6, <1>7 DEF TypeOK
  <1>9. \A t \in Scans : scan'[t] # None <=> scan[t] # None
    BY <1>2, <1>7, <1>8
  <1>10. TypeOK'
    <2>1. made' \in [Scans -> Nat]
      BY <1>1, <1>2, <1>6 DEF TypeOK
    <2>2. alerted' \subseteq BatchIds
      BY <1>1, <1>3, <1>6 DEF TypeOK, Job
    <2> QED
      BY <1>1, <1>5, <1>6, <1>8, <2>1, <2>2 DEF TypeOK
  <1>11. Requests'
    BY <1>6, <1>9 DEF Inv, Requests
  <1>12. Batched'
    <2>1. \A t \in Scans : made[t] \in Nat /\ made[t] <= 1
                           /\ (made[t] # 0 => scan[t] # None /\ scan[t].batch = t)
      BY <1>1 DEF TypeOK, Inv, Batched
    <2>2. \A t \in Scans : t # s => made'[t] = made[t]
      BY <1>1, <1>6 DEF TypeOK
    <2>3. CASE j.makes
      <3>1. made[s] = 0 /\ made'[s] = 1
        BY <1>1, <1>2, <1>6, <2>1, <2>3, ScanAssumption DEF TypeOK
      <3>2. scan'[s] = row /\ row.batch = s /\ scan'[s] # None
        BY <1>2, <1>7, <1>8, <2>3, ScanAssumption
      <3> QED
        BY <1>8, <2>1, <2>2, <3>1, <3>2 DEF Batched
    <2>4. CASE ~j.makes
      <3>1. made' = made
        BY <1>6, <2>4
      <3>2. made[s] # 0 => scan'[s] # None /\ scan'[s].batch = s
        BY <1>2, <1>7, <1>8, <1>9, <2>1, <2>4
      <3> QED
        BY <1>8, <2>1, <3>1, <3>2 DEF Batched
    <2> QED
      BY <2>3, <2>4
  <1>13. Knows(w)'
    <2>1. job'[w] = after
      BY <1>1, <1>6 DEF TypeOK
    <2>2. s \notin early => Answered(s)
      BY <1>1 DEF Knows, NotEarly
    <2>3. Keeps(w)' /\ KnowsRow(w)' /\ Warns(w)'
      BY <1>2, <1>5, <2>1 DEF Keeps, KnowsRow, Warns, Outside, Written
    <2>4. NotEarly(w)'
      <3>1. job'[w].at \notin Inside /\ job'[w].scan = s /\ ~job'[w].locks
        BY <1>5, <2>1 DEF Inside
      <3> QED
        BY <1>6, <2>2, <3>1 DEF NotEarly, Answered, Answer
    <2> QED
      BY <2>3, <2>4 DEF Knows
  <1>14. ASSUME NEW v \in Workers \ {w} PROVE Knows(v)'
    <2>1. Knows(v) /\ (job[v].locks => scan[job[v].scan] # None) /\ job'[v] = job[v]
      BY <1>1, <1>6 DEF Inv, Knows, KnowsRow, TypeOK
    <2>2. job[v].locks => job[v].scan \in Scans
      BY <1>1, <2>1 DEF Knows, Keeps, Outside, TypeOK, Job, JobStep
    <2>3. job[v].locks => scan'[job[v].scan] = scan[job[v].scan]
      BY <1>2, <1>8, <2>2 DEF Inv, Exclusive
    <2>4. early \subseteq early' /\ alerted \subseteq alerted'
      BY <1>6
    <2>5. \A t \in Scans : Answered(t) => Answered(t)'
      BY <1>6 DEF Answered, Answer
    <2> QED
      BY <1>1, <1>9, <2>1, <2>3, <2>4, <2>5, StillKnows
  <1>15. Exclusive'
    BY <1>1, <1>5, <1>6 DEF Inv, Exclusive, TypeOK
  <1>16. SpoiledBatchAlerted'
    <2> SUFFICES ASSUME NEW t \in Scans \ early, scan'[t] # None, scan'[t].status = "completed",
                        scan'[t].spoiled, scan'[t].product, scan'[t].batch # None
                 PROVE  scan'[t].batch \in alerted'
      BY <1>6 DEF SpoiledBatchAlerted
    <2>1. CASE t = s /\ j.wrote
      <3>1. j.verdict.spoiled /\ j.product /\ j.batch # None /\ scan'[t].batch = j.batch
        BY <1>2, <1>4, <1>7, <1>8, <2>1
      <3> QED
        BY <1>3, <1>6, <3>1 DEF NeedsAlert
    <2>2. CASE ~(t = s /\ j.wrote)
      <3>1. scan'[t] = scan[t]
        BY <1>8, <2>2
      <3> QED
        BY <1>6, <3>1 DEF Inv, SpoiledBatchAlerted
    <2> QED
      BY <2>1, <2>2
  <1> QED
    BY <1>6, <1>10, <1>11, <1>12, <1>13, <1>14, <1>15, <1>16 DEF Inv

-----------------------------------------------------------------------------
LEMMA NextInv ==
    ASSUME Inv, [FaultyNext]_vars
    PROVE  Inv'
  <1>1. CASE UNCHANGED vars
    <2>1. UNCHANGED <<access, api, form, scan, queue, made, alerted, job, early>>
      BY <1>1 DEF vars
    <2>2. TypeOK' /\ Requests' /\ Batched' /\ Exclusive' /\ SpoiledBatchAlerted' /\ access'
      BY <2>1 DEF Inv, TypeOK, Requests, Batched, Exclusive, SpoiledBatchAlerted
    <2>3. \A w \in Workers : Knows(w)'
      BY <2>1 DEF Inv, Knows, Keeps, KnowsRow, NotEarly, Warns, NeedsAlert, Answered, Answer
    <2> QED
      BY <2>2, <2>3 DEF Inv
  <1>2. ASSUME NEW s \in Scans, NEW f \in Uploads, Post(s, f) PROVE Inv'
    BY <1>2, PostInv
  <1>3. ASSUME NEW s \in Scans, InsertPending(s) \/ AbortPost(s) PROVE Inv'
    <2>1. queue' \subseteq Scans
      BY <1>3 DEF InsertPending, AbortPost, Inv, TypeOK
    <2> QED
      BY <1>3, <2>1, RequestGoesOn DEF InsertPending, AbortPost, Refuse, Answer, data, Running
  <1>4. ASSUME NEW s \in Scans, SendTask(s) \/ RegisterTask(s) PROVE Inv'
    <2>1. queue' \subseteq Scans
      BY <1>4 DEF SendTask, RegisterTask, Inv, TypeOK
    <2> QED
      BY <1>4, <2>1, RequestGoesOn
         DEF SendTask, RegisterTask, Unavailable, Answer, data, Running
  <1>5. ASSUME NEW s \in Scans, CommitPending(s) PROVE Inv'
    BY <1>5, CommitPendingInv
  <1>6. ASSUME NEW w \in Workers, NEW s \in Scans, Take(w, s) \/ Redeliver(w, s) PROVE Inv'
    <2>1. Start(w, s) /\ queue' \subseteq Scans
      BY <1>6 DEF Take, Redeliver, Inv, TypeOK
    <2> QED
      BY <2>1, StartInv
  <1>7. ASSUME NEW w \in Workers, Work(w) PROVE Inv'
    <2>1. CASE Tell(w)
      <3>1. Do(w, [Idle EXCEPT !.at = "idle", !.scan = None])
        BY <2>1 DEF Tell, Do, Idle
      <3> QED
        BY <2>1, <3>1, FreshInv DEF Tell, Outside
    <2> QED
      BY <1>7, <2>1, MarkProcessingInv, ClassifyInv, LockScanInv, InsertBatchInv, WriteScanInv,
         AlertInv, CommitVerdictInv, MarkFailedInv DEF Work
  <1>8. ASSUME NEW w \in Workers, Crash(w) PROVE Inv'
    <2>1. Do(w, [Idle EXCEPT !.at = "idle", !.scan = None])
      BY <1>8 DEF Crash, Do, Idle
    <2> QED
      BY <1>8, <2>1, FreshInv DEF Crash, Outside
  <1>9. CASE Quiet
    BY <1>1, <1>9 DEF Quiet
  <1> QED
    BY <1>1, <1>2, <1>3, <1>4, <1>5, <1>6, <1>7, <1>8, <1>9
       DEF FaultyNext, Uploading, Serve, Working

LEMMA FaultyInv == FaultySpec => []Inv
  <1>1. Init => Inv
    BY InitInv
  <1>2. Inv /\ [FaultyNext]_vars => Inv'
    BY NextInv
  <1> QED
    BY <1>1, <1>2, PTL DEF FaultySpec

\* However often the task of a scan is delivered and wherever its workers die, the scan
\* makes at most one batch, which it links (packages/ml/worker/db.py, complete).
THEOREM ScanMakesOneBatch == FaultySpec => []OneBatchPerScan
  <1>1. Inv => OneBatchPerScan
    BY DEF Inv, Batched, OneBatchPerScan, TypeOK
  <1> QED
    BY <1>1, FaultyInv, PTL

\* A completed scan whose worker did not outrun the request has left the alert of its
\* spoiled batch, whoever else was about to insert it.
THEOREM SpoiledIsAlerted == FaultySpec => []SpoiledBatchAlerted
  <1>1. Inv => SpoiledBatchAlerted
    BY DEF Inv
  <1> QED
    BY <1>1, FaultyInv, PTL

\* An upload that was answered with an error makes no batch, though its task may have been
\* queued and run before (publish in core/jobs.py, complete in db.py).
THEOREM RefusalMakesNoInventory == FaultySpec => []RefusedMakesNoInventory
  <1>1. Inv => RefusedMakesNoInventory
    BY DEF Inv, Requests, Batched, RefusedMakesNoInventory
  <1> QED
    BY <1>1, FaultyInv, PTL
-----------------------------------------------------------------------------
(* When no worker outruns a request, dies or gets a task twice. *)

\* Every task is at one place: with the request, in the queue, with one worker, or done.
\* A worker has no task before its request ended.
Owned ==
    /\ early = {}
    /\ \A s \in Scans : api[s] \in {"register", "commit"} => s \in queue
    /\ \A s \in queue : api[s] \notin {"idle", "insert", "send"}
    /\ \A w \in Workers :
          /\ job[w].at = "idle" => job[w].scan = None
          /\ job[w].at # "idle" =>
                /\ Answered(job[w].scan) /\ job[w].scan \notin queue
                /\ \A v \in Workers \ {w} : job[v].scan # job[w].scan

CalmInv == Inv /\ Owned /\ PushIsTrue /\ NoScanForgotten

\* A request goes on or ends; only its commit makes a row.
LEMMA RequestOwned ==
    ASSUME CalmInv, NEW s \in Scans, NEW step \in ApiStep, ~Answered(s),
           api' = [api EXCEPT ![s] = step], UNCHANGED <<job, early>>,
           queue' = queue \/ (queue' = queue \union {s} /\ step = "register"),
           step \in {"register", "commit"} => s \in queue',
           s \in queue => step \notin {"idle", "insert", "send"}
    PROVE  Owned'
  <1>1. TypeOK /\ Owned
    BY DEF CalmInv, Inv
  <1>2. \A w \in Workers : job[w].at # "idle" => job[w].scan \in Scans /\ job[w].scan # s
    BY <1>1 DEF CalmInv, Inv, Knows, Keeps, Owned
  <1>3. api'[s] = step /\ \A t \in Scans \ {s} : api'[t] = api[t]
    BY <1>1 DEF TypeOK
  <1>4. queue \subseteq Scans
    BY <1>1 DEF TypeOK
  <1> QED
    BY <1>1, <1>2, <1>3, <1>4 DEF Owned, Answered, Answer

LEMMA RequestCalm ==
    ASSUME CalmInv, Inv', NEW s \in Scans, NEW step \in ApiStep \ {"accepted"}, ~Answered(s),
           api' = [api EXCEPT ![s] = step], UNCHANGED <<scan, job, early>>,
           queue' = queue \/ (queue' = queue \union {s} /\ step = "register"),
           step \in {"register", "commit"} => s \in queue',
           s \in queue => step \notin {"idle", "insert", "send"}
    PROVE  CalmInv'
  <1>1. Owned'
    BY RequestOwned
  <1>2. PushIsTrue'
    BY DEF CalmInv, PushIsTrue
  <1>3. \A t \in Scans : api'[t] = "accepted" => api[t] = "accepted"
    BY DEF CalmInv, Inv, TypeOK
  <1>4. NoScanForgotten'
    BY <1>3 DEF CalmInv, NoScanForgotten
  <1> QED
    BY <1>1, <1>2, <1>4 DEF CalmInv

LEMMA UploadCalm ==
    ASSUME CalmInv, Inv', NEW s \in Scans,
           \/ \E f \in Uploads : Post(s, f)
           \/ Serve(s)
           \/ AbortPost(s)
    PROVE  CalmInv'
  <1>1. TypeOK /\ Owned
    BY DEF CalmInv, Inv
  <1>2. ASSUME NEW answer \in Answer \ {"accepted"}, Fail(s, answer),
               api[s] \in Running \union {"idle"}, UNCHANGED <<scan, job, early, queue>>
        PROVE  CalmInv'
    BY <1>2, RequestCalm DEF Fail, Answered, Running, ApiStep, Answer
  <1>3. ASSUME NEW f \in Uploads, Post(s, f) PROVE CalmInv'
    <2>1. api[s] = "idle" /\ s \notin queue /\ UNCHANGED <<scan, job, early, queue>>
      BY <1>1, <1>3 DEF Post, Owned, data
    <2>2. CASE api' = [api EXCEPT ![s] = "insert"]
      BY <2>1, <2>2, RequestCalm DEF Answered, ApiStep, Answer
    <2> QED
      BY <1>2, <1>3, <2>1, <2>2 DEF Post, Refuse, Answer
  <1>4. CASE InsertPending(s)
    <2>1. api[s] = "insert" /\ s \notin queue /\ UNCHANGED <<scan, job, early, queue>>
      BY <1>1, <1>4 DEF InsertPending, Owned, data
    <2>2. CASE Advance(s, "send")
      BY <2>1, <2>2, RequestCalm DEF Answered, Advance, ApiStep, Answer
    <2> QED
      BY <1>2, <1>4, <2>1, <2>2 DEF InsertPending, Running, Refuse, Answer
  <1>5. CASE SendTask(s)
    <2>1. api[s] = "send" /\ s \notin queue /\ UNCHANGED <<scan, job, early>>
      BY <1>1, <1>5 DEF SendTask, Owned, data
    <2>2. CASE Advance(s, "register") /\ queue' = queue \union {s}
      BY <2>1, <2>2, RequestCalm DEF Answered, Advance, ApiStep, Answer
    <2> QED
      BY <1>2, <1>5, <2>1, <2>2 DEF SendTask, Running, Unavailable, Answer
  <1>6. CASE RegisterTask(s)
    <2>1. api[s] = "register" /\ s \in queue /\ UNCHANGED <<scan, job, early, queue>>
      BY <1>1, <1>6 DEF RegisterTask, Owned, data
    <2>2. CASE Advance(s, "commit")
      BY <2>1, <2>2, RequestCalm DEF Answered, Advance, ApiStep, Answer
    <2> QED
      BY <1>2, <1>6, <2>1, <2>2 DEF RegisterTask, Running, Unavailable, Answer
  <1>7. CASE AbortPost(s)
    BY <1>2, <1>7 DEF AbortPost, Refuse, Answer, Running, data
  <1>8. CASE CommitPending(s)
    <2>1. api[s] = "commit" /\ s \in queue /\ UNCHANGED <<job, early, queue>>
      BY <1>1, <1>8 DEF CommitPending, Owned
    <2>2. api' = [api EXCEPT ![s] = "accepted"]
      BY <1>8 DEF CommitPending
    <2>3. Owned'
      BY <2>1, <2>2, RequestOwned DEF Answered, ApiStep, Answer
    <2>4. \A t \in Scans \ {s} : api'[t] = api[t] /\ scan'[t] = scan[t]
      BY <1>1, <1>8 DEF CommitPending, TypeOK
    <2>5. \A w \in Workers : job[w].at # "idle" => job[w].scan \in Scans \ {s}
      BY <1>1, <2>1 DEF CalmInv, Inv, Knows, Keeps, Owned, Answered, Answer
    <2>6. PushIsTrue'
      BY <2>1, <2>4, <2>5 DEF CalmInv, PushIsTrue
    <2>7. NoScanForgotten'
      BY <2>1, <2>4 DEF CalmInv, NoScanForgotten
    <2> QED
      BY <2>3, <2>6, <2>7 DEF CalmInv
  <1> QED
    BY <1>3, <1>4, <1>5, <1>6, <1>7, <1>8 DEF Serve

\* A worker goes on with its task: it may change the row of its scan, and what it is about
\* to tell is what the row says.
LEMMA TaskGoesOn ==
    ASSUME CalmInv, Inv', NEW w \in Workers, \A v \in Workers \ {w} : job'[v] = job[v],
           job[w].at # "idle", job'[w].at # "idle", job'[w].scan = job[w].scan,
           UNCHANGED <<api, queue, early>>,
           \A t \in Scans \ {job[w].scan} : scan'[t] = scan[t],
           scan'[job[w].scan] # None =>
              /\ job'[w].at = "tell completed" => scan'[job[w].scan].status = "completed"
              /\ job'[w].at = "tell failed" => scan'[job[w].scan].status = "failed"
    PROVE  CalmInv'
  <1>1. Owned /\ PushIsTrue /\ NoScanForgotten
    BY DEF CalmInv
  <1>2. \A v \in Workers :
           job'[v].scan = job[v].scan /\ (job'[v].at = "idle" <=> job[v].at = "idle")
    OBVIOUS
  <1>3. Owned'
    <2>1. ASSUME NEW v \in Workers
          PROVE  /\ job'[v].at = "idle" => job'[v].scan = None
                 /\ job'[v].at # "idle" =>
                       /\ Answered(job[v].scan)' /\ job'[v].scan \notin queue'
                       /\ \A u \in Workers \ {v} : job'[u].scan # job'[v].scan
      <3>1. /\ job[v].at = "idle" => job[v].scan = None
            /\ job[v].at # "idle" =>
                  /\ Answered(job[v].scan) /\ job[v].scan \notin queue
                  /\ \A u \in Workers \ {v} : job[u].scan # job[v].scan
        BY <1>1 DEF Owned
      <3> QED
        BY <1>2, <3>1 DEF Answered, Answer
    <2> QED
      BY <1>1, <2>1 DEF Owned
  <1>4. PushIsTrue'
    <2> SUFFICES ASSUME NEW v \in Workers, job'[v].at # "idle", scan'[job'[v].scan] # None
                 PROVE  /\ job'[v].at = "tell completed" =>
                              scan'[job'[v].scan].status = "completed"
                        /\ job'[v].at = "tell failed" => scan'[job'[v].scan].status = "failed"
      BY DEF PushIsTrue
    <2>1. CASE v = w
      BY <2>1
    <2>2. CASE v # w
      <3>1. job'[v] = job[v] /\ job[v].scan \in Scans
        BY <2>2 DEF CalmInv, Inv, Knows, Keeps
      <3>2. job[v].scan # job[w].scan
        BY <1>1, <2>2 DEF Owned
      <3>3. scan'[job[v].scan] = scan[job[v].scan]
        BY <3>1, <3>2
      <3>4. job[v].at # "idle" /\ scan[job[v].scan] # None =>
               /\ job[v].at = "tell completed" => scan[job[v].scan].status = "completed"
               /\ job[v].at = "tell failed" => scan[job[v].scan].status = "failed"
        BY <1>1 DEF PushIsTrue
      <3> QED
        BY <3>1, <3>3, <3>4
    <2> QED
      BY <2>1, <2>2
  <1>5. NoScanForgotten'
    <2> SUFFICES ASSUME NEW t \in Scans, api'[t] = "accepted", t \notin queue',
                        \A v \in Workers : job'[v].scan # t
                 PROVE  scan'[t].status \in Terminal
      BY DEF NoScanForgotten
    <2> QED
      BY <1>1, <1>2 DEF NoScanForgotten
  <1> QED
    BY <1>3, <1>4, <1>5 DEF CalmInv

\* A statement that commits nothing.
LEMMA QuietlyGoesOn ==
    ASSUME CalmInv, Inv', NEW w \in Workers, \A v \in Workers \ {w} : job'[v] = job[v],
           UNCHANGED <<world, queue, data>>, job[w].at # "idle",
           job'[w].at \notin {"idle", "tell completed", "tell failed"},
           job'[w].scan = job[w].scan
    PROVE  CalmInv'
  BY TaskGoesOn DEF world, data

LEMMA WorkCalm ==
    ASSUME CalmInv, Inv', NEW w \in Workers, Work(w)
    PROVE  CalmInv'
  <1> DEFINE s == job[w].scan
  <1>1. TypeOK /\ Owned /\ PushIsTrue /\ NoScanForgotten /\ access /\ Requests
    BY DEF CalmInv, Inv
  <1>2. job[w] \in Job /\ Knows(w)
    BY Typed DEF CalmInv
  <1>3. job[w].at # "idle" /\ s \in Scans
    <2>1. job[w].at # "idle"
      BY DEF Work, MarkProcessing, Classify, LockScan, InsertBatch, WriteScan, InsertAlert,
             AwaitAlert, CommitVerdict, MarkFailed, Tell
    <2> QED
      BY <1>2, <2>1 DEF Knows, Keeps
  <1>4. Failing(w).at = "fail" /\ Failing(w).scan = s
    BY <1>2 DEF Failing, Idle
  <1>5. job \in [Workers -> Job]
    BY <1>1 DEF TypeOK
  <1>6. ASSUME NEW status, SetStatus(w, status)
        PROVE  /\ \A t \in Scans \ {s} : scan'[t] = scan[t]
               /\ scan'[s] # None => scan'[s].status = status
    <2>1. CASE scan[s] # None
      <3>1. scan[s] \in Row /\ scan' = [scan EXCEPT ![s].status = status]
        BY <1>1, <1>3, <1>6, <2>1 DEF SetStatus, Visible, TypeOK
      <3>2. scan'[s] = [scan[s] EXCEPT !.status = status]
        BY <1>1, <1>3, <3>1 DEF TypeOK
      <3> QED
        BY <1>1, <3>1, <3>2 DEF TypeOK, Row
    <2>2. CASE scan[s] = None
      BY <1>6, <2>2 DEF SetStatus, Visible
    <2> QED
      BY <2>1, <2>2
  <1>7. CASE MarkProcessing(w)
    <2>1. Do(w, [job[w] EXCEPT !.at = "classify"]) /\ UNCHANGED <<api, queue, early>>
      BY <1>7 DEF MarkProcessing, world
    <2>2. job'[w].at = "classify" /\ job'[w].scan = s
      BY <1>2, <1>5, <2>1 DEF Do, Job
    <2>3. \A t \in Scans \ {s} : scan'[t] = scan[t]
      BY <1>6, <1>7 DEF MarkProcessing
    <2> QED
      BY <1>3, <1>5, <2>1, <2>2, <2>3, TaskGoesOn DEF Do
  <1>8. ASSUME UNCHANGED <<world, queue, data>>, job'[w].scan = s,
               \A v \in Workers \ {w} : job'[v] = job[v],
               job'[w].at \notin {"idle", "tell completed", "tell failed"}
        PROVE  CalmInv'
    BY <1>3, <1>8, QuietlyGoesOn
  <1>9. CASE Classify(w)
    <2>1. ASSUME NEW v \in Verdict, Do(w, [job[w] EXCEPT !.at = "lock", !.verdict = v])
          PROVE  CalmInv'
      <3>1. job'[w].at = "lock" /\ job'[w].scan = s
        BY <1>2, <1>5, <2>1 DEF Do, Job
      <3> QED
        BY <1>5, <1>8, <1>9, <2>1, <3>1 DEF Do, Classify
    <2>2. CASE Do(w, Failing(w))
      BY <1>4, <1>5, <1>8, <1>9, <2>2 DEF Do, Classify
    <2> QED
      BY <1>9, <2>1, <2>2 DEF Classify
  <1>10. CASE LockScan(w)
    <2>1. \A v \in Workers \ {w} : job'[v] = job[v]
      BY <1>5, <1>10 DEF Do, LockScan
    <2>2. job'[w].at \in {"write", "batch"} /\ job'[w].scan = s
      <3> DEFINE product == scan[s].product \/ job[w].verdict.known
                 plain  == [job[w] EXCEPT !.at = "write"]
                 linked == [job[w] EXCEPT !.at = "write", !.locks = TRUE,
                                          !.product = scan[s].product, !.batch = scan[s].batch]
                 bare   == [job[w] EXCEPT !.at = IF product THEN "batch" ELSE "write",
                                          !.locks = TRUE, !.product = product]
      <3>1. \A j \in {plain, linked, bare} : j.at \in {"write", "batch"} /\ j.scan = s
        BY <1>2 DEF Job
      <3>2. job'[w] \in {plain, linked, bare}
        BY <1>5, <1>10 DEF Do, LockScan
      <3> QED
        BY <3>1, <3>2
    <2> QED
      BY <1>8, <1>10, <2>1, <2>2 DEF LockScan
  <1>11. CASE InsertBatch(w)
    <2>1. \A v \in Workers \ {w} : job'[v] = job[v]
      BY <1>5, <1>11 DEF Do, InsertBatch
    <2>2. job'[w].at = "write" /\ job'[w].scan = s
      BY <1>2, <1>5, <1>11 DEF Do, InsertBatch, Job
    <2> QED
      BY <1>8, <1>11, <2>1, <2>2 DEF InsertBatch
  <1>12. CASE WriteScan(w)
    <2>1. \A v \in Workers \ {w} : job'[v] = job[v]
      BY <1>5, <1>12 DEF Do, WriteScan
    <2>2. job'[w].at \in {"alert", "commit"} /\ job'[w].scan = s
      BY <1>2, <1>5, <1>12 DEF Do, WriteScan, Job
    <2> QED
      BY <1>8, <1>12, <2>1, <2>2 DEF WriteScan
  <1>13. CASE InsertAlert(w) \/ AwaitAlert(w)
    <2>1. \A v \in Workers \ {w} : job'[v] = job[v]
      BY <1>5, <1>13 DEF Do, InsertAlert, AwaitAlert
    <2>2. job'[w].at \in {"fail", "commit", "await"} /\ job'[w].scan = s
      <3> DEFINE next == [job[w] EXCEPT !.at = "commit"]
                 wait == [job[w] EXCEPT !.at = "await"]
                 make == [job[w] EXCEPT !.at = "commit", !.alerts = TRUE]
      <3>1. \A j \in {next, wait, make, Failing(w)} :
               j.at \in {"fail", "commit", "await"} /\ j.scan = s
        BY <1>2, <1>4 DEF Job
      <3>2. CASE InsertAlert(w)
        BY <1>5, <3>1, <3>2 DEF Do, InsertAlert
      <3>3. CASE AwaitAlert(w)
        BY <1>5, <3>1, <3>3 DEF Do, AwaitAlert
      <3> HIDE DEF next, wait, make
      <3> QED
        BY <1>13, <3>2, <3>3
    <2> QED
      BY <1>8, <1>13, <2>1, <2>2 DEF InsertAlert, AwaitAlert
  <1>14. CASE CommitVerdict(w)
    <2>1. /\ Do(w, [Idle EXCEPT !.at = "tell completed", !.scan = s])
          /\ UNCHANGED <<api, queue, early>>
      BY <1>14 DEF CommitVerdict, world
    <2>2. job'[w].at = "tell completed" /\ job'[w].scan = s
      BY <1>5, <2>1 DEF Do, Idle
    <2>3. scan[s] # None => job[w].wrote
      BY <1>1, <1>2, <1>14 DEF CommitVerdict, Knows, Keeps, NotEarly, Owned, Inside, Written
    <2>4. \A t \in Scans \ {s} : scan'[t] = scan[t]
      BY <1>1, <1>3, <1>14 DEF CommitVerdict, TypeOK
    <2>5. scan'[s] # None => scan'[s].status = "completed"
      BY <1>1, <1>2, <1>3, <1>14, <2>3 DEF CommitVerdict, Completed, TypeOK
    <2> QED
      BY <1>3, <1>5, <2>1, <2>2, <2>4, <2>5, TaskGoesOn DEF Do
  <1>15. CASE MarkFailed(w)
    <2>1. /\ Do(w, [Idle EXCEPT !.at = "tell failed", !.scan = s])
          /\ UNCHANGED <<api, queue, early>>
      BY <1>15 DEF MarkFailed, world
    <2>2. job'[w].at = "tell failed" /\ job'[w].scan = s
      BY <1>5, <2>1 DEF Do, Idle
    <2>3. /\ \A t \in Scans \ {s} : scan'[t] = scan[t]
          /\ scan'[s] # None => scan'[s].status = "failed"
      BY <1>6, <1>15 DEF MarkFailed
    <2> QED
      BY <1>3, <1>5, <2>1, <2>2, <2>3, TaskGoesOn DEF Do
  <1>16. CASE Tell(w)
    <2>1. job'[w] = Idle /\ \A v \in Workers \ {w} : job'[v] = job[v]
      BY <1>5, <1>16 DEF Do, Tell
    <2>2. UNCHANGED <<api, queue, early, scan>> /\ job[w].at \in {"tell completed", "tell failed"}
      BY <1>16 DEF Tell, world, data
    <2>3. Owned'
      <3>1. ASSUME NEW v \in Workers
            PROVE  /\ job'[v].at = "idle" => job'[v].scan = None
                   /\ job'[v].at # "idle" =>
                         /\ Answered(job[v].scan)' /\ job'[v].scan \notin queue'
                         /\ \A u \in Workers \ {v} : job'[u].scan # job'[v].scan
        <4>1. CASE v = w
          BY <2>1, <4>1, IdleJob
        <4>2. CASE v # w
          <5>1. job'[v] = job[v] /\ (job[v].at # "idle" => job[v].scan \in Scans)
            BY <2>1, <4>2 DEF CalmInv, Inv, Knows, Keeps
          <5>2. job[v].at # "idle" => job[v].scan # None
            BY <5>1, ScanAssumption
          <5>3. \A u \in Workers : job'[u].scan = job[u].scan \/ job'[u].scan = None
            BY <2>1, IdleJob
          <5>4. /\ job[v].at = "idle" => job[v].scan = None
                /\ job[v].at # "idle" =>
                      /\ Answered(job[v].scan) /\ job[v].scan \notin queue
                      /\ \A u \in Workers \ {v} : job[u].scan # job[v].scan
            BY <1>1 DEF Owned
          <5> QED
            BY <2>2, <5>1, <5>2, <5>3, <5>4 DEF Answered, Answer
        <4> QED
          BY <4>1, <4>2
      <3> QED
        BY <1>1, <2>2, <3>1 DEF Owned
    <2>4. PushIsTrue'
      BY <1>1, <2>1, <2>2, IdleJob DEF PushIsTrue
    <2>5. NoScanForgotten'
      <3> SUFFICES ASSUME NEW t \in Scans, api'[t] = "accepted", t \notin queue',
                          \A v \in Workers : job'[v].scan # t
                   PROVE  scan'[t].status \in Terminal
        BY DEF NoScanForgotten
      <3>1. scan[t] # None
        BY <1>1, <2>2 DEF Requests
      <3>2. CASE t = s
        BY <1>1, <1>3, <2>2, <3>1, <3>2 DEF PushIsTrue, Terminal
      <3>3. CASE t # s
        BY <1>1, <2>1, <2>2, <3>3 DEF NoScanForgotten
      <3> QED
        BY <3>2, <3>3
    <2> QED
      BY <2>3, <2>4, <2>5 DEF CalmInv
  <1> QED
    BY <1>7, <1>9, <1>10, <1>11, <1>12, <1>13, <1>14, <1>15, <1>16 DEF Work

LEMMA TakeCalm ==
    ASSUME CalmInv, Inv', NEW w \in Workers, NEW s \in Scans, Answered(s), Take(w, s)
    PROVE  CalmInv'
  <1> DEFINE j == [Idle EXCEPT !.at = "mark", !.scan = s]
  <1>1. TypeOK /\ Owned /\ PushIsTrue /\ NoScanForgotten
    BY DEF CalmInv, Inv
  <1>2. j.at = "mark" /\ j.scan = s /\ job' = [job EXCEPT ![w] = j]
    BY DEF Idle, Take, Start, Do
  <1> HIDE DEF j
  <1>3. job'[w] = j /\ \A v \in Workers \ {w} : job'[v] = job[v]
    BY <1>1, <1>2 DEF TypeOK
  <1>4. /\ UNCHANGED <<api, scan, early>> /\ queue' = queue \ {s}
        /\ s \in queue /\ job[w].at = "idle"
    BY DEF Take, Start, data
  <1>5. \A v \in Workers : job[v].scan # s
    BY <1>1, <1>4, ScanAssumption DEF Owned
  <1>6. Owned'
    <2>1. \A t \in Scans : api[t] \in {"register", "commit"} => t # s
      BY DEF Answered, Answer
    <2>2. \A t \in Scans : api'[t] \in {"register", "commit"} => t \in queue'
      BY <1>1, <1>4, <2>1 DEF Owned
    <2>3. ASSUME NEW v \in Workers
          PROVE  /\ job'[v].at = "idle" => job'[v].scan = None
                 /\ job'[v].at # "idle" =>
                       /\ Answered(job[v].scan)' /\ job'[v].scan \notin queue'
                       /\ \A u \in Workers \ {v} : job'[u].scan # job'[v].scan
      <3>1. CASE v = w
        <4>1. job'[v].at = "mark" /\ job'[v].scan = s /\ s \notin queue'
          BY <1>2, <1>3, <1>4, <3>1
        <4>2. \A u \in Workers \ {v} : job'[u].scan # s
          BY <1>3, <1>5, <3>1
        <4> QED
          BY <1>4, <4>1, <4>2 DEF Answered, Answer
      <3>2. CASE v # w
        <4>1. job'[v] = job[v] /\ job[v].scan # s
          BY <1>3, <1>5, <3>2
        <4>2. /\ job[v].at = "idle" => job[v].scan = None
              /\ job[v].at # "idle" =>
                    /\ Answered(job[v].scan) /\ job[v].scan \notin queue
                    /\ \A u \in Workers \ {v} : job[u].scan # job[v].scan
          BY <1>1 DEF Owned
        <4>3. \A u \in Workers : job'[u].scan \in {job[u].scan, s}
          BY <1>2, <1>3
        <4> QED
          BY <1>4, <4>1, <4>2, <4>3 DEF Answered, Answer
      <3> QED
        BY <3>1, <3>2
    <2> QED
      BY <1>1, <1>4, <2>2, <2>3 DEF Owned
  <1>7. PushIsTrue'
    BY <1>1, <1>2, <1>3, <1>4 DEF PushIsTrue
  <1>8. NoScanForgotten'
    <2>1. \A v \in Workers, t \in Scans : job[v].scan = t => job'[v].scan = t
      BY <1>1, <1>3, <1>4, ScanAssumption DEF Owned
    <2> QED
      BY <1>1, <1>2, <1>3, <1>4, <2>1 DEF NoScanForgotten
  <1> QED
    BY <1>6, <1>7, <1>8 DEF CalmInv

LEMMA CalmInvariant == CalmSpec => []CalmInv
  <1>1. Init => CalmInv
    BY InitInv, IdleJob DEF Init, CalmInv, Owned, PushIsTrue, NoScanForgotten
  <1>2. CalmInv /\ [CalmNext]_vars => CalmInv'
    <2> SUFFICES ASSUME CalmInv, [CalmNext]_vars PROVE CalmInv'
      OBVIOUS
    <2>1. [FaultyNext]_vars
      BY DEF CalmNext, FaultyNext, TakeSettled
    <2>2. Inv'
      BY <2>1, NextInv DEF CalmInv
    <2>3. CASE UNCHANGED vars
      BY <2>2, <2>3 DEF vars, CalmInv, Owned, PushIsTrue, NoScanForgotten, Answered, Answer
    <2>4. CASE Uploading
      BY <2>2, <2>4, UploadCalm DEF Uploading
    <2>5. ASSUME NEW s \in Scans, TakeSettled(s) PROVE CalmInv'
      BY <2>2, <2>5, TakeCalm DEF TakeSettled
    <2>6. CASE Working
      BY <2>2, <2>6, WorkCalm DEF Working
    <2>7. CASE Quiet
      BY <2>3, <2>7 DEF Quiet
    <2> QED
      BY <2>3, <2>4, <2>5, <2>6, <2>7 DEF CalmNext
  <1> QED
    BY <1>1, <1>2, PTL DEF CalmSpec

\* Whatever the devices are told of a scan, a refetch shows it: the push follows the commit
\* and nothing else writes the row in between (packages/ml/worker/tasks.py, classify_scan).
THEOREM PushesAreTrue == CalmSpec => []PushIsTrue
  <1>1. CalmInv => PushIsTrue
    BY DEF CalmInv
  <1> QED
    BY <1>1, CalmInvariant, PTL

\* A scan that the API accepted has a verdict, or its task is in the broker or with a
\* worker (apps/api/app/routers/scans.py, create_scan).
THEOREM AcceptedScansAreKept == CalmSpec => []NoScanForgotten
  <1>1. CalmInv => NoScanForgotten
    BY DEF CalmInv
  <1> QED
    BY <1>1, CalmInvariant, PTL
=============================================================================
