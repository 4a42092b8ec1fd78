---------------------------- MODULE ScanPipeline ----------------------------
(***************************************************************************)
(* A scan from POST /api/v1/scans to the worker's verdict.                 *)
(*                                                                         *)
(* The API handler stores the image, inserts a pending row, publishes a    *)
(* Celery task and notes the task id in Redis, all before its transaction  *)
(* commits.  A worker runs classify_scan as a sequence of transactions:    *)
(* mark the scan, classify it, complete it (batch, verdict, alert) or mark *)
(* it failed, and tell the devices.  The broker acknowledges a task when   *)
(* it starts, so a crash loses it, and may deliver again a task that a     *)
(* worker has only reserved.                                               *)
(***************************************************************************)
EXTENDS Integers, FiniteSets

CONSTANTS
    Scans,
    Workers,
    OldBatches,  \* batches that exist before the scans
    Uploads,     \* forms a vendor may post: [product : BOOLEAN, batch]
    None

\* A batch made for a scan is named after the scan.
BatchIds == Scans \union OldBatches

ASSUME ScanAssumption ==
    /\ Scans \intersect OldBatches = {}
    /\ None \notin Scans \union OldBatches
    /\ Uploads \subseteq [product : BOOLEAN, batch : OldBatches \union {None}]

VARIABLES
    access,   \* current_vendor_has_access() for the member
    api,      \* the next step of the request that uploads each scan
    form,     \* what a request that runs was posted
    scan,     \* committed row of each scan, or None
    queue,    \* scans whose task is in the broker
    made,     \* number of committed batches made for each scan
    alerted,  \* batches with a committed spoiled_detected alert
    job,      \* what each worker is doing
    early     \* history: scans whose task was taken before the request ended

vars == <<access, api, form, scan, queue, made, alerted, job, early>>

Status  == {"pending", "processing", "completed", "failed"}
Row     == [status : Status, spoiled : BOOLEAN, product : BOOLEAN, batch : BatchIds \union {None}]
Answer  == {"accepted", "refused", "unavailable"}
ApiStep == {"idle", "insert", "send", "register", "commit"} \union Answer
JobStep == {"idle", "mark", "classify", "lock", "batch", "write", "alert", "await",
            "commit", "fail", "tell completed", "tell failed"}

ASSUME RowAssumption == None \notin Row

\* What a classifier answers: whether the label is "spoiled" (not "fresh",
\* "medium" or none), and whether its identity label is confident and names a
\* product of the catalogue.
Verdict == [spoiled : BOOLEAN, known : BOOLEAN]

\* A worker's transaction: the scan row it locked, the batch and the product it
\* will link, and what it has written so far.
Job == [at : JobStep, scan : Scans \union {None}, verdict : Verdict, locks : BOOLEAN,
        product : BOOLEAN, batch : BatchIds \union {None},
        makes : BOOLEAN, wrote : BOOLEAN, alerts : BOOLEAN]

Idle == [at |-> "idle", scan |-> None, verdict |-> [spoiled |-> FALSE, known |-> FALSE],
         locks |-> FALSE, product |-> FALSE, batch |-> None,
         makes |-> FALSE, wrote |-> FALSE, alerts |-> FALSE]

TypeOK ==
    /\ access \in BOOLEAN
    /\ api \in [Scans -> ApiStep]
    /\ form \in [Scans -> Uploads \union {None}]
    /\ scan \in [Scans -> Row \union {None}]
    /\ queue \subseteq Scans
    /\ made \in [Scans -> Nat]
    /\ alerted \subseteq BatchIds
    /\ job \in [Workers -> Job]
    /\ early \subseteq Scans

Init ==
    /\ access = TRUE
    /\ api = [s \in Scans |-> "idle"]
    /\ form = [s \in Scans |-> None]
    /\ scan = [s \in Scans |-> None]
    /\ queue = {}
    /\ made = [s \in Scans |-> 0]
    /\ alerted = {}
    /\ job = [w \in Workers |-> Idle]
    /\ early = {}
-----------------------------------------------------------------------------
(* The API. *)

data == <<scan, made, alerted>>

Advance(s, step) == api' = [api EXCEPT ![s] = step] /\ UNCHANGED form

\* An exception ends the request and rolls its transaction back.
Fail(s, answer) == api' = [api EXCEPT ![s] = answer] /\ form' = [form EXCEPT ![s] = None]

Refuse(s) == Fail(s, "refused")

\* 503: the handler calls mark_failed and raises.  The exception rolls back the request's
\* transaction, and with it the row and its mark.
Unavailable(s) == Fail(s, "unavailable")

\* tenant_transaction checks access before the handler runs.
Post(s, f) ==
    /\ api[s] = "idle"
    /\ IF access
       THEN api' = [api EXCEPT ![s] = "insert"] /\ form' = [form EXCEPT ![s] = f]
       ELSE Refuse(s)
    /\ UNCHANGED <<access, queue, data, job, early>>

\* storage.put refuses what is no image and otherwise writes the file, which
\* nothing removes again; create_pending refuses an unknown reference.
InsertPending(s) ==
    /\ api[s] = "insert"
    /\ (access /\ Advance(s, "send")) \/ Refuse(s)
    /\ UNCHANGED <<access, queue, data, job, early>>

\* Mutant of SendTask: a broker that does not answer is not reported.
SendTaskSwallowing(s) ==
    /\ api[s] = "send"
    /\ Advance(s, "register")
    /\ \/ queue' = queue \union {s}
       \/ UNCHANGED queue
    /\ UNCHANGED <<access, data, job, early>>

\* publish, first half.
SendTask(s) ==
    /\ api[s] = "send"
    /\ \/ Advance(s, "register") /\ queue' = queue \union {s}
       \/ Unavailable(s) /\ UNCHANGED queue
    /\ UNCHANGED <<access, data, job, early>>

\* Mutant of RegisterTask: mark_failed is committed although the client is refused.
RegisterTaskKeepingRow(s) ==
    /\ api[s] = "register"
    /\ \/ Advance(s, "commit") /\ UNCHANGED scan
       \/ /\ Unavailable(s)
          /\ scan' = [scan EXCEPT ![s] = [status |-> "failed", spoiled |-> FALSE,
                                product |-> form[s].product, batch |-> form[s].batch]]
    /\ UNCHANGED <<access, queue, made, alerted, job, early>>

\* publish, second half: the task is queued even if Redis now fails.
RegisterTask(s) ==
    /\ api[s] = "register"
    /\ Advance(s, "commit") \/ Unavailable(s)
    /\ UNCHANGED <<access, queue, data, job, early>>

CommitPending(s) ==
    /\ api[s] = "commit"
    /\ api' = [api EXCEPT ![s] = "accepted"]
    /\ form' = [form EXCEPT ![s] = None]
    /\ scan' = [scan EXCEPT ![s] = [status |-> "pending", spoiled |-> FALSE,
                                    product |-> form[s].product, batch |-> form[s].batch]]
    /\ UNCHANGED <<access, queue, made, alerted, job, early>>

\* The process or a connection fails: the transaction is rolled back.
AbortPost(s) ==
    /\ api[s] \in {"insert", "send", "register", "commit"}
    /\ Refuse(s)
    /\ UNCHANGED <<access, queue, data, job, early>>
-----------------------------------------------------------------------------
(* The worker. *)

world == <<access, api, form, early>>

Answered(s) == api[s] \in Answer

\* Row-level security hides every row from a member without access.
Visible(s) == access /\ scan[s] # None

\* The row lock that "for update" and an update take until the commit.
RowFree(s, w) == \A v \in Workers \ {w} : job[v].scan = s => ~job[v].locks

Do(w, changes) == job' = [job EXCEPT ![w] = changes]

Start(w, s) ==
    /\ job[w].at = "idle"
    /\ s \in queue
    /\ early' = IF Answered(s) THEN early ELSE early \union {s}
    /\ Do(w, [Idle EXCEPT !.at = "mark", !.scan = s])
    /\ UNCHANGED <<access, api, form, data>>

\* The broker hands a task to an idle worker and forgets it.
Take(w, s) == Start(w, s) /\ queue' = queue \ {s}

\* A second delivery of a task that is reserved by some worker but not started.
Redeliver(w, s) == Start(w, s) /\ UNCHANGED queue

\* set_status: an update by id, whatever the status was; the row may be absent.
SetStatus(w, status) ==
    LET s == job[w].scan IN
    IF Visible(s)
    THEN RowFree(s, w) /\ scan' = [scan EXCEPT ![s].status = status]
    ELSE UNCHANGED scan

MarkProcessing(w) ==
    /\ job[w].at = "mark"
    /\ SetStatus(w, "processing")
    /\ Do(w, [job[w] EXCEPT !.at = "classify"])
    /\ UNCHANGED <<world, queue, made, alerted>>

\* An exception rolls the transaction of complete back, which frees its locks.
Failing(w) == [Idle EXCEPT !.at = "fail", !.scan = job[w].scan]

\* The classifier answers, or it or the reading of the image raises.
Classify(w) ==
    /\ job[w].at = "classify"
    /\ \/ \E v \in Verdict : Do(w, [job[w] EXCEPT !.at = "lock", !.verdict = v])
       \/ Do(w, Failing(w))
    /\ UNCHANGED <<world, queue, data>>

\* Mutant of LockScan: the select of the scan takes no lock.
LockScanUnlocked(w) ==
    LET s == job[w].scan
        product == scan[s].product \/ job[w].verdict.known
    IN
    /\ job[w].at = "lock"
    /\ Do(w, IF ~Visible(s) THEN [job[w] EXCEPT !.at = "write"]
             ELSE IF scan[s].batch # None
             THEN [job[w] EXCEPT !.at = "write", !.product = scan[s].product,
                                 !.batch = scan[s].batch]
             ELSE [job[w] EXCEPT !.at = IF product THEN "batch" ELSE "write",
                                 !.product = product])
    /\ UNCHANGED <<world, queue, data>>

\* complete, first statements: lock the scan; reuse the batch it has; otherwise
\* the product is the vendor's or the one the classifier recognised.
LockScan(w) ==
    LET s == job[w].scan
        product == scan[s].product \/ job[w].verdict.known
    IN
    /\ job[w].at = "lock"
    /\ \/ /\ ~Visible(s)
          /\ Do(w, [job[w] EXCEPT !.at = "write"])
       \/ /\ Visible(s) /\ RowFree(s, w)
          /\ Do(w, IF scan[s].batch # None
                   THEN [job[w] EXCEPT !.at = "write", !.locks = TRUE,
                                       !.product = scan[s].product, !.batch = scan[s].batch]
                   ELSE [job[w] EXCEPT !.at = IF product THEN "batch" ELSE "write",
                                       !.locks = TRUE, !.product = product])
    /\ UNCHANGED <<world, queue, data>>

\* insert into batches ... select ... from scans: no row without access.
InsertBatch(w) ==
    /\ job[w].at = "batch"
    /\ Do(w, IF Visible(job[w].scan)
             THEN [job[w] EXCEPT !.at = "write", !.batch = job[w].scan, !.makes = TRUE]
             ELSE [job[w] EXCEPT !.at = "write"])
    /\ UNCHANGED <<world, queue, data>>

\* Mutant of NeedsAlert: only a batch made just now is warned about.
NeedsAlertWhenMade(j) == j.verdict.spoiled /\ j.product /\ j.makes

NeedsAlert(j) == j.verdict.spoiled /\ j.product /\ j.batch # None

\* update scans set status = 'completed', ...: the row may have appeared since.
WriteScan(w) ==
    LET seen == Visible(job[w].scan) IN
    /\ job[w].at = "write"
    /\ seen => RowFree(job[w].scan, w)
    /\ Do(w, [job[w] EXCEPT !.at = IF NeedsAlert(job[w]) THEN "alert" ELSE "commit",
                            !.locks = @ \/ seen, !.wrote = seen])
    /\ UNCHANGED <<world, queue, data>>

\* Another transaction has inserted the alert of this batch but not committed.
AlertPending(w) == \E v \in Workers \ {w} : job[v].alerts /\ job[v].batch = job[w].batch

\* insert into alerts ... where not exists: waits for the unique index while
\* another transaction's row for the same batch is uncommitted.
InsertAlert(w) ==
    /\ job[w].at = "alert"
    /\ Do(w, IF ~access THEN Failing(w)
             ELSE IF job[w].batch \in alerted THEN [job[w] EXCEPT !.at = "commit"]
             ELSE IF AlertPending(w) THEN [job[w] EXCEPT !.at = "await"]
             ELSE [job[w] EXCEPT !.at = "commit", !.alerts = TRUE])
    /\ UNCHANGED <<world, queue, data>>

\* The other transaction ends: a unique violation if it committed.
AwaitAlert(w) ==
    /\ job[w].at = "await"
    /\ ~AlertPending(w)
    /\ Do(w, IF job[w].batch \in alerted
             THEN Failing(w)
             ELSE [job[w] EXCEPT !.at = "commit", !.alerts = TRUE])
    /\ UNCHANGED <<world, queue, data>>

\* The update's new row: coalesce keeps a product or batch it already has.
Completed(row, j) ==
    [status |-> "completed", spoiled |-> j.verdict.spoiled,
     product |-> row.product \/ j.product,
     batch |-> IF j.batch = None THEN row.batch ELSE j.batch]

\* The end of complete.
CommitVerdict(w) ==
    LET j == job[w]
        s == j.scan
    IN
    /\ j.at = "commit"
    /\ scan' = IF j.wrote THEN [scan EXCEPT ![s] = Completed(@, j)] ELSE scan
    /\ made' = IF j.makes THEN [made EXCEPT ![s] = @ + 1] ELSE made
    /\ alerted' = IF j.alerts THEN alerted \union {j.batch} ELSE alerted
    /\ Do(w, [Idle EXCEPT !.at = "tell completed", !.scan = s])
    /\ UNCHANGED <<world, queue>>

\* Mutant of MarkFailed: the error is only raised.
MarkFailedNot(w) ==
    /\ job[w].at = "fail"
    /\ Do(w, [Idle EXCEPT !.at = "tell failed", !.scan = job[w].scan])
    /\ UNCHANGED <<world, queue, data>>

\* The except clause of classify_scan: a transaction of its own.
MarkFailed(w) ==
    /\ job[w].at = "fail"
    /\ SetStatus(w, "failed")
    /\ Do(w, [Idle EXCEPT !.at = "tell failed", !.scan = job[w].scan])
    /\ UNCHANGED <<world, queue, made, alerted>>

\* notify_scan, after the transactions; a failing push is only logged.
Tell(w) ==
    /\ job[w].at \in {"tell completed", "tell failed"}
    /\ Do(w, Idle)
    /\ UNCHANGED <<world, queue, data>>
-----------------------------------------------------------------------------
(* What surrounds them. *)

\* A worker process dies: PostgreSQL rolls back, the broker has forgotten.
Crash(w) ==
    /\ job[w].at # "idle"
    /\ Do(w, Idle)
    /\ UNCHANGED <<world, queue, data>>

\* A platform admin changes the status of the tenant or of the member.
SetAccess ==
    /\ access' = ~access
    /\ UNCHANGED <<api, form, queue, data, job, early>>

Serve(s) ==
    \/ InsertPending(s)
    \/ SendTask(s)
    \/ RegisterTask(s)
    \/ CommitPending(s)

Work(w) ==
    \/ MarkProcessing(w)
    \/ Classify(w)
    \/ LockScan(w)
    \/ InsertBatch(w)
    \/ WriteScan(w)
    \/ InsertAlert(w)
    \/ AwaitAlert(w)
    \/ CommitVerdict(w)
    \/ MarkFailed(w)
    \/ Tell(w)

\* Every upload was answered and every task done.
Quiet ==
    /\ queue = {} /\ \A s \in Scans : Answered(s)
    /\ job = [w \in Workers |-> Idle]
    /\ UNCHANGED vars

Uploading ==
    \E s \in Scans :
        \/ \E f \in Uploads : Post(s, f)
        \/ Serve(s)
        \/ AbortPost(s)

\* The request whose task a worker takes has ended.
TakeSettled(s) == Answered(s) /\ \E w \in Workers : Take(w, s)

Working == \E w \in Workers : Work(w)

\* No worker outruns a request, no worker dies, no task is delivered twice.
CalmNext == Uploading \/ (\E s \in Scans : TakeSettled(s)) \/ Working \/ Quiet

FaultyNext ==
    \/ Uploading
    \/ \E w \in Workers, s \in Scans : Take(w, s) \/ Redeliver(w, s)
    \/ Working
    \/ \E w \in Workers : Crash(w)
    \/ Quiet

\* A broker that is waiting hands out a task and a worker goes on with its own.
Fairness ==
    /\ \A s \in Scans : WF_vars(TakeSettled(s))
    /\ \A w \in Workers : WF_vars(Work(w))

CalmSpec == Init /\ [][CalmNext]_vars /\ Fairness

\* A worker may be faster than the request, but nothing fails otherwise.
RacySpec == Init /\ [][CalmNext \/ \E w \in Workers, s \in Scans : Take(w, s)]_vars /\ Fairness

FaultySpec == Init /\ [][FaultyNext]_vars

\* Faults, and access that is revoked and restored between two statements.
RevocableSpec == Init /\ [][FaultyNext \/ SetAccess]_vars
-----------------------------------------------------------------------------
Terminal == {"completed", "failed"}

\* FR-S-004, NFR-R-002: an upload that the API accepted reaches a verdict, be it
\* that the classification failed.
AcceptedScanSettles ==
    \A s \in Scans :
        api[s] = "accepted" ~> scan[s] # None /\ scan[s].status \in Terminal

\* Until then somebody still has the task: no accepted scan is forgotten.
NoScanForgotten ==
    \A s \in Scans :
        api[s] = "accepted" =>
            \/ scan[s].status \in Terminal
            \/ s \in queue
            \/ \E w \in Workers : job[w].scan = s

\* What the devices are told of a scan that exists is what a refetch shows:
\* the push comes after the commit.
PushIsTrue ==
    \A w \in Workers :
        LET s == job[w].scan IN
        job[w].at # "idle" /\ scan[s] # None =>
            /\ job[w].at = "tell completed" => scan[s].status = "completed"
            /\ job[w].at = "tell failed" => scan[s].status = "failed"

\* A scan makes at most one batch, and the batch it made is the one it links,
\* for any number of deliveries of its task and any crash.
OneBatchPerScan ==
    \A s \in Scans : made[s] <= 1 /\ (made[s] = 1 => scan[s].batch = s)

\* A completed scan that found spoiled produce in a batch left its alert, unless
\* the worker was faster than the request and looked for the scan too early.
SpoiledBatchAlerted ==
    \A s \in Scans \ early :
        scan[s] # None /\ scan[s].status = "completed" /\ scan[s].spoiled
            /\ scan[s].product /\ scan[s].batch # None
        => scan[s].batch \in alerted

\* An upload that was answered with an error makes no inventory, even when its task was
\* already queued and runs.
RefusedMakesNoInventory ==
    \A s \in Scans : api[s] \in {"refused", "unavailable"} => made[s] = 0

\* test_enqueue_failure_marks_scan_failed: a scan whose task cannot be queued is left
\* behind as failed.
EnqueueFailureMarksScanFailed ==
    \A s \in Scans :
        api[s] = "unavailable" => scan[s] # None /\ scan[s].status = "failed"
=============================================================================
