------------------------------ MODULE ScanFlow ------------------------------
(***************************************************************************)
(* The scan stack of the phone: a photo is taken, confirmed and uploaded,  *)
(* and the status screen polls until it has seen a verdict.  Polls overlap *)
(* and their answers arrive in any order; an upload whose answer is lost   *)
(* may have been accepted.  The server side is ScanPipeline, seen through  *)
(* GET /scans/{id}: a status that may never become a verdict, and that a   *)
(* second delivery of the task takes back or to the other verdict.         *)
(***************************************************************************)
EXTENDS Integers, Sequences, SequencesExt

CONSTANTS
    MaxUploads,   \* bound: uploads of one behaviour
    MaxPolls,     \* bound: polls on their way at once
    None

VARIABLES
    scan,         \* server: status of the scan that each upload made
    flow,         \* step of the stack, the scan it shows and the status it saw
    timer,        \* the polling interval is set
    polls,        \* GET /scans/{id} on their way: [scan, seen]
    reached,      \* history: the verdicts that each scan has had
    told          \* history: uploads whose verdict was on the screen

server == <<scan, reached>>
vars   == <<server, flow, timer, polls, told>>

Uploads  == 1..MaxUploads
Final    == {"completed", "failed"}
Accepted == {"pending", "processing"} \union Final

Step(at) == [at |-> at, scan |-> None, shown |-> None, error |-> FALSE]

Init ==
    /\ scan = [n \in Uploads |-> "unsent"]
    /\ flow = Step("closed")
    /\ timer = FALSE
    /\ polls = <<>>
    /\ reached = [n \in Uploads |-> {}]
    /\ told = {}

\* The steps before the upload, with the camera permission, a photo that fails and one
\* that is retaken.
CameraMoves ==
    {<<"closed", "permission">>, <<"permission", "capture">>, <<"capture", "taking">>,
     <<"taking", "capture">>, <<"taking", "preview">>, <<"preview", "capture">>,
     <<"preview", "confirm">>, <<"confirm", "capture">>}

UseCamera ==
    /\ \E m \in CameraMoves : flow.at = m[1] /\ flow' = Step(m[2])
    /\ UNCHANGED <<server, timer, polls, told>>

Unsent == {n \in Uploads : scan[n] = "unsent"}

\* handleConfirm and submitScan.
Submit ==
    /\ flow.at = "confirm"
    /\ \E n \in Unsent :
          /\ \A m \in Unsent : n <= m
          /\ scan' = [scan EXCEPT ![n] = "travelling"]
          /\ flow' = [Step("submitting") EXCEPT !.scan = n]
    /\ UNCHANGED <<reached, timer, polls, told>>

\* POST /scans, whether or not the phone still waits.
ServeUpload(n) ==
    /\ scan[n] = "travelling"
    /\ \E status \in {"pending", "refused"} : scan' = [scan EXCEPT ![n] = status]
    /\ UNCHANGED <<reached, flow, timer, polls, told>>

\* set_status and complete of a worker, which do not ask what the status was.
Progresses(n) ==
    /\ scan[n] \in Accepted
    /\ \E status \in {"processing"} \union Final :
          /\ scan' = [scan EXCEPT ![n] = status]
          /\ reached' = [reached EXCEPT ![n] = @ \union ({status} \intersect Final)]
    /\ UNCHANGED <<flow, timer, polls, told>>

\* The effect of the status screen polls at once and sets the interval.
UploadAccepted ==
    /\ flow.at = "submitting"
    /\ scan[flow.scan] \in Accepted
    /\ flow' = [Step("status") EXCEPT !.scan = flow.scan]
    /\ timer' = TRUE
    /\ polls' = Append(polls, [scan |-> flow.scan, seen |-> None])
    /\ UNCHANGED <<server, told>>

\* A refusal, a missing file or no answer: an alert with Retry and Cancel over the confirm step.
UploadFails ==
    /\ flow.at = "submitting"
    /\ flow' = Step("failure alert")
    /\ UNCHANGED <<server, timer, polls, told>>

AnswerAlert ==
    /\ flow.at = "failure alert"
    /\ flow' \in {Step("confirm"), Step("closed")}
    /\ UNCHANGED <<server, timer, polls, told>>

Poll ==
    /\ timer /\ Len(polls) < MaxPolls
    /\ polls' = Append(polls, [scan |-> flow.scan, seen |-> None])
    /\ UNCHANGED <<server, flow, timer, told>>

ServePoll(i) ==
    /\ polls[i].seen = None
    /\ polls' = [polls EXCEPT ![i].seen = scan[polls[i].scan]]
    /\ UNCHANGED <<server, flow, timer, told>>

\* The last answer to arrive is shown.  The interval ends with the first verdict, but not
\* the polls already on their way.
PollArrives(i) ==
    /\ polls[i].seen # None
    /\ flow' = [flow EXCEPT !.shown = polls[i].seen, !.error = FALSE]
    /\ timer' = (timer /\ polls[i].seen \notin Final)
    /\ told' = IF polls[i].seen \in Final THEN told \union {flow.scan} ELSE told
    /\ polls' = RemoveAt(polls, i)
    /\ UNCHANGED server

\* Mutant of PollFails: an error ends the polling.
PollFailsForGood(i) ==
    /\ flow' = [flow EXCEPT !.error = TRUE]
    /\ timer' = FALSE
    /\ polls' = RemoveAt(polls, i)
    /\ UNCHANGED <<server, told>>

\* An error is shown only while no status is, and polling goes on.
PollFails(i) ==
    /\ flow' = [flow EXCEPT !.error = TRUE]
    /\ polls' = RemoveAt(polls, i)
    /\ UNCHANGED <<server, timer, told>>

\* Mutant of Unmount: the answers on their way are still taken to the screen.
UnmountKeepingPolls == timer' = FALSE /\ UNCHANGED polls

\* The cleanup of the effect; an answer that arrives later finds no screen.
Unmount == timer' = FALSE /\ polls' = <<>>

\* Retake & Resubmit
Retake ==
    /\ flow.at = "status" /\ flow.shown = "failed"
    /\ flow' = Step("capture")
    /\ Unmount
    /\ UNCHANGED <<server, told>>

\* Back to Dashboard of the result and of the error view, and the system's back button.
Leave ==
    /\ flow.at \notin {"closed", "failure alert"}
    /\ flow' = Step("closed")
    /\ Unmount
    /\ UNCHANGED <<server, told>>

Next ==
    \/ UseCamera \/ Submit \/ UploadAccepted \/ UploadFails \/ AnswerAlert
    \/ Poll \/ Retake \/ Leave
    \/ \E n \in Uploads : ServeUpload(n) \/ Progresses(n)
    \/ \E i \in DOMAIN polls : ServePoll(i) \/ PollArrives(i) \/ PollFails(i)

\* The interval fires, the server answers, and of polls repeated for ever some get
\* through.  Nothing is assumed of the worker.
Fairness ==
    /\ WF_vars(Poll)
    /\ SF_vars(\E i \in DOMAIN polls : ServePoll(i))
    /\ SF_vars(\E i \in DOMAIN polls : PollArrives(i))
    /\ \A n \in Uploads : WF_vars(ServeUpload(n))

Spec == Init /\ [][Next]_vars /\ Fairness
-----------------------------------------------------------------------------
\* NFR-U-002: a verdict on the screen was the server's verdict on the scan that was uploaded
\* last when it was read, also after a retake while polls of the former scan are on their
\* way.  A second delivery of the task may have changed it since.
ShownVerdictIsTrue ==
    flow.at = "status" /\ flow.shown \in Final => flow.shown \in reached[flow.scan]

\* FR-V-006: the status screen of a scan that has a verdict for good shows one some time,
\* however many polls fail and in whatever order they are answered, if it stays open.  An
\* older answer that arrives after it may take its place, since nothing polls any more.
VerdictShown ==
    <>[](flow.at = "status" => scan[flow.scan] \in Final) =>
        (flow.at = "status" ~> (flow.at # "status" \/ flow.scan \in told))
=============================================================================
