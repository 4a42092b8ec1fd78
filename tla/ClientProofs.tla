---------------------------- MODULE ClientProofs ----------------------------
(***************************************************************************)
(* What late, lost and overtaking answers cannot make the clients show:    *)
(* the scan stack, the alert feed and the console's tabs.                  *)
(***************************************************************************)
EXTENDS MCClients, Sequences, TLAPS

\* RemoveAt of the community modules, which Flow and Pages instantiate.
Removed(s, i) == SubSeq(s, 1, i - 1) \o SubSeq(s, i + 1, Len(s))

LEMMA Removing ==
    ASSUME NEW S, NEW s \in Seq(S), NEW i \in DOMAIN s
    PROVE  /\ Removed(s, i) \in Seq(S)
           /\ \A j \in DOMAIN Removed(s, i) : \E k \in DOMAIN s : Removed(s, i)[j] = s[k]
  <1> DEFINE front == SubSeq(s, 1, i - 1)
             back  == SubSeq(s, i + 1, Len(s))
  <1>1. i \in 1..Len(s) /\ Len(s) \in Nat
    OBVIOUS
  <1>2. /\ front \in Seq(S) /\ Len(front) = i - 1
        /\ \A j \in 1..(i - 1) : front[j] = s[j]
    BY <1>1
  <1>3. /\ back \in Seq(S) /\ Len(back) = Len(s) - i
        /\ \A j \in 1..(Len(s) - i) : back[j] = s[i + j]
    BY <1>1
  <1> HIDE DEF front, back
  <1>4. front \o back \in Seq(S) /\ Len(front \o back) = Len(s) - 1
    BY <1>1, <1>2, <1>3
  <1>5. ASSUME NEW j \in 1..(Len(s) - 1)
        PROVE  \E k \in DOMAIN s : (front \o back)[j] = s[k]
    <2>1. CASE j < i
      <3>1. (front \o back)[j] = front[j] /\ front[j] = s[j]
        BY <2>1, <1>1, <1>2, <1>3
      <3> QED
        BY <3>1, <1>1
    <2>2. CASE j >= i
      <3>1. (front \o back)[j] = back[j - (i - 1)]
        BY <2>2, <1>1, <1>2, <1>3
      <3>2. j - (i - 1) \in 1..(Len(s) - i) /\ i + (j - (i - 1)) = j + 1 /\ j + 1 \in DOMAIN s
        BY <2>2, <1>1
      <3>3. back[j - (i - 1)] = s[j + 1]
        BY <3>2, <1>3
      <3> QED
        BY <3>1, <3>2, <3>3
    <2>3. j \in Int /\ i \in Int
      BY <1>1
    <2>4. j < i \/ j >= i
      BY <2>3
    <2> QED
      BY <2>1, <2>2, <2>4
  <1> QED
    <2>1. Removed(s, i) = front \o back /\ DOMAIN (front \o back) = 1..(Len(s) - 1)
      <3>1. Removed(s, i) = front \o back
        BY DEF Removed, front, back
      <3>2. DOMAIN (front \o back) = 1..Len(front \o back)
        BY <1>4
      <3> QED
        BY <3>1, <3>2, <1>4
    <2> QED
      BY <2>1, <1>4, <1>5

LEMMA Appending ==
    ASSUME NEW S, NEW s \in Seq(S), NEW e \in S
    PROVE  /\ Append(s, e) \in Seq(S)
           /\ \A j \in DOMAIN Append(s, e) :
                 Append(s, e)[j] = e \/ \E k \in DOMAIN s : Append(s, e)[j] = s[k]
  OBVIOUS
-----------------------------------------------------------------------------
(* The scan stack.                                                           *)

Statuses == {"unsent", "travelling", "refused", "pending", "processing"} \union Flow!Final

PollOf == [scan : Flow!Uploads, seen : Statuses \union {None}]

\* What was seen of a scan, if a verdict, is one that it has had.
TrueOf(n, seen) == seen \in Flow!Final => seen \in reached[n]

\* Polls are on their way only for the status screen and about the scan it shows, and
\* verdicts on the server, in an answer and on the screen are among those the scan has had.
FlowInv ==
    /\ scan \in [Flow!Uploads -> Statuses]
    /\ reached \in [Flow!Uploads -> SUBSET Flow!Final]
    /\ \A n \in Flow!Uploads : TrueOf(n, scan[n])
    /\ polls \in Seq(PollOf)
    /\ DOMAIN flow = {"at", "scan", "shown", "error"}
    /\ flow.at \in {"submitting", "status"} => flow.scan \in Flow!Uploads
    /\ flow.at # "status" => polls = <<>> /\ timer = FALSE
    /\ \A i \in DOMAIN polls : polls[i].scan = flow.scan /\ TrueOf(polls[i].scan, polls[i].seen)
    /\ flow.at = "status" => TrueOf(flow.scan, flow.shown)

LEMMA StepFields ==
    ASSUME NEW at
    PROVE  /\ DOMAIN Flow!Step(at) = {"at", "scan", "shown", "error"}
           /\ Flow!Step(at).at = at /\ Flow!Step(at).shown = None
           /\ \A n : LET f == [Flow!Step(at) EXCEPT !.scan = n]
                     IN  /\ DOMAIN f = {"at", "scan", "shown", "error"}
                         /\ f.at = at /\ f.scan = n /\ f.shown = None
  BY DEF Flow!Step

LEMMA NoVerdict == None \notin Flow!Final
  BY StatusAssumption

\* The screen shows no poll: before the upload, after it failed and when it is left.
LEMMA NoPolls ==
    ASSUME FlowInv, NEW at, flow' = Flow!Step(at), polls' = <<>>, timer' = FALSE,
           UNCHANGED <<scan, reached>>, at \notin {"submitting", "status"}
    PROVE  FlowInv'
  BY StepFields DEF FlowInv, TrueOf

LEMMA FlowInitInv == Flow!Init => FlowInv
  <1> SUFFICES ASSUME Flow!Init PROVE FlowInv
    OBVIOUS
  <1> QED
    BY StepFields DEF Flow!Init, FlowInv, Statuses, TrueOf, Flow!Final

LEMMA UseCameraFlow == ASSUME FlowInv, Flow!UseCamera PROVE FlowInv'
  <1>1. PICK m \in Flow!CameraMoves : flow.at = m[1] /\ flow' = Flow!Step(m[2])
    BY DEF Flow!UseCamera
  <1>2. flow.at \notin {"submitting", "status"} /\ m[2] \notin {"submitting", "status"}
    BY <1>1 DEF Flow!CameraMoves
  <1> QED
    BY <1>1, <1>2, NoPolls DEF FlowInv, Flow!UseCamera, Flow!server

LEMMA SubmitFlow == ASSUME FlowInv, Flow!Submit PROVE FlowInv'
  <1>1. PICK n \in Flow!Uploads :
           /\ scan' = [scan EXCEPT ![n] = "travelling"]
           /\ flow' = [Flow!Step("submitting") EXCEPT !.scan = n]
    BY DEF Flow!Submit, Flow!Unsent
  <1>2. /\ DOMAIN flow' = DOMAIN flow /\ flow'.at = "submitting" /\ flow'.scan = n
        /\ polls = <<>> /\ timer = FALSE /\ UNCHANGED <<reached, timer, polls>>
    BY <1>1, StepFields DEF Flow!Submit, FlowInv
  <1> QED
    BY <1>1, <1>2 DEF FlowInv, Statuses, TrueOf, Flow!Final

\* The server changes its verdict on a scan, but not those the scan has had.
LEMMA ServerFlow ==
    ASSUME FlowInv, NEW n \in Flow!Uploads, Flow!ServeUpload(n) \/ Flow!Progresses(n)
    PROVE  FlowInv'
  <1>1. PICK v \in Statuses :
           /\ scan' = [scan EXCEPT ![n] = v]
           /\ reached' = [reached EXCEPT ![n] = @ \union ({v} \intersect Flow!Final)]
    <2>1. CASE Flow!ServeUpload(n)
      <3>1. PICK v \in {"pending", "refused"} : scan' = [scan EXCEPT ![n] = v]
        BY <2>1 DEF Flow!ServeUpload
      <3>2. reached' = [reached EXCEPT ![n] = @ \union ({v} \intersect Flow!Final)]
        BY <2>1, <3>1 DEF Flow!ServeUpload, Flow!Final, FlowInv
      <3> QED
        BY <3>1, <3>2 DEF Statuses
    <2>2. CASE Flow!Progresses(n)
      BY <2>2 DEF Flow!Progresses, Statuses
    <2> QED
      BY <2>1, <2>2
  <1>2. /\ scan' \in [Flow!Uploads -> Statuses]
        /\ reached' \in [Flow!Uploads -> SUBSET Flow!Final]
    BY <1>1 DEF FlowInv
  <1>3. /\ \A m \in Flow!Uploads : reached[m] \subseteq reached'[m]
        /\ \A m \in Flow!Uploads : scan'[m] \in Flow!Final => scan'[m] \in reached'[m]
    BY <1>1 DEF FlowInv, TrueOf
  <1>4. UNCHANGED <<flow, timer, polls>>
    BY DEF Flow!ServeUpload, Flow!Progresses
  <1>5. \A i \in DOMAIN polls : polls[i].scan \in Flow!Uploads
    BY DEF FlowInv, PollOf
  <1> QED
    BY <1>2, <1>3, <1>4, <1>5 DEF FlowInv, TrueOf

\* One more poll of the scan on the screen.
LEMMA PollSent ==
    ASSUME FlowInv, flow.scan \in Flow!Uploads,
           polls' = Append(polls, [scan |-> flow.scan, seen |-> None])
    PROVE  /\ polls' \in Seq(PollOf)
           /\ \A i \in DOMAIN polls' :
                 polls'[i].scan = flow.scan /\ TrueOf(polls'[i].scan, polls'[i].seen)
  <1> DEFINE e == [scan |-> flow.scan, seen |-> None]
  <1>1. e \in PollOf /\ e.scan = flow.scan /\ e.seen = None
    BY DEF PollOf
  <1> HIDE DEF e
  <1>2. /\ polls' \in Seq(PollOf)
        /\ \A j \in DOMAIN polls' : polls'[j] = e \/ \E k \in DOMAIN polls : polls'[j] = polls[k]
    BY <1>1, Appending DEF FlowInv, e
  <1> QED
    BY <1>1, <1>2, NoVerdict DEF FlowInv, TrueOf

LEMMA UploadAcceptedFlow == ASSUME FlowInv, Flow!UploadAccepted PROVE FlowInv'
  <1>1. flow.scan \in Flow!Uploads /\ UNCHANGED <<scan, reached>>
    BY DEF Flow!UploadAccepted, Flow!server, FlowInv
  <1>2. /\ DOMAIN flow' = DOMAIN flow
        /\ flow'.at = "status" /\ flow'.scan = flow.scan /\ flow'.shown = None
    BY StepFields DEF Flow!UploadAccepted, FlowInv
  <1>3. /\ polls' \in Seq(PollOf)
        /\ \A i \in DOMAIN polls' :
              polls'[i].scan = flow.scan /\ TrueOf(polls'[i].scan, polls'[i].seen)
    BY <1>1, PollSent DEF Flow!UploadAccepted
  <1> QED
    BY <1>1, <1>2, <1>3, NoVerdict DEF FlowInv, TrueOf

LEMMA PollFlow == ASSUME FlowInv, Flow!Poll PROVE FlowInv'
  <1>1. /\ flow.at = "status" /\ flow.scan \in Flow!Uploads
        /\ UNCHANGED <<scan, reached, flow, timer>>
    BY DEF Flow!Poll, Flow!server, FlowInv
  <1>2. /\ polls' \in Seq(PollOf)
        /\ \A i \in DOMAIN polls' :
              polls'[i].scan = flow.scan /\ TrueOf(polls'[i].scan, polls'[i].seen)
    BY <1>1, PollSent DEF Flow!Poll
  <1> QED
    BY <1>1, <1>2 DEF FlowInv, TrueOf

LEMMA ServePollFlow ==
    ASSUME FlowInv, NEW i \in DOMAIN polls, Flow!ServePoll(i)
    PROVE  FlowInv'
  <1>1. polls[i] \in PollOf /\ scan[polls[i].scan] \in Statuses
    <2>1. polls[i] \in PollOf
      BY DEF FlowInv
    <2> QED
      BY <2>1 DEF FlowInv, PollOf
  <1>2. PICK p \in PollOf : p.scan = polls[i].scan /\ p.seen = scan[polls[i].scan]
                            /\ polls' = [polls EXCEPT ![i] = p]
    <2> DEFINE p == [polls[i] EXCEPT !.seen = scan[polls[i].scan]]
    <2>1. p \in PollOf /\ p.scan = polls[i].scan /\ p.seen = scan[polls[i].scan]
      BY <1>1 DEF PollOf
    <2> QED
      BY <2>1 DEF Flow!ServePoll
  <1>3. polls' \in Seq(PollOf) /\ DOMAIN polls' = DOMAIN polls
        /\ \A j \in DOMAIN polls : polls'[j] = IF j = i THEN p ELSE polls[j]
    BY <1>2 DEF FlowInv
  <1>4. UNCHANGED <<scan, reached, flow, timer>> /\ flow.at = "status"
    BY DEF Flow!ServePoll, Flow!server, FlowInv
  <1>5. TrueOf(p.scan, p.seen) /\ p.scan = flow.scan
    BY <1>2 DEF FlowInv, PollOf, TrueOf
  <1> QED
    BY <1>3, <1>4, <1>5 DEF FlowInv, TrueOf

\* A poll ends, with an answer or without.
LEMMA PollEndsFlow ==
    ASSUME FlowInv, NEW i \in DOMAIN polls, Flow!PollArrives(i) \/ Flow!PollFails(i)
    PROVE  FlowInv'
  <1>1. polls' = Removed(polls, i) /\ UNCHANGED <<scan, reached>>
    BY DEF Flow!PollArrives, Flow!PollFails, Flow!RemoveAt, Flow!server, Removed
  <1>2. /\ polls' \in Seq(PollOf)
        /\ \A j \in DOMAIN polls' : \E k \in DOMAIN polls : polls'[j] = polls[k]
    BY <1>1, Removing DEF FlowInv
  <1>3. flow.at = "status"
    BY DEF FlowInv
  <1>4. /\ DOMAIN flow' = DOMAIN flow
        /\ flow'.at = flow.at /\ flow'.scan = flow.scan
        /\ flow'.shown = flow.shown \/ flow'.shown = polls[i].seen
    BY DEF FlowInv, Flow!PollArrives, Flow!PollFails
  <1> QED
    BY <1>1, <1>2, <1>3, <1>4 DEF FlowInv, TrueOf

LEMMA LeaveFlow ==
    ASSUME FlowInv,
           Flow!UploadFails \/ Flow!AnswerAlert \/ Flow!Retake \/ Flow!Leave
    PROVE  FlowInv'
  <1>1. polls' = <<>> /\ timer' = FALSE /\ UNCHANGED <<scan, reached>>
    BY DEF Flow!UploadFails, Flow!AnswerAlert, Flow!Retake, Flow!Leave, Flow!Unmount,
           Flow!server, FlowInv
  <1>2. \E at \in {"failure alert", "confirm", "closed", "capture"} : flow' = Flow!Step(at)
    BY DEF Flow!UploadFails, Flow!AnswerAlert, Flow!Retake, Flow!Leave
  <1> QED
    BY <1>1, <1>2, NoPolls

LEMMA FlowNextInv ==
    ASSUME FlowInv, Flow!Next \/ UNCHANGED flowVars
    PROVE  FlowInv'
  <1>1. CASE UNCHANGED flowVars
    BY <1>1 DEF flowVars, FlowInv, TrueOf
  <1>2. CASE Flow!UseCamera \/ Flow!Submit \/ Flow!UploadAccepted \/ Flow!Poll
    BY <1>2, UseCameraFlow, SubmitFlow, UploadAcceptedFlow, PollFlow
  <1>3. CASE Flow!UploadFails \/ Flow!AnswerAlert \/ Flow!Retake \/ Flow!Leave
    BY <1>3, LeaveFlow
  <1>4. ASSUME NEW n \in Flow!Uploads, Flow!ServeUpload(n) \/ Flow!Progresses(n)
        PROVE  FlowInv'
    BY <1>4, ServerFlow
  <1>5. ASSUME NEW i \in DOMAIN polls,
               Flow!ServePoll(i) \/ Flow!PollArrives(i) \/ Flow!PollFails(i)
        PROVE  FlowInv'
    BY <1>5, ServePollFlow, PollEndsFlow
  <1> QED
    BY <1>1, <1>2, <1>3, <1>4, <1>5 DEF Flow!Next
-----------------------------------------------------------------------------
(* The pages.                                                                *)

AlertStatuses == {"absent", "unread", "read", "resolved"}

PatchOf == [kind : {"read", "dismiss"}, id : Alerts, served : BOOLEAN, heard : BOOLEAN]

\* The answer to a dismissal comes from a server that has resolved the alert.
Dismissed(r) == r.served /\ r.kind = "dismiss" => alert[r.id] = "resolved"

PagesInv ==
    /\ alert \in [Alerts -> AlertStatuses]
    /\ patches \in Seq(PatchOf)
    /\ dialog \in Alerts \union {None}
    /\ gone \subseteq Alerts
    /\ \A i \in DOMAIN patches : Dismissed(patches[i])
    /\ Pages!DismissedIsResolved

LEMMA PagesInitInv == Pages!Init => PagesInv
  BY DEF Pages!Init, PagesInv, AlertStatuses, Pages!DismissedIsResolved

\* A resolved alert stays resolved; nothing is said of one that is not.
LEMMA ResolvedStays ==
    ASSUME PagesInv, alert' \in [Alerts -> AlertStatuses],
           \A a \in Alerts : alert[a] = "resolved" => alert'[a] = "resolved",
           patches' \in Seq(PatchOf), dialog' \in Alerts \union {None},
           \A i \in DOMAIN patches' :
              \/ patches'[i].served /\ patches'[i].kind = "dismiss"
                    => alert'[patches'[i].id] = "resolved"
              \/ \E k \in DOMAIN patches : /\ patches'[i].served = patches[k].served
                                           /\ patches'[i].kind = patches[k].kind
                                           /\ patches'[i].id = patches[k].id,
           gone' = gone
    PROVE  PagesInv'
  <1>1. \A k \in DOMAIN patches : patches[k].id \in Alerts
    <2>1. \A k \in DOMAIN patches : patches[k] \in PatchOf
      BY DEF PagesInv
    <2> QED
      BY <2>1 DEF PatchOf
  <1> QED
    BY <1>1 DEF PagesInv, Dismissed, Pages!DismissedIsResolved

LEMMA QuietPages ==
    ASSUME PagesInv, UNCHANGED <<alert, patches, gone>>, dialog' \in Alerts \union {None}
    PROVE  PagesInv'
  BY DEF PagesInv, Dismissed, Pages!DismissedIsResolved

LEMMA ServerChangesPages == ASSUME PagesInv, Pages!ServerChanges PROVE PagesInv'
  <1>1. UNCHANGED <<patches, gone, dialog>>
    BY DEF Pages!ServerChanges
  <1>2. alert' \in [Alerts -> AlertStatuses]
        /\ \A a \in Alerts : alert[a] = "resolved" => alert'[a] = "resolved"
    BY DEF Pages!ServerChanges, Pages!Active, PagesInv, AlertStatuses
  <1> QED
    BY <1>1, <1>2, ResolvedStays DEF PagesInv

\* A page that is left does not hear of its requests any more.
LEMMA ShowPages == ASSUME PagesInv, NEW p, Pages!Show(p) PROVE PagesInv'
  <1>1. /\ patches' = [i \in DOMAIN patches |-> [patches[i] EXCEPT !.heard = FALSE]]
        /\ UNCHANGED <<alert, gone>> /\ dialog' = None
    BY DEF Pages!Show, Pages!server
  <1>2. ASSUME NEW i \in DOMAIN patches
        PROVE  /\ patches'[i] \in PatchOf
               /\ patches'[i].served = patches[i].served
               /\ patches'[i].kind = patches[i].kind /\ patches'[i].id = patches[i].id
    <2>1. patches[i] \in PatchOf
      BY DEF PagesInv
    <2> QED
      BY <1>1, <2>1 DEF PatchOf
  <1>3. patches' \in Seq(PatchOf) /\ DOMAIN patches' = DOMAIN patches
    <2>1. patches \in Seq(PatchOf)
      BY DEF PagesInv
    <2> QED
      BY <1>1, <1>2, <2>1
  <1> QED
    BY <1>1, <1>2, <1>3, ResolvedStays DEF PagesInv

LEMMA PatchPages ==
    ASSUME PagesInv, NEW kind \in {"read", "dismiss"}, NEW a \in Alerts, Pages!Patch(kind, a),
           UNCHANGED <<alert, gone>>, dialog' \in Alerts \union {None}
    PROVE  PagesInv'
  <1> DEFINE r == [kind |-> kind, id |-> a, served |-> FALSE, heard |-> TRUE]
  <1>1. r \in PatchOf /\ ~r.served /\ patches' = Append(patches, r)
    BY DEF PatchOf, Pages!Patch
  <1> HIDE DEF r
  <1>2. /\ patches' \in Seq(PatchOf)
        /\ \A j \in DOMAIN patches' : patches'[j] = r \/ \E k \in DOMAIN patches :
                                                            patches'[j] = patches[k]
    BY <1>1, Appending DEF PagesInv
  <1> QED
    BY <1>1, <1>2, ResolvedStays DEF PagesInv

LEMMA ServePatchPages ==
    ASSUME PagesInv, NEW i \in DOMAIN patches, Pages!ServePatch(i)
    PROVE  PagesInv'
  <1>1. patches[i] \in PatchOf /\ patches[i].id \in Alerts
    <2>1. patches[i] \in PatchOf
      BY DEF PagesInv
    <2> QED
      BY <2>1 DEF PatchOf
  <1>2. PICK r \in PatchOf : /\ patches' = [patches EXCEPT ![i] = r]
                             /\ r.kind = patches[i].kind /\ r.id = patches[i].id
    <2> DEFINE r == [patches[i] EXCEPT !.served = TRUE]
    <2>1. r \in PatchOf /\ r.kind = patches[i].kind /\ r.id = patches[i].id
      BY <1>1 DEF PatchOf
    <2> QED
      BY <2>1 DEF Pages!ServePatch
  <1>3. /\ alert' \in [Alerts -> AlertStatuses]
        /\ \A a \in Alerts : alert[a] = "resolved" => alert'[a] = "resolved"
        /\ patches[i].kind = "dismiss" => alert'[patches[i].id] = "resolved"
    BY <1>1 DEF Pages!ServePatch, PagesInv, AlertStatuses
  <1>4. /\ patches' \in Seq(PatchOf) /\ DOMAIN patches' = DOMAIN patches
        /\ \A j \in DOMAIN patches : patches'[j] = IF j = i THEN r ELSE patches[j]
    BY <1>2 DEF PagesInv
  <1> QED
    BY <1>2, <1>3, <1>4, ResolvedStays DEF PagesInv, Pages!ServePatch

\* The feed takes an alert out for a dismissal that was answered.
LEMMA PatchEndsPages ==
    ASSUME PagesInv, NEW i \in DOMAIN patches, Pages!PatchArrives(i) \/ Pages!PatchFails(i)
    PROVE  PagesInv'
  <1>1. patches[i] \in PatchOf /\ patches[i].id \in Alerts
    <2>1. patches[i] \in PatchOf
      BY DEF PagesInv
    <2> QED
      BY <2>1 DEF PatchOf
  <1>2. patches' = Removed(patches, i) /\ UNCHANGED <<alert, dialog>>
    BY DEF Pages!PatchArrives, Pages!PatchFails, Pages!RemoveAt, Removed, Pages!server
  <1>3. /\ patches' \in Seq(PatchOf)
        /\ \A j \in DOMAIN patches' : \E k \in DOMAIN patches : patches'[j] = patches[k]
    BY <1>2, Removing DEF PagesInv
  <1>4. \/ gone' = gone
        \/ /\ gone' = gone \union {patches[i].id}
           /\ patches[i].served /\ patches[i].kind = "dismiss"
    BY DEF Pages!PatchArrives, Pages!PatchFails
  <1> QED
    BY <1>1, <1>2, <1>3, <1>4 DEF PagesInv, Dismissed, Pages!DismissedIsResolved

LEMMA PagesNextInv ==
    ASSUME PagesInv, Pages!Next \/ UNCHANGED pageVars
    PROVE  PagesInv'
  <1>1. CASE UNCHANGED pageVars
    BY <1>1, QuietPages DEF pageVars, PagesInv
  <1>2. CASE Pages!ServerChanges
    BY <1>2, ServerChangesPages
  <1>3. CASE Pages!NavigatorReady
    BY <1>3, ShowPages DEF Pages!NavigatorReady
  <1>4. CASE Pages!Refresh \/ Pages!CancelDismiss
    BY <1>4, QuietPages DEF Pages!Refresh, Pages!CancelDismiss, Pages!server, PagesInv
  <1>5. CASE Pages!ConfirmDismiss
    BY <1>5, PatchPages DEF Pages!ConfirmDismiss, Pages!server, PagesInv
  <1>6. ASSUME NEW p \in Pages!Pages, Pages!Tap(p) \/ Pages!Navigate(p) PROVE PagesInv'
    <2>1. CASE Pages!Show(p)
      BY <2>1, ShowPages
    <2>2. CASE ~Pages!Show(p)
      BY <1>6, <2>2, QuietPages DEF Pages!Tap, Pages!Navigate, Pages!server, PagesInv
    <2> QED
      BY <2>1, <2>2
  <1>7. ASSUME NEW i \in DOMAIN loads,
               Pages!ServeLoad(i) \/ Pages!LoadArrives(i) \/ Pages!LoadFails(i)
        PROVE  PagesInv'
    BY <1>7, QuietPages
       DEF Pages!ServeLoad, Pages!LoadArrives, Pages!LoadFails, Pages!server, PagesInv
  <1>8. ASSUME NEW a \in Alerts, Pages!Acknowledge(a) PROVE PagesInv'
    BY <1>8, PatchPages DEF Pages!Acknowledge, Pages!server, PagesInv
  <1>9. ASSUME NEW a \in Alerts, Pages!AskDismiss(a) PROVE PagesInv'
    BY <1>9, QuietPages DEF Pages!AskDismiss, Pages!server
  <1>10. ASSUME NEW i \in DOMAIN patches,
                Pages!ServePatch(i) \/ Pages!PatchArrives(i) \/ Pages!PatchFails(i)
         PROVE  PagesInv'
    BY <1>10, ServePatchPages, PatchEndsPages
  <1> QED
    BY <1>1, <1>2, <1>3, <1>4, <1>5, <1>6, <1>7, <1>8, <1>9, <1>10 DEF Pages!Next
-----------------------------------------------------------------------------
(* The console.                                                              *)

Tabs == {t1, t2}
Decided == {"approved", "rejected"}

TabFields == {"at", "moving", "seen", "asked", "said"}

AskOf == [do : {"apply", "approve", "reject", "create", "set tenant", "set user", "save rule"},
          of : {None, "tenant", "user"}, to : {None, "active", "inactive"},
          reply : {None, "done", "refused", "unreachable"}]

\* What an answer says of the application.
Answer(do, reply) ==
    /\ do = "approve" /\ reply = "done"    => application = "approved"
    /\ do = "reject"  /\ reply = "done"    => application = "rejected"
    /\ do = "reject"  /\ reply = "refused" => application \in Decided

\* A rejection is asked for on the page of applications, of one that is there.
Asking(t, ask) ==
    /\ ask.reply # None => Answer(ask.do, ask.reply)
    /\ ask.do = "reject" => tab[t].at = "applications" /\ application # None

TabInv(t) ==
    /\ DOMAIN tab[t] = TabFields
    /\ tab[t].asked \in Seq(AskOf)
    /\ tab[t].moving => tab[t].asked = <<>>
    /\ tab[t].at = "applications" /\ ~tab[t].moving /\ tab[t].seen.application # None
          => application # None
    /\ \A i \in DOMAIN tab[t].asked : Asking(t, tab[t].asked[i])
    /\ tab[t].said # None => Answer(tab[t].said.do, tab[t].said.reply)

WebInv ==
    /\ application \in {None, "pending"} \union Decided
    /\ DOMAIN tab = Tabs
    /\ \A t \in Tabs : TabInv(t)

\* A decision is never taken back, and an application stays.
Grows ==
    /\ application' \in {None, "pending"} \union Decided
    /\ application # None => application' # None
    /\ application \in Decided => application' = application

LEMMA NoStatus == None \notin {"pending", "approved", "rejected"}
  BY StatusAssumption

LEMMA WebInitInv == Web!Init => WebInv
  <1> SUFFICES ASSUME Web!Init PROVE WebInv
    OBVIOUS
  <1>1. ASSUME NEW t \in Tabs
        PROVE  tab[t] = [at |-> "signup", moving |-> FALSE, seen |-> None,
                         asked |-> <<>>, said |-> None]
    BY <1>1 DEF Web!Init, Tabs
  <1>2. ASSUME NEW t \in Tabs PROVE TabInv(t)
    <2>1. /\ DOMAIN tab[t] = TabFields /\ tab[t].at = "signup" /\ tab[t].seen = None
          /\ tab[t].asked = <<>> /\ tab[t].said = None
      BY <1>1 DEF TabFields
    <2> QED
      BY <2>1 DEF TabInv
  <1> QED
    BY <1>2 DEF Web!Init, WebInv, Tabs

LEMMA AnswersStand ==
    ASSUME Grows, NEW do, NEW reply, Answer(do, reply)
    PROVE  Answer(do, reply)'
  BY DEF Grows, Answer, Decided

\* A tab that does not change stays true of what the others make of the server.
LEMMA TabStays ==
    ASSUME WebInv, Grows, NEW t \in Tabs, tab'[t] = tab[t]
    PROVE  TabInv(t)'
  <1>1. \A ask \in AskOf : Asking(t, ask) => Asking(t, ask)'
    BY AnswersStand DEF Asking, Grows
  <1>2. TabInv(t) /\ \A i \in DOMAIN tab[t].asked : tab[t].asked[i] \in AskOf
    BY DEF WebInv, TabInv
  <1>3. tab[t].said # None => Answer(tab[t].said.do, tab[t].said.reply)'
    BY <1>2, AnswersStand DEF TabInv
  <1>4. tab'[t].said # None => Answer(tab[t].said.do, tab[t].said.reply)'
    BY <1>3
  <1> QED
    BY <1>1, <1>2, <1>4 DEF TabInv, Grows

\* One tab steps.
LEMMA TabMoves ==
    ASSUME WebInv, Grows, NEW t \in Tabs, NEW r, tab' = [tab EXCEPT ![t] = r], TabInv(t)'
    PROVE  WebInv'
  <1>1. \A u \in Tabs \ {t} : tab'[u] = tab[u]
    BY DEF WebInv
  <1>2. DOMAIN tab' = Tabs
    BY DEF WebInv
  <1> QED
    BY <1>1, <1>2, TabStays DEF WebInv, Grows

LEMMA Standing == ASSUME WebInv, UNCHANGED application PROVE Grows
  BY DEF WebInv, Grows

LEMMA GoTabs == ASSUME WebInv, Grows, NEW t \in Tabs, NEW path, Web!Go(t, path) PROVE WebInv'
  <1> DEFINE r == [at |-> path, moving |-> TRUE, seen |-> None, asked |-> <<>>, said |-> None]
  <1>1. tab' = [tab EXCEPT ![t] = r] /\ tab'[t] = r
    BY DEF Web!Go, WebInv
  <1>2. TabInv(t)'
    <2>1. /\ DOMAIN tab'[t] = TabFields /\ tab'[t].moving = TRUE /\ tab'[t].seen = None
          /\ tab'[t].asked = <<>> /\ tab'[t].said = None
      BY <1>1 DEF TabFields
    <2> QED
      BY <2>1 DEF TabInv
  <1> QED
    BY <1>1, <1>2, TabMoves

LEMMA RestTabs ==
    ASSUME WebInv, Grows, NEW t \in Tabs, NEW page, page # "applications", Web!Rest(t, page)
    PROVE  WebInv'
  <1>1. DOMAIN tab[t] = TabFields /\ TabInv(t)
    BY DEF WebInv, TabInv
  <1>2. PICK r : /\ tab' = [tab EXCEPT ![t] = r] /\ tab'[t] = r
                 /\ DOMAIN r = TabFields /\ r.at = page /\ r.moving = FALSE /\ r.asked = <<>>
                 /\ r.said = tab[t].said
    <2> DEFINE r == tab'[t]
    <2>1. r = [tab[t] EXCEPT !.at = page, !.moving = FALSE, !.asked = <<>>]
      BY DEF Web!Rest, WebInv
    <2>2. tab' = [tab EXCEPT ![t] = r]
      BY <2>1 DEF Web!Rest, WebInv
    <2>3. /\ DOMAIN r = TabFields /\ r.at = page /\ r.moving = FALSE /\ r.asked = <<>>
          /\ r.said = tab[t].said
      BY <2>1, <1>1 DEF TabFields
    <2> HIDE DEF r
    <2> QED
      BY <2>2, <2>3 DEF r
  <1>3. (tab[t].said # None => Answer(tab[t].said.do, tab[t].said.reply))'
    BY <1>1, <1>2, AnswersStand DEF TabInv
  <1>4. tab'[t].asked = <<>> /\ tab'[t].moving = FALSE /\ tab'[t].at = page
        /\ DOMAIN tab'[t] = TabFields
    BY <1>2
  <1>5. TabInv(t)'
    <2>1. (\A i \in DOMAIN tab[t].asked : Asking(t, tab[t].asked[i]))'
      BY <1>4
    <2> QED
      BY <1>3, <1>4, <2>1 DEF TabInv
  <1> QED
    BY <1>2, <1>5, TabMoves

\* A page is rendered from what the server holds.
LEMMA ShowTabs ==
    ASSUME WebInv, UNCHANGED application, NEW t \in Tabs, tab[t].moving, NEW page,
           Web!Show(t, page)
    PROVE  WebInv'
  <1>1. TabInv(t) /\ DOMAIN tab[t] = TabFields /\ Grows
    BY Standing DEF WebInv, TabInv
  <1>2. PICK r : /\ tab' = [tab EXCEPT ![t] = r] /\ tab'[t] = r
                 /\ DOMAIN r = TabFields /\ r.asked = <<>> /\ r.said = tab[t].said
                 /\ r.seen.application = application
    <2> DEFINE r == tab'[t]
    <2>1. r = [tab[t] EXCEPT !.at = page, !.moving = FALSE, !.seen = Web!Rendered]
      BY DEF Web!Show, WebInv
    <2>2. tab' = [tab EXCEPT ![t] = r]
      BY <2>1 DEF Web!Show, WebInv
    <2>3. DOMAIN r = TabFields /\ r.asked = <<>> /\ r.seen = Web!Rendered /\ r.said = tab[t].said
      BY <2>1, <1>1 DEF TabFields, TabInv
    <2>4. Web!Rendered.application = application
      BY DEF Web!Rendered
    <2> HIDE DEF r
    <2> QED
      BY <2>2, <2>3, <2>4 DEF r
  <1>3. (tab[t].said # None => Answer(tab[t].said.do, tab[t].said.reply))'
    BY <1>1, <1>2, AnswersStand DEF TabInv
  <1>4. TabInv(t)'
    <2>1. (\A i \in DOMAIN tab[t].asked : Asking(t, tab[t].asked[i]))'
      BY <1>2
    <2>2. tab'[t].seen.application = application'
      BY <1>2
    <2>3. tab'[t].asked = <<>> /\ DOMAIN tab'[t] = TabFields
      BY <1>2
    <2> QED
      BY <1>3, <2>1, <2>2, <2>3 DEF TabInv
  <1> QED
    BY <1>1, <1>2, <1>4, TabMoves

\* The forms that a resting tab sends and has answered.
LEMMA AsksTabs ==
    ASSUME WebInv, Grows, NEW t \in Tabs, ~tab[t].moving, NEW r, tab' = [tab EXCEPT ![t] = r],
           DOMAIN r = TabFields, r.at = tab[t].at, r.moving = tab[t].moving,
           r.seen = tab[t].seen \/ (r.seen = Web!Rendered /\ UNCHANGED application),
           r.asked \in Seq(AskOf), \A i \in DOMAIN r.asked : Asking(t, r.asked[i])',
           r.said # None => Answer(r.said.do, r.said.reply)'
    PROVE  WebInv'
  <1>1. TabInv(t) /\ tab'[t] = r
    BY DEF WebInv
  <1>2. (tab[t].said # None => Answer(tab[t].said.do, tab[t].said.reply))'
    BY <1>1
  <1>3. (\A i \in DOMAIN tab[t].asked : Asking(t, tab[t].asked[i]))'
    BY <1>1
  <1>4. r.seen.application # None /\ r.at = "applications" => application' # None
    BY <1>1 DEF TabInv, Grows, Web!Rendered
  <1>5. TabInv(t)'
    BY <1>1, <1>2, <1>3, <1>4 DEF TabInv
  <1> QED
    BY <1>5, TabMoves

LEMMA StandingAsk ==
    ASSUME Grows, NEW t \in Tabs, NEW ask, Asking(t, ask), tab'[t].at = tab[t].at
    PROVE  Asking(t, ask)'
  BY AnswersStand DEF Asking, Grows

LEMMA PressTabs ==
    ASSUME WebInv, NEW t \in Tabs, NEW page, NEW do, NEW of, NEW to,
           Web!Press(t, page, do, of, to),
           [do |-> do, of |-> of, to |-> to, reply |-> None] \in AskOf,
           do = "reject" => page = "applications" /\ application # None
    PROVE  WebInv'
  <1> DEFINE ask == [do |-> do, of |-> of, to |-> to, reply |-> None]
  <1>1. /\ ~tab[t].moving /\ tab[t].at = page /\ UNCHANGED application
        /\ tab' = [tab EXCEPT ![t].asked = Append(@, ask)]
    BY DEF Web!Press, Web!Resting, Web!stored
  <1>2. ask \in AskOf /\ ask.do = do /\ ask.reply = None
    OBVIOUS
  <1> HIDE DEF ask
  <1>3. TabInv(t) /\ Grows
    BY <1>1, Standing DEF WebInv
  <1>4. PICK r : /\ tab' = [tab EXCEPT ![t] = r] /\ tab'[t] = r
                 /\ DOMAIN r = TabFields /\ r.at = tab[t].at /\ r.moving = tab[t].moving
                 /\ r.seen = tab[t].seen /\ r.said = tab[t].said
                 /\ r.asked = Append(tab[t].asked, ask)
    <2> DEFINE r == [tab[t] EXCEPT !.asked = Append(tab[t].asked, ask)]
    <2>1. tab' = [tab EXCEPT ![t] = r] /\ tab'[t] = r
      BY <1>1 DEF WebInv
    <2>2. /\ DOMAIN r = TabFields /\ r.at = tab[t].at /\ r.moving = tab[t].moving
          /\ r.seen = tab[t].seen /\ r.said = tab[t].said
          /\ r.asked = Append(tab[t].asked, ask)
      BY <1>3 DEF TabInv, TabFields
    <2> HIDE DEF r
    <2> QED
      BY <2>1, <2>2
  <1>5. /\ r.asked \in Seq(AskOf)
        /\ \A i \in DOMAIN r.asked :
              r.asked[i] = ask \/ \E k \in DOMAIN tab[t].asked : r.asked[i] = tab[t].asked[k]
    BY <1>2, <1>3, <1>4, Appending DEF TabInv
  <1>6. Asking(t, ask)'
    BY <1>1, <1>2, <1>4 DEF Asking
  <1>7. \A i \in DOMAIN r.asked : Asking(t, r.asked[i])'
    BY <1>3, <1>4, <1>5, <1>6, StandingAsk DEF TabInv
  <1>8. r.said # None => Answer(r.said.do, r.said.reply)'
    BY <1>3, <1>4, AnswersStand DEF TabInv
  <1> QED
    BY <1>1, <1>3, <1>4, <1>5, <1>7, <1>8, AsksTabs

LEMMA HeadAsk ==
    ASSUME WebInv, NEW t \in Tabs, tab[t].asked # <<>>
    PROVE  /\ 1 \in DOMAIN tab[t].asked /\ Head(tab[t].asked) = tab[t].asked[1]
           /\ tab[t].asked[1] \in AskOf /\ Asking(t, tab[t].asked[1])
  BY DEF WebInv, TabInv

\* The form that waits is answered, and what it is told is so.
LEMMA RepliedTabs ==
    ASSUME WebInv, Grows, NEW t \in Tabs, ~tab[t].moving, tab[t].asked # <<>>,
           NEW reply \in {"done", "refused", "unreachable"}, Web!Replied(t, reply),
           NEW do, do = tab[t].asked[1].do, Answer(do, reply)'
    PROVE  WebInv'
  <1>1. TabInv(t) /\ DOMAIN tab[t] = TabFields
    BY DEF WebInv, TabInv
  <1>2. PICK ask \in AskOf : /\ ask = [tab[t].asked[1] EXCEPT !.reply = reply]
                             /\ ask.do = do /\ ask.reply = reply
    <2> DEFINE ask == [tab[t].asked[1] EXCEPT !.reply = reply]
    <2>1. ask \in AskOf /\ ask.do = do /\ ask.reply = reply
      BY HeadAsk DEF AskOf
    <2> QED
      BY <2>1
  <1>3. PICK asked : /\ asked = [tab[t].asked EXCEPT ![1] = ask]
                     /\ asked \in Seq(AskOf) /\ DOMAIN asked = DOMAIN tab[t].asked
                     /\ \A i \in DOMAIN asked : asked[i] = IF i = 1 THEN ask
                                                           ELSE tab[t].asked[i]
    <2> DEFINE asked == [tab[t].asked EXCEPT ![1] = ask]
    <2>1. /\ asked \in Seq(AskOf) /\ DOMAIN asked = DOMAIN tab[t].asked
          /\ \A i \in DOMAIN asked : asked[i] = IF i = 1 THEN ask ELSE tab[t].asked[i]
      BY <1>1, HeadAsk DEF TabInv
    <2> HIDE DEF asked
    <2> QED
      BY <2>1 DEF asked
  <1>4. PICK r : /\ tab' = [tab EXCEPT ![t] = r] /\ tab'[t] = r
                 /\ DOMAIN r = TabFields /\ r.at = tab[t].at /\ r.moving = tab[t].moving
                 /\ r.seen = tab[t].seen /\ r.said = tab[t].said /\ r.asked = asked
    <2> DEFINE r == [tab[t] EXCEPT !.asked = asked]
    <2>1. tab' = [tab EXCEPT ![t] = r] /\ tab'[t] = r
      BY <1>2, <1>3 DEF Web!Replied, WebInv
    <2>2. /\ DOMAIN r = TabFields /\ r.at = tab[t].at /\ r.moving = tab[t].moving
          /\ r.seen = tab[t].seen /\ r.said = tab[t].said /\ r.asked = asked
      BY <1>1 DEF TabFields
    <2> HIDE DEF r
    <2> QED
      BY <2>1, <2>2
  <1>5. Asking(t, ask)'
    BY <1>2, <1>4, HeadAsk DEF Asking, Grows
  <1>6. \A i \in DOMAIN r.asked : Asking(t, r.asked[i])'
    BY <1>1, <1>3, <1>4, <1>5, StandingAsk DEF TabInv
  <1>7. r.said # None => Answer(r.said.do, r.said.reply)'
    BY <1>1, <1>4, AnswersStand DEF TabInv
  <1> QED
    BY <1>3, <1>4, <1>6, <1>7, AsksTabs

LEMMA AnsweredTabs == ASSUME WebInv, NEW t \in Tabs, Web!Answered(t) PROVE WebInv'
  <1> DEFINE ask == tab[t].asked[1]
  <1>1. /\ ~tab[t].moving /\ tab[t].asked # <<>> /\ ask.reply # None /\ UNCHANGED application
        /\ Head(tab[t].asked) = ask
    BY HeadAsk DEF Web!Answered, Web!Resting, Web!stored
  <1>2. TabInv(t) /\ Grows /\ DOMAIN tab[t] = TabFields /\ Asking(t, ask)
    BY <1>1, Standing, HeadAsk DEF WebInv, TabInv
  <1>3. PICK r : /\ tab' = [tab EXCEPT ![t] = r] /\ tab'[t] = r
                 /\ DOMAIN r = TabFields /\ r.at = tab[t].at /\ r.moving = tab[t].moving
                 /\ r.seen = Web!Rendered \/ r.seen = tab[t].seen
                 /\ r.asked = Tail(tab[t].asked)
                 /\ r.said.do = ask.do /\ r.said.reply = ask.reply
    <2> DEFINE seen == IF ask.reply = "done" /\ ~Web!Public(t) THEN Web!Rendered ELSE tab[t].seen
               r == [tab[t] EXCEPT !.asked = Tail(tab[t].asked),
                                   !.said = Web!Told(ask.do, ask.reply), !.seen = seen]
    <2>1. tab' = [tab EXCEPT ![t] = r]
      BY <1>1 DEF Web!Answered, WebInv
    <2>2. tab'[t] = r
      BY <2>1 DEF WebInv
    <2>3. Web!Told(ask.do, ask.reply).do = ask.do /\ Web!Told(ask.do, ask.reply).reply = ask.reply
      BY DEF Web!Told
    <2>4. seen = Web!Rendered \/ seen = tab[t].seen
      OBVIOUS
    <2> HIDE DEF seen
    <2>5. /\ DOMAIN r = TabFields /\ r.at = tab[t].at /\ r.moving = tab[t].moving
          /\ r.seen = seen /\ r.asked = Tail(tab[t].asked)
          /\ r.said = Web!Told(ask.do, ask.reply)
      BY <1>2 DEF TabFields
    <2> HIDE DEF r
    <2> QED
      BY <2>1, <2>2, <2>3, <2>4, <2>5
  <1>4. /\ Tail(tab[t].asked) \in Seq(AskOf)
        /\ \A i \in DOMAIN Tail(tab[t].asked) : \E k \in DOMAIN tab[t].asked :
              Tail(tab[t].asked)[i] = tab[t].asked[k]
    BY <1>1, <1>2 DEF TabInv
  <1>5. \A i \in DOMAIN r.asked : Asking(t, r.asked[i])'
    BY <1>2, <1>3, <1>4, StandingAsk DEF TabInv
  <1>6. PICK e : e = ask
    OBVIOUS
  <1>7. Answer(e.do, e.reply)'
    BY <1>1, <1>2, <1>6, AnswersStand DEF Asking
  <1>8. Answer(r.said.do, r.said.reply)'
    BY <1>3, <1>6, <1>7
  <1> QED
    BY <1>1, <1>2, <1>3, <1>4, <1>5, <1>8, AsksTabs

\* What the API answers to a form is so from then on.
LEMMA ResultsTell ==
    ASSUME WebInv, NEW ask \in AskOf, ask.do = "reject" => application # None,
           NEW result \in Web!Results(ask), application' = result.application
    PROVE  Grows /\ Answer(ask.do, result.reply)' /\ result.reply \in {"done", "refused"}
  <1>1. application \in {None, "pending", "approved", "rejected"}
    BY DEF WebInv, Decided
  <1>2. CASE ask.do = "apply"
    BY <1>1, <1>2, NoStatus DEF Web!Results, Web!Result, Grows, Answer, Decided
  <1>3. CASE ask.do = "approve"
    BY <1>1, <1>3, NoStatus
       DEF Web!Results, Web!Approve, Web!Refused, Web!Result, Grows, Answer, Decided
  <1>4. CASE ask.do = "reject"
    BY <1>1, <1>4, NoStatus
       DEF Web!Results, Web!Reject, Web!Refused, Web!Result, Grows, Answer, Decided
  <1>5. CASE ask.do \in {"create", "set tenant", "set user", "save rule"}
    <2>1. result.application = application /\ result.reply \in {"done", "refused"}
      <3>1. CASE ask.do = "create"
        BY <3>1 DEF Web!Results, Web!Create, Web!Refused, Web!Result
      <3>2. CASE ask.do = "save rule"
        <4>1. Web!Results(ask) = {Web!Result(application, access, "done")}
          BY <3>2 DEF Web!Results
        <4> QED
          BY <4>1 DEF Web!Result
      <3>3. CASE ask.do \in {"set tenant", "set user"}
        <4>1. Web!Results(ask) = Web!Update(ask.of, ask.to)
          BY <3>3 DEF Web!Results
        <4> QED
          BY <4>1 DEF Web!Update, Web!Result
      <3> QED
        BY <1>5, <3>1, <3>2, <3>3
    <2> QED
      BY <1>1, <1>5, <2>1, NoStatus DEF Grows, Answer, Decided
  <1> QED
    BY <1>2, <1>3, <1>4, <1>5 DEF AskOf

\* Where the proxy lets a tab rest on the page of applications, an admin is signed in.
LEMMA AdmittedToApplications ==
    ASSUME NEW t, Web!Admitted(t), tab[t].at = "applications"
    PROVE  Web!MayLoad /\ ~Web!Public(t)
  BY DEF Web!Admitted, Web!Door, Web!AdminPages, Web!TenantPages, Web!Needs, Web!MayLoad,
         Web!Public

LEMMA AskedTabs ==
    ASSUME WebInv, NEW t \in Tabs, Web!Asks(t)
    PROVE  /\ ~tab[t].moving /\ tab[t].asked # <<>> /\ Head(tab[t].asked) = tab[t].asked[1]
           /\ tab[t].asked[1] \in AskOf /\ Asking(t, tab[t].asked[1])
  BY HeadAsk DEF Web!Asks, Web!Resting

LEMMA UnreachableTells == ASSUME NEW do PROVE Answer(do, "unreachable")'
  BY DEF Answer

LEMMA UnreachableTabs ==
    ASSUME WebInv, Grows, NEW t \in Tabs, Web!Asks(t), Web!Replied(t, "unreachable")
    PROVE  WebInv'
  <1>1. PICK do : do = tab[t].asked[1].do
    OBVIOUS
  <1>2. Answer(do, "unreachable")'
    BY UnreachableTells
  <1> QED
    BY <1>1, <1>2, AskedTabs, RepliedTabs

LEMMA TakenTabs == ASSUME WebInv, NEW t \in Tabs, Web!Taken(t) PROVE WebInv'
  <1>0. PICK ask : ask = tab[t].asked[1]
    OBVIOUS
  <1>1. /\ Web!Asks(t) /\ Web!Admitted(t) /\ ask \in AskOf /\ Asking(t, ask)
        /\ ~tab[t].moving /\ tab[t].asked # <<>> /\ Head(tab[t].asked) = ask
    BY <1>0, AskedTabs DEF Web!Taken
  <1>2. PICK result \in IF Web!Public(t) \/ Web!MayLoad THEN Web!Results(ask) ELSE {Web!Refused} :
           /\ application' = result.application
           /\ \/ Web!Replied(t, result.reply)
              \/ Web!Replied(t, "unreachable")
              \/ Web!Rest(t, "error")
    BY <1>1 DEF Web!Taken
  <1>3. Grows /\ Answer(ask.do, result.reply)' /\ result.reply \in {"done", "refused"}
    <2>1. CASE Web!Public(t) \/ Web!MayLoad
      BY <1>1, <1>2, <2>1, ResultsTell DEF Asking
    <2>2. CASE ~(Web!Public(t) \/ Web!MayLoad)
      <3>1. result.application = application /\ result.reply = "refused"
        BY <1>2, <2>2 DEF Web!Refused, Web!Result
      <3>2. ask.do # "reject"
        BY <1>1, <2>2, AdmittedToApplications DEF Asking
      <3> QED
        BY <1>2, <3>1, <3>2, Standing DEF Answer
    <2> QED
      BY <2>1, <2>2
  <1>4. CASE Web!Replied(t, result.reply)
    BY <1>0, <1>1, <1>3, <1>4, RepliedTabs
  <1>5. CASE Web!Replied(t, "unreachable")
    BY <1>1, <1>3, <1>5, UnreachableTabs
  <1>6. CASE Web!Rest(t, "error")
    BY <1>3, <1>6, RestTabs
  <1> QED
    BY <1>2, <1>4, <1>5, <1>6

\* The other ends of a form.
LEMMA FormEndsTabs ==
    ASSUME WebInv, NEW t \in Tabs, Web!TurnedAway(t) \/ Web!RefusedForm(t) \/ Web!Missed(t)
    PROVE  WebInv'
  <1>1. Grows
    BY Standing DEF Web!TurnedAway, Web!RefusedForm, Web!Missed, Web!stored
  <1>2. \/ Web!Rest(t, "error")
        \/ \E path : Web!Go(t, path)
        \/ Web!Asks(t) /\ Web!Replied(t, "unreachable")
    BY DEF Web!TurnedAway, Web!RefusedForm, Web!Missed
  <1> QED
    BY <1>1, <1>2, RestTabs, GoTabs, UnreachableTabs

\* A decision is asked for from what the page showed, which was there.
LEMMA DecideTabs == ASSUME WebInv, NEW t \in Tabs, Web!Decide(t) PROVE WebInv'
  <1>1. PICK do \in {"approve", "reject"} : Web!Press(t, "applications", do, None, None)
    BY DEF Web!Decide
  <1>2. application # None
    BY NoStatus DEF Web!Decide, Web!Sees, Web!Resting, WebInv, TabInv
  <1>3. [do |-> do, of |-> None, to |-> None, reply |-> None] \in AskOf
    BY DEF AskOf
  <1> QED
    BY <1>1, <1>2, <1>3, PressTabs

LEMMA PagePaths ==
    {"signup", "catalogue", "tenants", "tenant", "team"} \subseteq Web!Paths
  BY DEF Web!Paths, Web!AdminPages, Web!TenantPages

LEMMA FormTabs == ASSUME WebInv, NEW t \in Tabs, Web!Forms(t) PROVE WebInv'
  <1>1. CASE Web!Apply(t) \/ Web!UpdateCategoryShelfLife(t)
    <2>1. PICK page \in Web!Paths, do \in {"apply", "save rule"} :
             Web!Press(t, page, do, None, None)
      BY <1>1, PagePaths DEF Web!Apply, Web!UpdateCategoryShelfLife
    <2>2. [do |-> do, of |-> None, to |-> None, reply |-> None] \in AskOf
      BY DEF AskOf
    <2> QED
      BY <2>1, <2>2, PressTabs
  <1>2. CASE Web!CreateTenant(t) \/ Web!InviteTenantUser(t) \/ Web!InviteVendor(t)
    <2>1. PICK page \in Web!Paths, of \in {"tenant", "user"} :
             Web!Press(t, page, "create", of, "active")
      BY <1>2, PagePaths DEF Web!CreateTenant, Web!InviteTenantUser, Web!InviteVendor
    <2>2. [do |-> "create", of |-> of, to |-> "active", reply |-> None] \in AskOf
      BY DEF AskOf
    <2> QED
      BY <2>1, <2>2, PressTabs
  <1>3. CASE Web!SetTenantStatus(t) \/ Web!SetTenantUserStatus(t) \/ Web!SetVendorStatus(t)
    <2>0. ASSUME NEW now PROVE Web!Opposite(now) \in {"active", "inactive"}
      BY DEF Web!Opposite
    <2>1. PICK page \in Web!Paths, do \in {"set tenant", "set user"}, of \in {"tenant", "user"},
               to \in {"active", "inactive"} : Web!Press(t, page, do, of, to)
      BY <1>3, <2>0, PagePaths
         DEF Web!SetTenantStatus, Web!SetTenantUserStatus, Web!SetVendorStatus
    <2>2. [do |-> do, of |-> of, to |-> to, reply |-> None] \in AskOf
      BY DEF AskOf
    <2> QED
      BY <2>1, <2>2, PressTabs
  <1> QED
    BY <1>1, <1>2, <1>3, DecideTabs, FormEndsTabs, TakenTabs, AnsweredTabs DEF Web!Forms

LEMMA FollowTabs == ASSUME WebInv, NEW t \in Tabs, Web!Follow(t) PROVE WebInv'
  <1>1. UNCHANGED application /\ tab[t].moving /\ Grows
    BY Standing
       DEF Web!Follow, Web!Redirect, Web!Home, Web!PublicPage, Web!TokenRefused, Web!AdminPage,
           Web!WorkspacePage, Web!SessionExpired, Web!Moves, Web!stored
  <1>2. \/ \E path : Web!Go(t, path)
        \/ \E page : page # "applications" /\ Web!Rest(t, page)
        \/ \E page : Web!Show(t, page)
    <2>1. CASE Web!PublicPage(t)
      BY <2>1 DEF Web!PublicPage
    <2>2. CASE Web!AdminPage(t) \/ Web!WorkspacePage(t)
      BY <2>2 DEF Web!AdminPage, Web!WorkspacePage
    <2>3. CASE Web!Redirect(t) \/ Web!Home(t) \/ Web!TokenRefused(t) \/ Web!SessionExpired(t)
      BY <2>3 DEF Web!Redirect, Web!Home, Web!TokenRefused, Web!SessionExpired
    <2> QED
      BY <2>1, <2>2, <2>3 DEF Web!Follow
  <1> QED
    BY <1>1, <1>2, GoTabs, RestTabs, ShowTabs

LEMMA ActivateTabs == ASSUME WebInv, NEW t \in Tabs, Web!Activate(t) PROVE WebInv'
  <1>1. /\ ~tab[t].moving /\ UNCHANGED application /\ Grows /\ TabInv(t)
        /\ tab' = [tab EXCEPT ![t].said = Web!Told("open", "done")]
    BY Standing DEF Web!Activate, Web!Resting, Web!stored, WebInv
  <1>2. PICK r : /\ tab' = [tab EXCEPT ![t] = r]
                 /\ DOMAIN r = TabFields /\ r.at = tab[t].at /\ r.moving = tab[t].moving
                 /\ r.seen = tab[t].seen /\ r.asked = tab[t].asked
                 /\ r.said = Web!Told("open", "done")
    <2> DEFINE r == [tab[t] EXCEPT !.said = Web!Told("open", "done")]
    <2>1. tab' = [tab EXCEPT ![t] = r]
      BY <1>1 DEF WebInv
    <2>2. /\ DOMAIN r = TabFields /\ r.at = tab[t].at /\ r.moving = tab[t].moving
          /\ r.seen = tab[t].seen /\ r.asked = tab[t].asked
          /\ r.said = Web!Told("open", "done")
      BY <1>1 DEF TabInv, TabFields
    <2> HIDE DEF r
    <2> QED
      BY <2>1, <2>2
  <1>3. tab'[t].at = tab[t].at
    BY <1>2 DEF WebInv
  <1>4. \A i \in DOMAIN r.asked : Asking(t, r.asked[i])'
    BY <1>1, <1>2, <1>3, StandingAsk DEF TabInv
  <1>5. Answer(r.said.do, r.said.reply)'
    BY <1>2 DEF Answer, Web!Told
  <1>6. r.asked \in Seq(AskOf)
    BY <1>1, <1>2 DEF TabInv
  <1> QED
    BY <1>1, <1>2, <1>4, <1>5, <1>6, AsksTabs

LEMMA WebNextInv ==
    ASSUME WebInv, Web!Next \/ UNCHANGED webVars
    PROVE  WebInv'
  <1>1. ASSUME UNCHANGED <<application, tab>> PROVE WebInv'
    BY <1>1, Standing, TabStays DEF WebInv, Grows
  <1>2. ASSUME NEW t \in Tabs,
               Web!Visit(t) \/ Web!SignIn(t) \/ Web!SignOut(t) \/ Web!SavePassword(t)
        PROVE  WebInv'
    <2>1. Grows
      BY <1>2, Standing DEF Web!Visit, Web!SignIn, Web!SignOut, Web!SavePassword, Web!stored
    <2>2. (\E path : Web!Go(t, path)) \/ UNCHANGED <<application, tab>>
      BY <1>2 DEF Web!Visit, Web!SignIn, Web!SignOut, Web!SavePassword, Web!stored
    <2> QED
      BY <1>1, <2>1, <2>2, GoTabs
  <1>3. CASE Web!SessionLost \/ UNCHANGED webVars
    BY <1>1, <1>3 DEF Web!SessionLost, Web!stored, webVars
  <1> QED
    BY <1>2, <1>3, FollowTabs, FormTabs, ActivateTabs DEF Web!Next, Tabs
-----------------------------------------------------------------------------
(* The clients together: each part keeps its own state, whichever one steps. *)

clientVars == <<part, storageVars, flowVars, pageVars, authVars, webVars>>

ClientsInv == FlowInv /\ PagesInv /\ WebInv

LEMMA ClientsInitInv == ClientsInit => ClientsInv
  BY FlowInitInv, PagesInitInv, WebInitInv DEF ClientsInit, ClientsInv

LEMMA ClientsNextInv == ClientsInv /\ [ClientsNext]_clientVars => ClientsInv'
  <1> SUFFICES ASSUME ClientsInv, [ClientsNext]_clientVars PROVE ClientsInv'
    OBVIOUS
  <1>1. /\ Flow!Next \/ UNCHANGED flowVars
        /\ Pages!Next \/ UNCHANGED pageVars
        /\ Web!Next \/ UNCHANGED webVars
    BY DEF ClientsNext, clientVars
  <1> QED
    BY <1>1, FlowNextInv, PagesNextInv, WebNextInv DEF ClientsInv

LEMMA ClientsInvariant == ClientsSpec => []ClientsInv
  BY ClientsInitInv, ClientsNextInv, PTL DEF ClientsSpec, clientVars

\* A verdict on the status screen was the server's verdict on the scan it shows when it was
\* read, also after a retake while polls of the former scan are on their way, and whatever
\* the worker does to the status meanwhile (scan-flow-screen.tsx, scan-status-screen.tsx,
\* worker/tasks.py).
THEOREM VerdictsAreTrue == ClientsSpec => []ShownVerdictIsTrue
  <1>1. ClientsInv => ShownVerdictIsTrue
    BY DEF ClientsInv, FlowInv, TrueOf, ShownVerdictIsTrue, Flow!ShownVerdictIsTrue
  <1> QED
    BY <1>1, ClientsInvariant, PTL

\* An alert leaves the feed for a dismissal only when the server has resolved it, whichever
\* requests were lost or answered late (alerts-screen.tsx).
THEOREM DismissalsAreResolved == ClientsSpec => []DismissedIsResolved
  <1>1. ClientsInv => DismissedIsResolved
    BY DEF ClientsInv, PagesInv, DismissedIsResolved
  <1> QED
    BY <1>1, ClientsInvariant, PTL

\* What the console said of a decision stays so, in every tab: an application that was
\* approved or rejected stays that, and a refused rejection met a decision
\* (application-queue.tsx, services/applications.py).
THEOREM DecisionsAreTold == ClientsSpec => []ToldIsTrue
  <1>1. ClientsInv => ToldIsTrue
    <2> SUFFICES ASSUME ClientsInv, NEW t \in Tabs, tab[t].said # None
                 PROVE  /\ tab[t].said = Web!Told("approve", "done") => application = "approved"
                        /\ tab[t].said = Web!Told("reject", "done") => application = "rejected"
                        /\ tab[t].said = Web!Told("reject", "refused") =>
                              application \in {"approved", "rejected"}
      BY DEF ToldIsTrue, Web!ToldIsTrue, Tabs
    <2>1. Answer(tab[t].said.do, tab[t].said.reply)
      BY DEF ClientsInv, WebInv, TabInv
    <2> QED
      BY <2>1 DEF Answer, Decided, Web!Told
  <1> QED
    BY <1>1, ClientsInvariant, PTL
=============================================================================
