------------------------------- MODULE Inbox -------------------------------
(***************************************************************************)
(* The pages of the phone that show what the server holds: Home with its   *)
(* counts, the alert feed with Read and Dismiss, and the scan history.     *)
(* Every focus, pull and retry sends another request, answers arrive in    *)
(* any order and the last to arrive is shown, so a page may show an old    *)
(* answer; nothing but the next refresh corrects it.  Taps on push         *)
(* messages open pages, also before the navigator is ready.                *)
(***************************************************************************)
EXTENDS Integers, Sequences, FiniteSets, SequencesExt, Functions

CONSTANTS
    Alerts,
    MaxScans,     \* bound: scans of the tenant
    MaxRequests,  \* bound: lists, read and dismiss requests on their way at once
    MaxFaults,    \* bound: failing requests
    None

VARIABLES
    alert,        \* server: absent, unread, read or resolved
    scans,        \* server: number of scans
    nav,          \* the page on top, or the tap that waits until the navigator is ready
    view,         \* what each mounted page shows; None while it loads
    failed,       \* pages that show an error; the feed and the history hide their list
    loads,        \* lists on their way: [page, seen]
    patches,      \* read and dismiss requests on their way: [kind, id, served, heard]
    dialog,       \* the alert whose dismissal is to be confirmed
    dismissing,   \* dismissingId: the alert whose button is disabled
    gone,         \* history: alerts taken out of the feed because they were dismissed
    faults

server == <<alert, scans>>
vars == <<server, nav, view, failed, loads, patches, dialog, dismissing, gone, faults>>

Pages  == {"Home", "Alerts", "History"}
Active == {a \in Alerts : alert[a] \in {"unread", "read"}}

\* listAlerts, listScans, and the three requests of loadStats of which products is constant;
\* what a page does not ask for is empty.
Truth(p) ==
    [feed   |-> IF p = "Alerts" THEN [a \in Active |-> alert[a]] ELSE <<>>,
     active |-> IF p = "Home" THEN Cardinality(Active) ELSE 0,
     scans  |-> IF p = "Alerts" THEN 0 ELSE scans]

Init ==
    /\ alert = [a \in Alerts |-> "absent"]
    /\ scans = 0
    /\ nav = [ready |-> FALSE, page |-> "Home", tap |-> None]
    /\ view = [p \in Pages |-> None]
    /\ failed = {} /\ gone = {} /\ faults = 0
    /\ loads = <<>> /\ patches = <<>>
    /\ dialog = None /\ dismissing = None

\* The evaluation or a scan raises an alert, a sale resolves one, a worker adds a scan.
ServerChanges ==
    /\ \/ \E a \in Alerts : /\ alert[a] = "absent" /\ alert' = [alert EXCEPT ![a] = "unread"]
                            /\ UNCHANGED scans
       \/ \E a \in Active : alert' = [alert EXCEPT ![a] = "resolved"] /\ UNCHANGED scans
       \/ scans < MaxScans /\ scans' = scans + 1 /\ UNCHANGED alert
    /\ UNCHANGED <<nav, view, failed, loads, patches, dialog, dismissing, gone, faults>>

Room(on) == Len(on) + Len(patches) < MaxRequests

Request(p, on) ==
    IF Room(on) THEN Append(on, [page |-> p, seen |-> None]) ELSE on

\* Only Home stays mounted under the others: the answers for a page that was left are not
\* shown, and its next visit starts anew.  A focus fetches.
Show(p) ==
    /\ nav' = [ready |-> TRUE, page |-> p, tap |-> None]
    /\ view' = [q \in Pages |-> IF q = "Home" THEN view[q] ELSE None]
    /\ failed' = {}
    /\ loads' = Request(p, SelectSeq(loads, LAMBDA l : l.page = "Home"))
    /\ patches' = [i \in DOMAIN patches |-> [patches[i] EXCEPT !.heard = FALSE]]
    /\ dialog' = None /\ dismissing' = None
    /\ UNCHANGED <<server, gone, faults>>

\* destinationForNotification: an alert opens the feed, a scan the history.  Of several taps
\* before the navigator is ready the last one counts.
Tap(p) ==
    IF nav.ready THEN nav.page # p /\ Show(p)
    ELSE /\ nav' = [nav EXCEPT !.tap = p]
         /\ UNCHANGED <<server, view, failed, loads, patches, dialog, dismissing, gone, faults>>

\* onReady flushes the pending tap; Home has the focus before it.
NavigatorReady ==
    ~nav.ready /\ Show(IF nav.tap = None THEN "Home" ELSE nav.tap)

\* The buttons of Home, and Done on the other pages.
Navigate(p) == nav.ready /\ dialog = None /\ (nav.page = "Home") # (p = "Home") /\ Show(p)

\* Pulling down, Retry, and the focus when a screen on top is closed.
Refresh ==
    /\ nav.ready /\ dialog = None /\ Room(loads)
    /\ loads' = Request(nav.page, loads)
    /\ UNCHANGED <<server, nav, view, failed, patches, dialog, dismissing, gone, faults>>

ServeLoad(i) ==
    /\ loads[i].seen = None
    /\ loads' = [loads EXCEPT ![i].seen = Truth(loads[i].page)]
    /\ UNCHANGED <<server, nav, view, failed, patches, dialog, dismissing, gone, faults>>

\* Mutant of LoadArrives: the feed keeps what it shows and adds what is new.
LoadArrivesMerging(i) ==
    LET l == loads[i] IN
    /\ l.seen # None
    /\ view' = [view EXCEPT ![l.page] =
                   IF l.page = "Alerts" /\ @ # None
                   THEN [l.seen EXCEPT !.feed = @ @@ view.Alerts.feed] ELSE l.seen]
    /\ failed' = failed \ {l.page}
    /\ loads' = RemoveAt(loads, i)
    /\ UNCHANGED <<server, nav, patches, dialog, dismissing, gone, faults>>

LoadArrives(i) ==
    LET l == loads[i] IN
    /\ l.seen # None
    /\ view' = [view EXCEPT ![l.page] = l.seen]
    /\ failed' = failed \ {l.page}
    /\ loads' = RemoveAt(loads, i)
    /\ UNCHANGED <<server, nav, patches, dialog, dismissing, gone, faults>>

Fault == faults < MaxFaults /\ faults' = faults + 1

\* The feed and the history tell.  loadStats counts as 0 what it could not load; its
\* requests travel together and fail one by one.
LoadFails(i) ==
    LET l == loads[i] IN
    /\ Fault
    /\ IF l.page = "Home"
       THEN /\ \E lost \in SUBSET {"active", "scans"} \ {{}} :
                 /\ l.seen = None => lost = {"active", "scans"}
                 /\ view' = [view EXCEPT !.Home =
                       [feed   |-> <<>>,
                        active |-> IF "active" \in lost THEN 0 ELSE l.seen.active,
                        scans  |-> IF "scans" \in lost THEN 0 ELSE l.seen.scans]]
            /\ UNCHANGED failed
       ELSE failed' = failed \union {l.page} /\ UNCHANGED view
    /\ loads' = RemoveAt(loads, i)
    /\ UNCHANGED <<server, nav, patches, dialog, dismissing, gone>>

Listed == IF nav.page = "Alerts" /\ view.Alerts # None /\ failed = {}
          THEN DOMAIN view.Alerts.feed ELSE {}

Patch(kind, a) ==
    /\ Room(loads)
    /\ patches' = Append(patches, [kind |-> kind, id |-> a, served |-> FALSE, heard |-> TRUE])

Acknowledge(a) ==
    /\ dialog = None /\ a \in Listed /\ view.Alerts.feed[a] = "unread"
    /\ Patch("read", a)
    /\ UNCHANGED <<server, nav, view, failed, loads, dialog, dismissing, gone, faults>>

AskDismiss(a) ==
    /\ dialog = None /\ a \in Listed /\ dismissing # a
    /\ dialog' = a
    /\ UNCHANGED <<server, nav, view, failed, loads, patches, dismissing, gone, faults>>

CancelDismiss ==
    /\ dialog # None
    /\ dialog' = None
    /\ UNCHANGED <<server, nav, view, failed, loads, patches, dismissing, gone, faults>>

Without(items, a) == Restrict(items, DOMAIN items \ {a})

\* Mutant of ConfirmDismiss: the alert leaves the feed before the server has answered.
ConfirmDismissAtOnce ==
    /\ dialog # None
    /\ Patch("dismiss", dialog)
    /\ view' = [view EXCEPT !.Alerts.feed = Without(@, dialog)]
    /\ gone' = gone \union {dialog}
    /\ dialog' = None /\ dismissing' = dialog
    /\ UNCHANGED <<server, nav, failed, loads, faults>>

ConfirmDismiss ==
    /\ dialog # None
    /\ Patch("dismiss", dialog)
    /\ dialog' = None /\ dismissing' = dialog
    /\ UNCHANGED <<server, nav, view, failed, loads, gone, faults>>

\* AlertService.mark_read and dismiss: doing it again changes nothing.
ServePatch(i) ==
    LET r == patches[i] IN
    /\ ~r.served
    /\ patches' = [patches EXCEPT ![i].served = TRUE]
    /\ alert' = [alert EXCEPT ![r.id] = IF r.kind = "dismiss" THEN "resolved"
                                        ELSE IF @ = "unread" THEN "read" ELSE @]
    /\ UNCHANGED <<scans, nav, view, failed, loads, dialog, dismissing, gone, faults>>

\* The feed that sent it is still mounted.  Whichever dismissal ends first enables the
\* button of every other.
Settle(r) ==
    dismissing' = IF r.heard /\ r.kind = "dismiss" THEN None ELSE dismissing

PatchArrives(i) ==
    LET r == patches[i]
        listed == r.heard /\ view.Alerts # None /\ r.id \in DOMAIN view.Alerts.feed
        dismissed == r.heard /\ r.kind = "dismiss" IN
    /\ r.served
    /\ patches' = RemoveAt(patches, i)
    /\ view' = IF ~listed THEN view
               ELSE [view EXCEPT !.Alerts.feed = IF dismissed THEN Without(@, r.id)
                                                 ELSE [@ EXCEPT ![r.id] = "read"]]
    /\ gone' = IF dismissed THEN gone \union {r.id} ELSE gone
    /\ failed' = IF dismissed THEN {} ELSE failed
    /\ Settle(r)
    /\ UNCHANGED <<server, nav, loads, dialog, faults>>

\* The request or its answer is lost; the error hides the feed until it is loaded again.
PatchFails(i) ==
    LET r == patches[i] IN
    /\ Fault
    /\ patches' = RemoveAt(patches, i)
    /\ failed' = IF r.heard THEN {"Alerts"} ELSE failed
    /\ Settle(r)
    /\ UNCHANGED <<server, nav, view, loads, dialog, gone>>

Next ==
    \/ ServerChanges \/ NavigatorReady \/ Refresh \/ CancelDismiss \/ ConfirmDismiss
    \/ \E p \in Pages : Tap(p) \/ Navigate(p)
    \/ \E i \in DOMAIN loads : ServeLoad(i) \/ LoadArrives(i) \/ LoadFails(i)
    \/ \E a \in Alerts : Acknowledge(a) \/ AskDismiss(a)
    \/ \E i \in DOMAIN patches : ServePatch(i) \/ PatchArrives(i) \/ PatchFails(i)

\* The server answers; nothing is assumed of the vendor.
Fairness ==
    /\ WF_vars(\E i \in DOMAIN loads : ServeLoad(i))
    /\ WF_vars(\E i \in DOMAIN loads : LoadArrives(i))
    /\ WF_vars(\E i \in DOMAIN patches : ServePatch(i))
    /\ WF_vars(\E i \in DOMAIN patches : PatchArrives(i))

Spec == Init /\ [][Next]_vars /\ Fairness
-----------------------------------------------------------------------------
\* An alert leaves the feed for a dismissal only when the server has resolved it:
\* a lost or failing request never hides a warning that still stands.
DismissedIsResolved == \A a \in gone : alert[a] = "resolved"

\* However answers overtook each other, a vendor who goes on refreshing ends up with
\* pages that show what the server holds, once that has come to rest.
PagesConverge ==
    []<><<Refresh>>_vars =>
        <>[](view[nav.page] # None => view[nav.page] = Truth(nav.page))
=============================================================================
