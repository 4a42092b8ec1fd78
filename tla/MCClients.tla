----------------------------- MODULE MCClients -----------------------------
(***************************************************************************)
(* Small instances of the clients beside the sale screens: the phone's     *)
(* session and its storage, its scan stack and its pages, and the web      *)
(* console.  They share no state, so a behaviour exercises one of them and *)
(* the others stay as they are at first.                                   *)
(***************************************************************************)
EXTENDS ChunkedStorage, TLC

CONSTANTS
    short, long,
    MaxUploads, MaxPolls,
    Alerts, MaxScans, MaxRequests, MaxFaults,
    MaxLooks, MaxClicks, t1, t2

VARIABLES
    part,
    scan, reached, flow, timer, polls, told,
    alert, scans, nav, view, failed, loads, patches, dialog, dismissing, gone, faults,
    session, status, setup, starting, looks, signing, links, saving, calls,
    opened, authFaults,
    application, access, cookie, tab, clicks, webFaults

MCSize == short :> 1 @@ long :> 2

Flow  == INSTANCE ScanFlow
Pages == INSTANCE Inbox
Auth  == INSTANCE MobileSession WITH faults <- authFaults
Web   == INSTANCE WebConsole WITH faults <- webFaults, Tabs <- {t1, t2}

\* None is no status of a scan or of an application.
ASSUME StatusAssumption == None \notin Flow!Final \union {"pending", "approved", "rejected"}

storageVars == <<manifest, chunk, op, outcome, used, late>>
flowVars    == <<scan, reached, flow, timer, polls, told>>
pageVars    == <<alert, scans, nav, view, failed, loads, patches, dialog, dismissing, gone, faults>>
authVars    == <<session, status, setup, starting, looks, signing, links,
                 saving, calls, opened, authFaults>>
webVars     == <<application, access, cookie, tab, clicks, webFaults>>

ClientsInit ==
    /\ part \in {"storage", "flow", "pages", "auth", "web"}
    /\ Init /\ Flow!Init /\ Pages!Init /\ Auth!Init /\ Web!Init
    /\ part # "auth" => session = None
    /\ part # "web" => application = None /\ cookie = None
    /\ (application = None) = (access.tenant = None)

ClientsNext ==
    /\ UNCHANGED part
    /\ \/ /\ part = "storage" /\ Next
          /\ UNCHANGED <<flowVars, pageVars, authVars, webVars>>
       \/ /\ part = "flow" /\ Flow!Next
          /\ UNCHANGED <<storageVars, pageVars, authVars, webVars>>
       \/ /\ part = "pages" /\ Pages!Next
          /\ UNCHANGED <<storageVars, flowVars, authVars, webVars>>
       \/ /\ part = "auth" /\ Auth!Next
          /\ UNCHANGED <<storageVars, flowVars, pageVars, webVars>>
       \/ /\ part = "web" /\ Web!Next
          /\ UNCHANGED <<storageVars, flowVars, pageVars, authVars>>

\* Nothing that fairness speaks of is enabled in the first state of a part.
ClientsSpec ==
    /\ ClientsInit /\ [][ClientsNext]_<<part, storageVars, flowVars, pageVars, authVars, webVars>>
    /\ Flow!Fairness /\ Pages!Fairness /\ Auth!Fairness /\ Web!Fairness

\* See ScanFlow, Inbox, MobileSession and WebConsole.
ShownVerdictIsTrue  == Flow!ShownVerdictIsTrue
VerdictShown        == Flow!VerdictShown
DismissedIsResolved == Pages!DismissedIsResolved
PagesConverge       == Pages!PagesConverge
LostSessionEnds     == Auth!LostSessionEnds
ToldIsTrue          == Web!ToldIsTrue
NavigationEnds      == Web!NavigationEnds(t1)  \* the tabs are interchangeable
=============================================================================
