----------------------------- MODULE WebConsole -----------------------------
(***************************************************************************)
(* The web console: tabs of one browser share the session cookie, every    *)
(* page is rendered on the server from what the API answers, and the       *)
(* buttons of a page act on what it showed when it was rendered.           *)
(*                                                                         *)
(* A tab that moves is at a path it asked for and follows redirects: the   *)
(* proxy sends it where its claims allow, a page whose token the API does  *)
(* not take sends it to /session-expired, which signs out and sends it to  *)
(* /login, and /login sends whoever has claims back to a page.             *)
(***************************************************************************)
EXTENDS Integers, Sequences

CONSTANTS
    Tabs,
    MaxClicks,  \* bound: pages opened, forms sent, sign-ins, sign-outs and failing requests
    MaxFaults,  \* bound: requests to the API or to Supabase Auth that fail
    None

VARIABLES
    application,  \* the API's: one tenant application, or None
    access,       \* the API's: status of one tenant and of one of its users, or None
    cookie,       \* claims that the proxy verifies, [role, live]; live: the API takes the token
    tab,          \* [at, moving, seen, asked, said]
    clicks, faults

stored == <<application, access>>
vars == <<application, access, cookie, tab, clicks, faults>>

\* parseAuthClaims: anything else counts as signed out.
Roles  == {"vendor", "tenant_admin", "platform_admin"}
Claims == [role : Roles, live : BOOLEAN] \union {None}

AdminPages  == {"dashboard", "applications", "tenants", "tenant", "catalogue"}
TenantPages == {"workspace", "team"}
Paths == AdminPages \union TenantPages \union
         {"home", "login", "signup", "set-password", "access-denied", "session-expired"}

Told(do, reply) == [do |-> do, reply |-> reply]
Rendered == [application |-> application, access |-> access]

Resting(t) == ~tab[t].moving
Go(t, path) == tab' = [tab EXCEPT ![t] = [at |-> path, moving |-> TRUE, seen |-> None,
                                          asked |-> <<>>, said |-> None]]
Rest(t, page) == tab' = [tab EXCEPT ![t].at = page, ![t].moving = FALSE, ![t].asked = <<>>]
Show(t, page) == tab' = [tab EXCEPT ![t].at = page, ![t].moving = FALSE,
                                    ![t].seen = Rendered]

Room  == clicks + faults < MaxClicks
Click == Room /\ clicks' = clicks + 1
Fault == Room /\ faults < MaxFaults /\ faults' = faults + 1

Init ==
    /\ application \in {None, "pending"}
    /\ access \in {[tenant |-> status, user |-> status] : status \in {None, "active"}}
    /\ cookie \in Claims
    /\ tab = [t \in Tabs |-> [at |-> "signup", moving |-> FALSE, seen |-> None,
                              asked |-> <<>>, said |-> None]]
    /\ clicks = 0 /\ faults = 0
-----------------------------------------------------------------------------
(* Navigation.                                                               *)

Destination(role) ==
    CASE role = "platform_admin" -> "dashboard"
      [] role = "tenant_admin"   -> "workspace"
      [] OTHER                   -> "access-denied"

\* requirePlatformAdmin and requireTenantAdmin, which every action and every load asks.
Needs(page) == IF page \in TenantPages THEN "tenant_admin" ELSE "platform_admin"

\* updateSession: where a request for a path may go.
Door(path) ==
    IF path \notin AdminPages \union TenantPages \union {"home"}
    THEN IF path = "login" /\ cookie # None THEN Destination(cookie.role) ELSE path
    ELSE IF cookie = None THEN "login"
    ELSE IF path # "home" /\ cookie.role # Needs(path) THEN "access-denied"
    ELSE path

\* The tenant transaction refuses members of a tenant that is switched off.
MayLoad == cookie.role = "tenant_admin" => access.tenant = "active"

Moves(t, path) == tab[t].moving /\ tab[t].at = path

Redirect(t) ==
    /\ tab[t].moving /\ Door(tab[t].at) # tab[t].at
    /\ Go(t, Door(tab[t].at))
    /\ UNCHANGED <<stored, cookie, clicks, faults>>

Home(t) ==
    /\ Moves(t, "home") /\ Door("home") = "home"
    /\ Go(t, Destination(cookie.role))
    /\ UNCHANGED <<stored, cookie, clicks, faults>>

PublicPage(t) ==
    /\ tab[t].moving /\ Door(tab[t].at) = tab[t].at
    /\ tab[t].at \in {"login", "signup", "set-password", "access-denied"}
    /\ Rest(t, tab[t].at)
    /\ UNCHANGED <<stored, cookie, clicks, faults>>

\* authenticatedApiFetch: a page whose load the API answers with 401.
TokenRefused(t) ==
    /\ tab[t].moving /\ tab[t].at \in AdminPages \union TenantPages
    /\ Door(tab[t].at) = tab[t].at /\ ~cookie.live
    /\ Go(t, "session-expired")
    /\ UNCHANGED <<stored, cookie, clicks, faults>>

\* A page of the platform's admins, or an error page when a load is not answered well.
AdminPage(t) ==
    /\ tab[t].moving /\ tab[t].at \in AdminPages
    /\ Door(tab[t].at) = tab[t].at /\ cookie.live
    /\ \/ Show(t, tab[t].at) /\ UNCHANGED faults
       \/ Rest(t, "error") /\ Fault
    /\ UNCHANGED <<stored, cookie, clicks>>

WorkspacePage(t) ==
    /\ tab[t].moving /\ tab[t].at \in TenantPages
    /\ Door(tab[t].at) = tab[t].at /\ cookie.live
    /\ \/ MayLoad /\ Show(t, tab[t].at) /\ UNCHANGED faults
       \/ ~MayLoad /\ Rest(t, "error") /\ UNCHANGED faults
       \/ Rest(t, "error") /\ Fault
    /\ UNCHANGED <<stored, cookie, clicks>>

\* signOut keeps the session when Supabase Auth cannot be reached.
SignedOut ==
    \/ cookie' = None /\ UNCHANGED faults
    \/ cookie # None /\ Fault /\ UNCHANGED cookie

\* Mutant of SessionExpired: a page in place of the route handler, which cannot write cookies
\* and so signs nobody out.
SessionExpiredPage(t) ==
    /\ Moves(t, "session-expired")
    /\ Go(t, "login")
    /\ UNCHANGED <<stored, cookie, clicks, faults>>

SessionExpired(t) ==
    /\ Moves(t, "session-expired")
    /\ SignedOut /\ Go(t, "login")
    /\ UNCHANGED <<stored, clicks>>
-----------------------------------------------------------------------------
(* The session.                                                              *)

Visit(t) ==
    /\ Resting(t) /\ Click
    /\ \E path \in Paths : Go(t, path)
    /\ UNCHANGED <<stored, cookie, faults>>

\* loginAction; a vendor is signed out again, or stays signed in when that fails.
SignIn(t) ==
    /\ Resting(t) /\ tab[t].at = "login" /\ Click
    /\ \/ /\ \E role \in Roles \ {"vendor"} :
                 cookie' = [role |-> role, live |-> TRUE] /\ Go(t, Destination(role))
          /\ UNCHANGED faults
       \/ cookie' = None /\ UNCHANGED <<tab, faults>>
       \/ cookie' = [role |-> "vendor", live |-> TRUE] /\ Fault /\ UNCHANGED tab
    /\ UNCHANGED stored

SignOut(t) ==
    /\ Resting(t) /\ tab[t].at \in AdminPages \union TenantPages \union {"access-denied", "error"}
    /\ Click /\ SignedOut /\ Go(t, "login")
    /\ UNCHANGED stored

\* The link of an invitation replaces the session of the whole browser.
Activate(t) ==
    /\ Resting(t) /\ tab[t].at = "set-password" /\ tab[t].said = None /\ Click
    /\ \/ \E role \in Roles \ {"platform_admin"} : cookie' = [role |-> role, live |-> TRUE]
       \/ cookie # None /\ UNCHANGED cookie
    /\ tab' = [tab EXCEPT ![t].said = Told("open", "done")]
    /\ UNCHANGED <<stored, faults>>

SavePassword(t) ==
    /\ Resting(t) /\ tab[t].at = "set-password" /\ tab[t].said # None
    /\ cookie # None /\ cookie.live
    /\ Go(t, "home")
    /\ UNCHANGED <<stored, cookie, clicks, faults>>

\* The API stops taking the token, or it can no longer be refreshed or lost its role.
SessionLost ==
    /\ cookie # None
    /\ \/ cookie.live /\ cookie' = [cookie EXCEPT !.live = FALSE]
       \/ cookie' = None
    /\ UNCHANGED <<stored, tab, clicks, faults>>
-----------------------------------------------------------------------------
(* The forms.  What a button does was decided when its page was rendered.    *)

Asked(t, do) == \E i \in DOMAIN tab[t].asked : tab[t].asked[i].do = do

\* A form is disabled while it waits; others of the page are sent after it.
Press(t, page, do, of, to) ==
    /\ Resting(t) /\ tab[t].at = page /\ ~Asked(t, do) /\ Click
    /\ tab' = [tab EXCEPT ![t].asked = Append(@, [do |-> do, of |-> of, to |-> to, reply |-> None])]
    /\ UNCHANGED <<stored, cookie, faults>>

Sees(t, page) == Resting(t) /\ tab[t].at = page
Opposite(status) == IF status = "active" THEN "inactive" ELSE "active"

Apply(t) == Press(t, "signup", "apply", None, None)

Decide(t) ==
    /\ Sees(t, "applications") /\ tab[t].seen.application = "pending"
    /\ \E do \in {"approve", "reject"} : Press(t, "applications", do, None, None)

CreateTenant(t) == Press(t, "tenants", "create", "tenant", "active")

SetTenantStatus(t) ==
    /\ Sees(t, "tenant") /\ tab[t].seen.access.tenant # None
    /\ Press(t, "tenant", "set tenant", "tenant", Opposite(tab[t].seen.access.tenant))

SetTenantUserStatus(t) ==
    /\ Sees(t, "tenant") /\ tab[t].seen.access.user # None
    /\ Press(t, "tenant", "set user", "user", Opposite(tab[t].seen.access.user))

InviteTenantUser(t) ==
    /\ Sees(t, "tenant") /\ tab[t].seen.access.tenant # None
    /\ Press(t, "tenant", "create", "user", "active")

SetVendorStatus(t) ==
    /\ Sees(t, "team") /\ tab[t].seen.access.user # None
    /\ Press(t, "team", "set user", "user", Opposite(tab[t].seen.access.user))

InviteVendor(t) == Press(t, "team", "create", "user", "active")

UpdateCategoryShelfLife(t) == Press(t, "catalogue", "save rule", None, None)

\* What the API makes of a form: [application, access, reply].
Result(a, s, reply) == [application |-> a, access |-> s, reply |-> reply]
Refused == Result(application, access, "refused")

\* An approval may also fail at the invitation, and is answered again when it was made.
Approve ==
    IF application = "rejected" THEN {Refused}
    ELSE {Result("approved", access, "done")} \union
         (IF application = "pending" THEN {Refused} ELSE {})

\* Mutant of Reject: update ... where id = $1, whatever the status is.
RejectAny == {Result("rejected", access, "done")}

Reject ==
    {IF application = "pending" THEN Result("rejected", access, "done") ELSE Refused}

Create(of) ==
    {IF access[of] = None
     THEN Result(application, [access EXCEPT ![of] = "active"], "done")
     ELSE Refused}

Update(of, to) == {Result(application, [access EXCEPT ![of] = to], "done")}

Results(ask) ==
    CASE ask.do = "apply"     -> {Result(IF application = None THEN "pending" ELSE application,
                                         access, "done")}
      [] ask.do = "approve"   -> Approve
      [] ask.do = "reject"    -> Reject
      [] ask.do = "create"    -> Create(ask.of)
      [] ask.do = "save rule" -> {Result(application, access, "done")}
      [] OTHER                -> Update(ask.of, ask.to)

Asks(t) == Resting(t) /\ tab[t].asked # <<>> /\ Head(tab[t].asked).reply = None
Admitted(t) == Door(tab[t].at) = tab[t].at
Public(t) == tab[t].at = "signup"
Replied(t, reply) == tab' = [tab EXCEPT ![t].asked[1].reply = reply]

\* The form's own request meets the proxy first.
TurnedAway(t) ==
    /\ Asks(t) /\ ~Admitted(t)
    /\ Rest(t, "error") \/ Go(t, Door(tab[t].at))
    /\ UNCHANGED <<stored, cookie, clicks, faults>>

\* The redirect of a 401 is an exception like any other: all actions but one catch it.
RefusedForm(t) ==
    /\ Asks(t) /\ Admitted(t) /\ ~Public(t) /\ ~cookie.live
    /\ IF Head(tab[t].asked).do = "save rule" THEN Go(t, "session-expired")
       ELSE Replied(t, "unreachable")
    /\ UNCHANGED <<stored, cookie, clicks, faults>>

\* The API takes the form; its answer may be lost on the way.
Taken(t) ==
    /\ Asks(t) /\ Admitted(t) /\ (~Public(t) => cookie.live)
    /\ LET ask == Head(tab[t].asked)
           results == IF Public(t) \/ MayLoad THEN Results(ask) ELSE {Refused}
       IN \E result \in results :
             /\ application' = result.application /\ access' = result.access
             /\ \/ Replied(t, result.reply) /\ UNCHANGED faults
                \/ ask.do # "save rule" /\ Replied(t, "unreachable") /\ Fault
                \/ ask.do = "save rule" /\ Rest(t, "error") /\ Fault
    /\ UNCHANGED <<cookie, clicks>>

Missed(t) ==
    /\ Asks(t) /\ Admitted(t) /\ Head(tab[t].asked).do # "save rule"
    /\ Replied(t, "unreachable") /\ Fault
    /\ UNCHANGED <<stored, cookie, clicks>>

\* The form shows the answer; after a success its page is rendered again.
Answered(t) ==
    /\ Resting(t) /\ tab[t].asked # <<>> /\ Head(tab[t].asked).reply # None
    /\ LET ask == Head(tab[t].asked)
           fresh == ask.reply = "done" /\ ~Public(t)
       IN tab' = [tab EXCEPT ![t].asked = Tail(@), ![t].said = Told(ask.do, ask.reply),
                             ![t].seen = IF fresh THEN Rendered ELSE @]
    /\ UNCHANGED <<stored, cookie, clicks, faults>>
-----------------------------------------------------------------------------
Follow(t) ==
    \/ Redirect(t) \/ Home(t) \/ PublicPage(t) \/ TokenRefused(t)
    \/ AdminPage(t) \/ WorkspacePage(t) \/ SessionExpired(t)

Forms(t) ==
    \/ Apply(t) \/ Decide(t) \/ CreateTenant(t) \/ SetTenantStatus(t) \/ SetTenantUserStatus(t)
    \/ InviteTenantUser(t) \/ SetVendorStatus(t) \/ InviteVendor(t) \/ UpdateCategoryShelfLife(t)
    \/ TurnedAway(t) \/ RefusedForm(t) \/ Taken(t) \/ Missed(t) \/ Answered(t)

Next ==
    \/ \E t \in Tabs : \/ Follow(t) \/ Forms(t) \/ Visit(t) \/ SignIn(t) \/ SignOut(t)
                       \/ Activate(t) \/ SavePassword(t)
    \/ SessionLost

\* Browsers follow redirects, and the server answers them.
Fairness == \A t \in Tabs : WF_vars(Follow(t))

Spec == Init /\ [][Next]_vars /\ Fairness
-----------------------------------------------------------------------------
\* What a tab was told of its decision is so, whichever pages and answers were old: an
\* application that was approved or rejected stays that, and a refused rejection met a
\* decision (application-queue.tsx, services/applications.py).
ToldIsTrue ==
    \A t \in Tabs : tab[t].said # None =>
        /\ tab[t].said = Told("approve", "done")   => application = "approved"
        /\ tab[t].said = Told("reject", "done")    => application = "rejected"
        /\ tab[t].said = Told("reject", "refused") => application \in {"approved", "rejected"}

\* No tab is sent around for ever between a page whose token is refused, /session-expired
\* and /login, whatever happens to the session on the way (client.ts, session-expired).
NavigationEnds(t) == tab[t].moving ~> ~tab[t].moving
=============================================================================
