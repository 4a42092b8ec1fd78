--------------------------- MODULE MobileSession ---------------------------
(***************************************************************************)
(* Who is signed in on the phone: the stored session of the auth client,   *)
(* the status that AuthGate turns into a screen, and what moves them       *)
(* without waiting for each other: inspections of the session, sign-in,    *)
(* password links, requests to the API that find the session gone, the     *)
(* auth client's own refresh, and the end of the app.                      *)
(***************************************************************************)
EXTENDS Integers, Sequences, SequencesExt, Bags

CONSTANTS
    MaxLooks,     \* bound: inspections and requests to the API on their way at once
    MaxFaults,    \* bound: inspections and sign-outs that fail for lack of a connection,
                  \* and password links that are opened
    None

VARIABLES
    session,      \* stored: whose it is, whether that vendor has been deactivated, and
                  \* whether the API has stopped accepting its token; or None
    status,       \* closed (the app does not run), loading, unauthenticated, authenticated
                  \* or password-setup
    setup,        \* passwordSetup.current
    starting,     \* what the start of the app still waits for
    looks,        \* inspectSession on its way, a bag of [at, seen]
    signing,      \* signInWithPassword is on its way
    links,        \* setSession of password links on their way
    saving,       \* updatePassword: None, updating, or leaving
    calls,        \* requests on their way, by their token: of the stored session, or else
                  \* replaced or revoked
    opened, faults

stored  == <<session, calls>>
bounds  == <<opened, faults>>
waiting == <<signing, links, saving>>
vars == <<session, status, setup, starting, looks,
          signing, links, saving, calls, opened, faults>>

Init ==
    /\ session \in [vendor : BOOLEAN, barred : {FALSE}, revoked : {FALSE}] \union {None}
    /\ opened = 0 /\ faults = 0
    /\ status = "closed" /\ setup = FALSE /\ starting = {}
    /\ looks = EmptyBag /\ calls = <<>>
    /\ signing = FALSE /\ links = 0 /\ saving = None

\* The app starts, or ends and starts again, with what is stored.  Bound: it is not ended
\* while it starts.
Start ==
    /\ status # "loading"
    /\ status' = "loading" /\ setup' = FALSE
    /\ starting' = {"url", "event"}
    /\ looks' = EmptyBag /\ calls' = <<>>
    /\ signing' = FALSE /\ links' = 0 /\ saving' = None
    /\ UNCHANGED <<session, opened, faults>>

\* inspectSession does nothing during a password setup, as far as it can tell when it starts.
Look(at, seen)  == SetToBag({[at |-> at, seen |-> seen]})
Inspecting(others) == IF setup THEN others ELSE others (+) Look("asked", None)
Room(requests) == BagCardinality(looks) + Len(requests) < MaxLooks
RoomToLook     == Room(calls)
Inspect        == RoomToLook /\ looks' = Inspecting(looks)

\* What is stored from now on; requests that are on their way keep the token they have.
Store(new, others) ==
    /\ session' = new
    /\ calls' = [i \in DOMAIN others |-> IF others[i] = "stored" THEN "replaced" ELSE others[i]]

\* A new session, and the event that tells of it.
Issue(vendor) ==
    Store([vendor |-> vendor, barred |-> FALSE, revoked |-> FALSE], calls) /\ Inspect

\* The first event of onAuthStateChange.
InitialEvent ==
    /\ "event" \in starting /\ starting' = starting \ {"event"}
    /\ Inspect
    /\ UNCHANGED <<stored, status, setup, waiting, bounds>>

\* handlePasswordLink: a link that names an error, or one with a session.
HandleLink(valid) ==
    /\ opened + faults < MaxFaults /\ opened' = opened + 1
    /\ IF valid THEN setup' = TRUE /\ status' = "password-setup" /\ links' = links + 1
                ELSE status' = "unauthenticated" /\ UNCHANGED <<setup, links>>
    /\ UNCHANGED <<stored, looks, signing, saving, faults>>

\* getInitialURL: the app was started by a link or not.
InitialUrl ==
    /\ "url" \in starting /\ starting' = starting \ {"url"}
    /\ \/ Inspect /\ UNCHANGED <<stored, status, setup, waiting, bounds>>
       \/ \E valid \in BOOLEAN : HandleLink(valid)

LinkOpened == status # "closed" /\ (\E valid \in BOOLEAN : HandleLink(valid)) /\ UNCHANGED starting

LinkAccepted ==
    /\ links > 0 /\ links' = links - 1
    /\ \E vendor \in BOOLEAN : Issue(vendor)
    /\ UNCHANGED <<status, setup, starting, signing, saving, bounds>>

LinkRefused ==
    /\ links > 0 /\ links' = links - 1
    /\ setup' = FALSE /\ status' = "unauthenticated"
    /\ UNCHANGED <<stored, starting, looks, signing, saving, bounds>>

Fault == opened + faults < MaxFaults /\ faults' = faults + 1

\* getClaims: nothing, the claims, or an error: refused for a revoked session, unreachable
\* for any.  It may also throw, which has the same effect as nothing.
ReadClaims(l) ==
    /\ l.at = "asked"
    /\ \E seen \in {"missing", "vendor", "other", "error"} :
          /\ looks' = (looks (-) SetToBag({l})) (+) Look("answered", seen)
          /\ \/ /\ seen = IF session = None THEN "missing"
                        ELSE IF session.vendor THEN "vendor" ELSE "other"
                /\ UNCHANGED faults
             \/ seen = "error" /\ session # None /\ session.revoked /\ UNCHANGED faults
             \/ seen \in {"error", "missing"} /\ Fault
    /\ UNCHANGED <<stored, status, setup, starting, waiting, opened>>

Finished(l) == looks' = looks (-) SetToBag({l})
Closing(l)  == looks' = (looks (-) SetToBag({l})) (+) Look("closing", l.seen)

\* What inspectSession makes of the answer, whatever has happened since it asked.
Deliver(l) ==
    /\ l.at = "answered"
    /\ CASE l.seen = "vendor" -> status' = "authenticated" /\ Finished(l)
         [] l.seen = "missing" -> status' = "unauthenticated" /\ Finished(l)
         [] l.seen = "error"  -> status' = "unauthenticated" /\ Closing(l)
         [] l.seen = "other"  -> UNCHANGED status /\ Closing(l)
    /\ UNCHANGED <<stored, setup, starting, waiting, bounds>>

\* signOut({ scope: 'local' }) removes whichever session is stored and tells so, or leaves
\* it when the auth service cannot be reached.  The event starts one more inspection.
SignedOut(others, requests) ==
    \/ Store(None, requests) /\ looks' = Inspecting(others) /\ UNCHANGED faults
    \/ Fault /\ looks' = others /\ calls' = requests /\ UNCHANGED session

\* An account that is not provisioned for the phone is told so afterwards.
Close(l) ==
    /\ l.at = "closing"
    /\ SignedOut(looks (-) SetToBag({l}), calls)
    /\ status' = IF l.seen = "other" THEN "unauthenticated" ELSE status
    /\ UNCHANGED <<setup, starting, waiting, opened>>

SignIn ==
    /\ status = "unauthenticated" /\ ~signing
    /\ signing' = TRUE
    /\ UNCHANGED <<stored, status, setup, starting, looks, links, saving, bounds>>

\* Wrong credentials, or no connection.
SignInFails ==
    /\ signing /\ signing' = FALSE
    /\ UNCHANGED <<stored, status, setup, starting, looks, links, saving, bounds>>

\* The inspection by the event and the one by signIn itself start together and are one.
SignInSucceeds ==
    /\ signing /\ signing' = FALSE
    /\ \E vendor \in BOOLEAN : Issue(vendor)
    /\ UNCHANGED <<status, setup, starting, links, saving, bounds>>

SignOut ==
    /\ status = "authenticated" /\ RoomToLook
    /\ SignedOut(looks, calls)
    /\ status' = "unauthenticated"
    /\ UNCHANGED <<setup, starting, waiting, opened>>

UpdatePassword ==
    /\ status = "password-setup" /\ saving = None
    /\ saving' = "updating"
    /\ UNCHANGED <<stored, status, setup, starting, looks, signing, links, bounds>>

UpdateEnds ==
    /\ saving = "updating"
    /\ \/ saving' = None /\ UNCHANGED looks
       \/ session # None /\ saving' = "leaving" /\ Inspect
    /\ UNCHANGED <<stored, status, setup, starting, signing, links, bounds>>

\* The new password is to be used at once: sign out and return to the login screen.
LeaveSetup ==
    /\ saving = "leaving" /\ saving' = None /\ RoomToLook
    /\ SignedOut(looks, calls)
    /\ setup' = FALSE /\ status' = "unauthenticated"
    /\ UNCHANGED <<starting, signing, links, opened>>

\* reportSessionExpired, after a local sign-out whose event finds a setup still going on.
Expire(requests) ==
    /\ Room(requests)
    /\ SignedOut(looks, requests)
    /\ setup' = FALSE /\ status' = "unauthenticated"

Sent == Append(calls, IF session.revoked THEN "revoked" ELSE "stored")

\* apiFetch of any screen: a request without a token is not sent.
Use ==
    /\ status = "authenticated" /\ RoomToLook
    /\ \/ session = None /\ Expire(calls)
       \/ /\ session # None /\ calls' = Sent
          /\ UNCHANGED <<session, status, setup, looks, faults>>
    /\ UNCHANGED <<starting, waiting, opened>>

\* Mutant of CallEnds: the screen shows the error of a 401 and nobody else is told.
CallEndsUnreported(i) ==
    /\ calls' = RemoveAt(calls, i)
    /\ UNCHANGED <<session, status, setup, looks, faults>>
    /\ UNCHANGED <<starting, waiting, opened>>

\* The API answers 401 to a token it no longer accepts; whichever session is stored by
\* now is signed out.  Any other answer, the 403 for a deactivated vendor among them, and a
\* timeout leave the session alone.
CallEnds(i) ==
    /\ IF calls[i] = "revoked" THEN Expire(RemoveAt(calls, i))
       ELSE calls' = RemoveAt(calls, i) /\ UNCHANGED <<session, status, setup, looks, faults>>
    /\ UNCHANGED <<starting, waiting, opened>>

\* The token expires, or the auth service revokes its session.
Revoke ==
    /\ session # None /\ session' = [session EXCEPT !.revoked = TRUE]
    /\ calls' = [i \in DOMAIN calls |-> IF calls[i] = "stored" THEN "revoked" ELSE calls[i]]
    /\ UNCHANGED <<status, setup, starting, looks, waiting, bounds>>

\* A platform admin deactivates the member or the tenant (and not the contrary): the token
\* keeps its claims, and the phone is told by no one.
Deactivate ==
    /\ session # None /\ session' = [session EXCEPT !.barred = TRUE]
    /\ UNCHANGED <<calls, status, setup, starting, looks, waiting, bounds>>

\* The auth client's own refresh: the end of the session, or a new token, which
\* custom_access_token_hook gives no role and tenant when the vendor is deactivated.
Refresh ==
    /\ session # None /\ Inspect
    /\ \/ Store(None, calls)
       \/ Store([session EXCEPT !.vendor = @ /\ ~session.barred, !.revoked = FALSE], calls)
    /\ UNCHANGED <<status, setup, starting, waiting, bounds>>

\* A chunk of the stored session is missing: getItem returns nothing and nobody is told.
StorageLost ==
    /\ session # None /\ Store(None, calls)
    /\ UNCHANGED <<status, setup, starting, looks, waiting, bounds>>

Next ==
    \/ Start \/ InitialEvent \/ InitialUrl \/ LinkOpened \/ LinkAccepted \/ LinkRefused
    \/ SignIn \/ SignInFails \/ SignInSucceeds \/ SignOut
    \/ UpdatePassword \/ UpdateEnds \/ LeaveSetup
    \/ Use \/ Revoke \/ Deactivate \/ Refresh \/ StorageLost
    \/ \E l \in BagToSet(looks) : ReadClaims(l) \/ Deliver(l) \/ Close(l)
    \/ \E i \in DOMAIN calls : CallEnds(i)

\* What was started ends; nothing is assumed of the vendor or of the connection.
Fairness ==
    /\ WF_vars(InitialEvent) /\ WF_vars(InitialUrl)
    /\ WF_vars(\E l \in BagToSet(looks) : ReadClaims(l) \/ Deliver(l) \/ Close(l))
    /\ WF_vars(\E i \in DOMAIN calls : CallEnds(i))

Spec == Init /\ [][Next]_vars /\ Fairness
-----------------------------------------------------------------------------
\* FR-V-001: whoever goes on using the app after the session is gone or its token no longer
\* accepted, whichever late inspection let them in again, is asked to sign in.  A vendor who
\* is only deactivated is answered 403 and stays in the app until the token is refreshed.
Lost == status = "authenticated" /\ (session = None \/ session.revoked)

LostSessionEnds == []<><<Use>>_vars => (Lost ~> ~Lost)
=============================================================================
