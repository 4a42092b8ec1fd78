----------------------------- MODULE Onboarding -----------------------------
(***************************************************************************)
(* From a tenant application to an account that can sign in.               *)
(*                                                                         *)
(* The public submits applications; platform admins approve or reject      *)
(* them, or create a tenant or a member without one.  An approval invites  *)
(* the applicant at the identity provider, which is outside the database   *)
(* transaction: when a later statement fails the handler asks the provider *)
(* to delete the account again, but nobody does when the commit fails, the *)
(* process dies or the answer to the invitation is lost.                   *)
(***************************************************************************)
EXTENDS Integers, FiniteSets

CONSTANTS
    Submissions,  \* POST /tenant-applications; an application is named after its own
    Reviews,      \* requests of admins; a new account is named after its own
    Emails,
    MaxFaults,    \* bound on the failures that nobody compensates
    None

NoId == "no id"

\* tenant_application_review_state_check: exactly the approved have an owner.
Application ==
    {a \in [email : Emails, status : {"pending", "approved", "rejected"},
            owner : Reviews \union {None}] : (a.status = "approved") <=> (a.owner # None)}

ASSUME OnboardingAssumption ==
    /\ MaxFaults \in Nat
    /\ None \notin Submissions \union Reviews \union Emails \union Application
    /\ NoId \notin Submissions \union {None}

VARIABLES
    app,      \* committed application of each submission, or None
    account,  \* the provider's account of each e-mail address
    member,   \* accounts with a committed users row and tenant
    lock,     \* holder of the row lock of each application
    sub,      \* what each submission is at: [at, email, reply]
    rev,      \* what each admin request is at: [at, app, email]
    faults

vars == <<app, account, member, lock, sub, rev, faults>>

SubStep == {"idle", "find", "insert", "again", "commit", "done"}
RevStep == {"idle", "lock", "invite", "rows", "update", "undo", "reject",
            "commit approval", "commit rejection", "commit member", "done"}

TypeOK ==
    /\ app \in [Submissions -> Application \union {None}]
    /\ account \in [Emails -> Reviews \union {None}]
    /\ member \subseteq Reviews
    /\ lock \in [Submissions -> Reviews \union {None}]
    /\ sub \in [Submissions -> [at : SubStep, email : Emails \union {None},
                                reply : Submissions \union {None, NoId}]]
    /\ rev \in [Reviews -> [at : RevStep, app : Submissions \union {None},
                            email : Emails \union {None}]]
    /\ faults \in 0 .. MaxFaults

Init ==
    /\ app = [a \in Submissions |-> None]
    /\ account = [e \in Emails |-> None]
    /\ member = {}
    /\ lock = [a \in Submissions |-> None]
    /\ sub = [s \in Submissions |-> [at |-> "idle", email |-> None, reply |-> None]]
    /\ rev = [r \in Reviews |-> [at |-> "idle", app |-> None, email |-> None]]
    /\ faults = 0
-----------------------------------------------------------------------------
(* submit_tenant_application: each statement of the function has a snapshot  *)
(* of its own.                                                               *)

Pending(e) ==
    {a \in Submissions : app[a] # None /\ app[a].status = "pending" /\ app[a].email = e}

Submit(s, e) ==
    /\ sub[s].at = "idle"
    /\ sub' = [sub EXCEPT ![s].at = "find", ![s].email = e]
    /\ UNCHANGED <<app, account, member, lock, rev, faults>>

Answer(s, id) == sub' = [sub EXCEPT ![s].at = "done", ![s].reply = id]

FindPending(s) ==
    /\ sub[s].at = "find"
    /\ IF Pending(sub[s].email) = {}
       THEN sub' = [sub EXCEPT ![s].at = "insert"]
       ELSE \E a \in Pending(sub[s].email) : Answer(s, a)
    /\ UNCHANGED <<app, account, member, lock, rev, faults>>

\* Another's insert for e that is not committed yet.
Inserting(e) == \E u \in Submissions : sub[u].at = "commit" /\ sub[u].email = e

\* A decision about a pending application for e that is not committed yet.
Deciding(e) ==
    \E a \in Pending(e) :
        lock[a] # None /\ rev[lock[a]].at \in {"commit approval", "commit rejection"}

\* Mutant of InsertApplication: nothing is unique.
InsertApplicationAnyway(s) ==
    /\ sub[s].at = "insert"
    /\ sub' = [sub EXCEPT ![s].at = "commit"]
    /\ UNCHANGED <<app, account, member, lock, rev, faults>>

\* Mutant of InsertApplication: a row that is not committed is a conflict too.
InsertApplicationHasty(s) ==
    /\ sub[s].at = "insert"
    /\ sub' = [sub EXCEPT ![s].at =
                 IF Pending(sub[s].email) = {} /\ ~Inserting(sub[s].email)
                 THEN "commit" ELSE "again"]
    /\ UNCHANGED <<app, account, member, lock, rev, faults>>

\* The unique index of pending addresses makes an insert wait for transactions
\* that add or decide one, and raises unique_violation when one is committed.
InsertApplication(s) ==
    /\ sub[s].at = "insert"
    /\ ~Inserting(sub[s].email) /\ ~Deciding(sub[s].email)
    /\ sub' = [sub EXCEPT ![s].at = IF Pending(sub[s].email) = {} THEN "commit" ELSE "again"]
    /\ UNCHANGED <<app, account, member, lock, rev, faults>>

\* The handler of unique_violation: the select may find nothing any more.
FindAgain(s) ==
    /\ sub[s].at = "again"
    /\ IF Pending(sub[s].email) = {}
       THEN Answer(s, NoId)
       ELSE \E a \in Pending(sub[s].email) : Answer(s, a)
    /\ UNCHANGED <<app, account, member, lock, rev, faults>>

CommitSubmission(s) ==
    /\ sub[s].at = "commit"
    /\ app' = [app EXCEPT ![s] = [email |-> sub[s].email, status |-> "pending", owner |-> None]]
    /\ Answer(s, s)
    /\ UNCHANGED <<account, member, lock, rev, faults>>

\* The request fails at any statement, and the transaction is rolled back.
AbortSubmission(s) ==
    /\ sub[s].at \notin {"idle", "done"}
    /\ sub' = [sub EXCEPT ![s].at = "done"]
    /\ UNCHANGED <<app, account, member, lock, rev, faults>>
-----------------------------------------------------------------------------
(* Admins. *)

At(r, step) == rev' = [rev EXCEPT ![r].at = step]

\* The transaction ends, and the request with it.
EndReview(r) ==
    /\ At(r, "done")
    /\ lock' = [a \in Submissions |-> IF lock[a] = r THEN None ELSE lock[a]]

\* An admin decides about an application that the list shows.
Review(r, a, step) ==
    /\ rev[r].at = "idle" /\ app[a] # None
    /\ rev' = [rev EXCEPT ![r] = [at |-> step, app |-> a, email |-> app[a].email]]
    /\ UNCHANGED <<app, account, member, lock, sub, faults>>

\* POST /admin/tenants, or a member for a tenant: no application is involved.
Create(r, e) ==
    /\ rev[r].at = "idle"
    /\ rev' = [rev EXCEPT ![r] = [at |-> "invite", app |-> None, email |-> e]]
    /\ UNCHANGED <<app, account, member, lock, sub, faults>>

\* Mutant of LockApplication: a plain select.
LockApplicationPlain(r) ==
    /\ rev[r].at = "lock"
    /\ IF app[rev[r].app].status = "pending" THEN At(r, "invite") ELSE At(r, "done")
    /\ UNCHANGED <<app, account, member, lock, sub, faults>>

\* select ... for update: it waits, and sees what the other one committed.
\* An approved application is returned as it is, a rejected one is a conflict.
LockApplication(r) ==
    LET a == rev[r].app IN
    /\ rev[r].at = "lock" /\ lock[a] = None
    /\ IF app[a].status = "pending"
       THEN At(r, "invite") /\ lock' = [lock EXCEPT ![a] = r]
       ELSE EndReview(r)
    /\ UNCHANGED <<app, account, member, sub, faults>>

\* update ... where id = $1 and status = 'pending'
RejectPending(r) ==
    LET a == rev[r].app IN
    /\ rev[r].at = "reject" /\ lock[a] = None
    /\ IF app[a].status = "pending"
       THEN At(r, "commit rejection") /\ lock' = [lock EXCEPT ![a] = r]
       ELSE EndReview(r)
    /\ UNCHANGED <<app, account, member, sub, faults>>

\* Mutant of Invite: an address that has an account counts as invited.
InviteReusing(r) ==
    /\ rev[r].at = "invite"
    /\ account' = [account EXCEPT ![rev[r].email] = IF @ = None THEN r ELSE @]
    /\ At(r, "rows")
    /\ UNCHANGED <<app, member, lock, sub, faults>>

\* The provider makes the account, or refuses an address that has one.
Invite(r) ==
    /\ rev[r].at = "invite"
    /\ IF account[rev[r].email] = None
       THEN /\ account' = [account EXCEPT ![rev[r].email] = r]
            /\ At(r, "rows")
            /\ UNCHANGED lock
       ELSE EndReview(r) /\ UNCHANGED account
    /\ UNCHANGED <<app, member, sub, faults>>

\* The invitation fails, and the handler cannot know whether it was received.
InviteUnanswered(r) ==
    /\ rev[r].at = "invite" /\ faults < MaxFaults
    /\ faults' = faults + 1
    /\ \/ UNCHANGED account
       \/ /\ account[rev[r].email] = None
          /\ account' = [account EXCEPT ![rev[r].email] = r]
    /\ EndReview(r)
    /\ UNCHANGED <<app, member, sub>>

\* The inserts into tenants and users, or the exception one of them raises.
InsertRows(r) ==
    /\ rev[r].at = "rows"
    /\ At(r, IF rev[r].app = None THEN "commit member" ELSE "update") \/ At(r, "undo")
    /\ UNCHANGED <<app, account, member, lock, sub, faults>>

\* Mutant of MarkApproved: only the inserts are compensated.
MarkApprovedBare(r) ==
    /\ rev[r].at = "update"
    /\ \/ At(r, "commit approval") /\ UNCHANGED lock
       \/ EndReview(r)
    /\ UNCHANGED <<app, account, member, sub, faults>>

\* The update of the application, which does not look at its status again.
MarkApproved(r) ==
    /\ rev[r].at = "update"
    /\ At(r, "commit approval") \/ At(r, "undo")
    /\ UNCHANGED <<app, account, member, lock, sub, faults>>

\* The compensation: the provider deletes the account, or fails to.
Undo(r) ==
    /\ rev[r].at = "undo"
    /\ \/ account' = [account EXCEPT ![rev[r].email] = None] /\ UNCHANGED faults
       \/ faults < MaxFaults /\ faults' = faults + 1 /\ UNCHANGED account
    /\ EndReview(r)
    /\ UNCHANGED <<app, member, sub>>

Decided(r) ==
    [app[rev[r].app] EXCEPT
        !.status = IF rev[r].at = "commit approval" THEN "approved" ELSE "rejected",
        !.owner = IF rev[r].at = "commit approval" THEN r ELSE None]

CommitReview(r) ==
    /\ rev[r].at \in {"commit approval", "commit rejection", "commit member"}
    /\ app' = IF rev[r].app = None THEN app ELSE [app EXCEPT ![rev[r].app] = Decided(r)]
    /\ member' = IF rev[r].at = "commit rejection" THEN member ELSE member \union {r}
    /\ EndReview(r)
    /\ UNCHANGED <<account, sub, faults>>

\* The process dies, or the commit fails: rollback, and no compensation.
Crash(r) ==
    /\ rev[r].at \notin {"idle", "done"} /\ faults < MaxFaults
    /\ faults' = faults + 1
    /\ EndReview(r)
    /\ UNCHANGED <<app, account, member, sub>>

Quiet ==
    /\ \A s \in Submissions : sub[s].at = "done"
    /\ \A r \in Reviews : rev[r].at = "done"
    /\ UNCHANGED vars

Submitting(s) ==
    \/ FindPending(s)
    \/ InsertApplication(s)
    \/ FindAgain(s)
    \/ CommitSubmission(s)
    \/ AbortSubmission(s)

Reviewing(r) ==
    \/ LockApplication(r)
    \/ RejectPending(r)
    \/ Invite(r)
    \/ InviteUnanswered(r)
    \/ InsertRows(r)
    \/ MarkApproved(r)
    \/ Undo(r)
    \/ CommitReview(r)
    \/ Crash(r)

Next ==
    \/ \E s \in Submissions : Submitting(s) \/ \E e \in Emails : Submit(s, e)
    \/ \E r \in Reviews :
         \/ Reviewing(r)
         \/ \E a \in Submissions : Review(r, a, "lock") \/ Review(r, a, "reject")
         \/ \E e \in Emails : Create(r, e)
    \/ Quiet

Spec == Init /\ [][Next]_vars
-----------------------------------------------------------------------------
\* Repeated submissions of an address, even at once, leave one application to
\* review.
OnePendingPerEmail == \A e \in Emails : Cardinality(Pending(e)) <= 1

\* Admins who approve and reject an application at once do not undo each
\* other's decision, although the approval talks to the provider in between.
DecisionIsFinal ==
    [][\A a \in Submissions :
          app[a] # None /\ app[a].status # "pending" => app'[a] = app[a]]_app

\* The owner of an approved application has an account and a profile: no
\* failing approval or creation takes them away.
ApprovedOwnerSignsIn ==
    \A a \in Submissions :
        app[a] # None /\ app[a].status = "approved" =>
            app[a].owner \in member /\ account[app[a].email] = app[a].owner

Orphan(e) == account[e] \in Reviews \ member /\ rev[account[e]].at = "done"

\* A request that fails leaves no account behind, except one for each failure
\* that the handler cannot notice or compensate.
OrphansArePaidFor == Cardinality({e \in Emails : Orphan(e)}) <= faults

\* A submission is answered with an application of its address that is
\* committed; the function returns no id only after somebody decided about one.
AnswerIsTrue ==
    \A s \in Submissions :
        LET own(a) == app[a] # None /\ app[a].email = sub[s].email IN
        /\ sub[s].reply \in Submissions => own(sub[s].reply)
        /\ sub[s].reply = NoId => \E a \in Submissions : own(a) /\ app[a].status # "pending"
=============================================================================
