-------------------------- MODULE OnboardingProofs --------------------------
(***************************************************************************)
(* Decisions about applications are final and owners keep their accounts,  *)
(* for any sets of submissions, admin requests and addresses.              *)
(***************************************************************************)
EXTENDS Onboarding, FiniteSetTheorems, TLAPS

\* Statements at which an approval or rejection holds the row it decides about.
Holding == {"invite", "rows", "update", "undo", "commit approval", "commit rejection"}

\* Statements at which the account of a request is its own.
Invited == {"rows", "update", "undo", "commit approval", "commit member"}

\* A submission has no application before it is answered.
Fresh(s) == sub[s].at # "done" => app[s] = None

\* What an admin request knows: the application it names, unchanged while it
\* holds the row, and the account it asked for.
Knows(r) ==
    /\ rev[r].app # None => rev[r].app \in Submissions
                            /\ app[rev[r].app] # None
                            /\ app[rev[r].app].email = rev[r].email
    /\ rev[r].at \notin {"idle", "done"} => rev[r].email \in Emails
    /\ rev[r].at \in {"lock", "reject", "update", "commit approval", "commit rejection"}
         => rev[r].app # None
    /\ rev[r].at \in {"idle", "commit member"} => rev[r].app = None
    /\ rev[r].at \in Holding /\ rev[r].app # None =>
         lock[rev[r].app] = r /\ app[rev[r].app].status = "pending"
    /\ rev[r].at \in Invited => account[rev[r].email] = r
    /\ r \in member => rev[r].at = "done"

\* No two requests decide about one application, and no account is taken from
\* the owner of an approved one.
Inv ==
    /\ TypeOK
    /\ \A s \in Submissions :
          Fresh(s) /\ (sub[s].at \notin {"idle", "done"} => sub[s].email \in Emails)
    /\ \A r \in Reviews : Knows(r)
    /\ ApprovedOwnerSignsIn

-----------------------------------------------------------------------------
Sub == [at : SubStep, email : Emails \union {None}, reply : Submissions \union {None, NoId}]
Rev == [at : RevStep, app : Submissions \union {None}, email : Emails \union {None}]

LEMMA InitInv == Init => Inv
  <1> SUFFICES ASSUME Init PROVE Inv
    OBVIOUS
  <1>1. sub \in [Submissions -> Sub]
    BY DEF Init, Sub, SubStep
  <1>2. rev \in [Reviews -> Rev]
    BY DEF Init, Rev, RevStep
  <1>3. TypeOK
    BY <1>1, <1>2, OnboardingAssumption DEF Init, TypeOK, Sub, Rev
  <1>4. \A s \in Submissions :
          Fresh(s) /\ (sub[s].at \notin {"idle", "done"} => sub[s].email \in Emails)
    BY DEF Init, Fresh
  <1>5. \A r \in Reviews : Knows(r)
    BY DEF Init, Knows, Holding, Invited
  <1>6. ApprovedOwnerSignsIn
    BY DEF Init, ApprovedOwnerSignsIn
  <1> QED
    BY <1>3, <1>4, <1>5, <1>6 DEF Inv

\* Where another request's row, account and application are left alone, it
\* knows what it knew.
LEMMA OthersKnow ==
    ASSUME NEW q \in Reviews, Knows(q), rev'[q] = rev[q], q \in member' => q \in member,
           \A a \in Submissions : lock[a] = q => lock'[a] = q,
           \A e \in Emails : account[e] = q => account'[e] = q,
           \A a \in Submissions : app[a] # None =>
              /\ app'[a] # None /\ app'[a].email = app[a].email
              /\ lock[a] = q => app'[a] = app[a]
    PROVE  Knows(q)'
  <1>1. rev[q].at \in Invited => rev[q].email \in Emails
    BY DEF Knows, Invited
  <1>2. rev[q].at \in Holding /\ rev[q].app # None => rev[q].app \in Submissions
    BY DEF Knows
  <1> QED
    BY <1>1, <1>2 DEF Knows

-----------------------------------------------------------------------------
(* Submissions. *)

\* What DecisionIsFinal asks of a step.
Final == \A a \in Submissions : app[a] # None /\ app[a].status # "pending" => app'[a] = app[a]

\* A submission that has not been answered stays typed and fresh when it moves.
SubMoves(s) ==
    /\ sub[s].at # "done"
    /\ sub' \in [Submissions -> Sub]
    /\ sub'[s].at \notin {"idle", "done"} => sub'[s].email \in Emails
    /\ \A u \in Submissions \ {s} : sub'[u] = sub[u]

LEMMA SubMoved ==
    ASSUME NEW s \in Submissions, TypeOK, sub[s].at # "done",
           NEW x \in Sub, sub' = [sub EXCEPT ![s] = x],
           x.at \notin {"idle", "done"} => x.email \in Emails
    PROVE  SubMoves(s)
  BY DEF SubMoves, TypeOK, Sub

LEMMA SubMovesInv ==
    ASSUME Inv, NEW s \in Submissions, SubMoves(s),
           UNCHANGED <<app, account, member, lock, rev, faults>>
    PROVE  Inv' /\ Final
  <1>1. TypeOK'
    BY DEF Inv, TypeOK, SubMoves, Sub
  <1>2. \A u \in Submissions :
          Fresh(u)' /\ (sub'[u].at \notin {"idle", "done"} => sub'[u].email \in Emails)
    BY DEF Inv, Fresh, SubMoves
  <1>3. \A r \in Reviews : Knows(r)'
    BY DEF Inv, Knows
  <1>4. ApprovedOwnerSignsIn'
    BY DEF Inv, ApprovedOwnerSignsIn
  <1> QED
    BY <1>1, <1>2, <1>3, <1>4 DEF Inv, Final

\* Each statement of a submission but its commit only moves it on.
LEMMA SubmissionMoves ==
    ASSUME Inv, NEW s \in Submissions,
           \/ \E e \in Emails : Submit(s, e)
           \/ FindPending(s)
           \/ InsertApplication(s)
           \/ FindAgain(s)
           \/ AbortSubmission(s)
    PROVE  SubMoves(s) /\ UNCHANGED <<app, account, member, lock, rev, faults>>
  <1> USE DEF Inv
  <1>0. sub[s] \in Sub /\ sub \in [Submissions -> Sub]
    BY DEF TypeOK, Sub
  <1>a. \A id \in Submissions \union {NoId} : sub[s].at # "done" /\ Answer(s, id) => SubMoves(s)
    <2> SUFFICES ASSUME NEW id \in Submissions \union {NoId}, sub[s].at # "done", Answer(s, id)
                 PROVE  SubMoves(s)
      OBVIOUS
    <2> DEFINE x == [sub[s] EXCEPT !.at = "done", !.reply = id]
    <2>1. x \in Sub /\ x.at = "done"
      BY <1>0 DEF Sub, SubStep
    <2>2. sub' = [sub EXCEPT ![s] = x]
      BY <1>0 DEF Answer
    <2> QED
      BY <2>1, <2>2, SubMoved
  <1>b. \A to \in SubStep \ {"idle"} :
          sub[s].at \notin {"idle", "done"} /\ sub' = [sub EXCEPT ![s].at = to] => SubMoves(s)
    <2> SUFFICES ASSUME NEW to \in SubStep \ {"idle"}, sub[s].at \notin {"idle", "done"},
                        sub' = [sub EXCEPT ![s].at = to]
                 PROVE  SubMoves(s)
      OBVIOUS
    <2> DEFINE x == [sub[s] EXCEPT !.at = to]
    <2>1. x \in Sub /\ x.email = sub[s].email
      BY <1>0 DEF Sub
    <2>2. sub' = [sub EXCEPT ![s] = x]
      BY <1>0
    <2> QED
      BY <2>1, <2>2, SubMoved
  <1>1. ASSUME NEW e \in Emails, Submit(s, e) PROVE SubMoves(s)
    <2> DEFINE x == [sub[s] EXCEPT !.at = "find", !.email = e]
    <2>1. x \in Sub /\ x.email \in Emails
      BY <1>0 DEF Sub, SubStep
    <2>2. sub' = [sub EXCEPT ![s] = x] /\ sub[s].at # "done"
      BY <1>0, <1>1 DEF Submit
    <2> QED
      BY <2>1, <2>2, SubMoved
  <1>2. CASE FindPending(s)
    BY <1>2, <1>a, <1>b DEF FindPending, Pending, SubStep
  <1>3. CASE InsertApplication(s)
    <2>1. \E to \in {"commit", "again"} : sub' = [sub EXCEPT ![s].at = to]
      BY <1>3 DEF InsertApplication
    <2> QED
      BY <1>3, <1>b, <2>1 DEF InsertApplication, SubStep
  <1>4. CASE FindAgain(s)
    BY <1>4, <1>a DEF FindAgain, Pending
  <1>5. CASE AbortSubmission(s)
    BY <1>5, <1>b DEF AbortSubmission, SubStep
  <1> QED
    BY <1>1, <1>2, <1>3, <1>4, <1>5
       DEF Submit, FindPending, InsertApplication, FindAgain, AbortSubmission

LEMMA CommitSubmissionInv ==
    ASSUME Inv, NEW s \in Submissions, CommitSubmission(s)
    PROVE  Inv' /\ Final
  <1> DEFINE new == [email |-> sub[s].email, status |-> "pending", owner |-> None]
  <1> DEFINE x == [sub[s] EXCEPT !.at = "done", !.reply = s]
  <1>0. app[s] = None /\ new \in Application /\ app' = [app EXCEPT ![s] = new]
    BY DEF Inv, Fresh, CommitSubmission, Application
  <1>1. sub[s] \in Sub /\ sub \in [Submissions -> Sub]
    BY DEF Inv, TypeOK, Sub
  <1>2. x \in Sub /\ x.at = "done" /\ sub' = [sub EXCEPT ![s] = x]
    BY <1>1 DEF CommitSubmission, Answer, Sub, SubStep
  <1>3. TypeOK'
    <2>1. sub' \in [Submissions -> Sub]
      BY <1>1, <1>2
    <2>2. app' \in [Submissions -> Application \union {None}]
      BY <1>0 DEF Inv, TypeOK
    <2> QED
      BY <2>1, <2>2 DEF Inv, TypeOK, CommitSubmission, Sub
  <1>4. \A u \in Submissions :
          Fresh(u)' /\ (sub'[u].at \notin {"idle", "done"} => sub'[u].email \in Emails)
    BY <1>0, <1>1, <1>2 DEF Inv, Fresh, TypeOK
  <1>5. \A r \in Reviews : Knows(r)'
    <2>1. \A a \in Submissions : app[a] # None => app'[a] = app[a]
      BY <1>0 DEF Inv, TypeOK
    <2> QED
      BY <2>1, OthersKnow DEF Inv, CommitSubmission
  <1>6. ApprovedOwnerSignsIn'
    BY <1>0 DEF Inv, ApprovedOwnerSignsIn, CommitSubmission, TypeOK
  <1>7. Final
    BY <1>0 DEF Final, Inv, TypeOK
  <1> QED
    BY <1>3, <1>4, <1>5, <1>6, <1>7 DEF Inv

-----------------------------------------------------------------------------
(* Admin requests. *)

\* A request that moves on by itself: the others keep what they know.
RevMoves(r) ==
    /\ rev' \in [Reviews -> Rev]
    /\ \A q \in Reviews \ {r} : rev'[q] = rev[q]
    /\ UNCHANGED sub

LEMMA RevMoved ==
    ASSUME NEW r \in Reviews, TypeOK, NEW x \in Rev, rev' = [rev EXCEPT ![r] = x], UNCHANGED sub
    PROVE  RevMoves(r) /\ rev'[r] = x
  BY DEF RevMoves, TypeOK, Rev

\* One step of a request, whatever it does to the row it holds, to its own
\* account and to its own membership.
LEMMA RevMovesInv ==
    ASSUME Inv, NEW r \in Reviews, RevMoves(r), Knows(r)',
           app' \in [Submissions -> Application \union {None}],
           account' \in [Emails -> Reviews \union {None}],
           lock' \in [Submissions -> Reviews \union {None}],
           faults' \in 0 .. MaxFaults,
           member' = member \/ member' = member \union {r},
           \A a \in Submissions : lock'[a] # lock[a] => lock[a] \in {r, None},
           \A e \in Emails : account'[e] # account[e] => account[e] \in {r, None},
           rev[r].at # "done",
           \A a \in Submissions : app'[a] # app[a] =>
              /\ lock[a] = r /\ app[a] # None /\ app[a].status = "pending"
              /\ app'[a] # None /\ app'[a].email = app[a].email
              /\ app'[a].status = "approved" =>
                    r \in member' /\ app'[a].owner = r /\ account'[app[a].email] = r
    PROVE  Inv' /\ Final
  <1>1. TypeOK'
    BY DEF Inv, TypeOK, RevMoves, Rev, Sub
  <1>2. \A u \in Submissions :
          Fresh(u)' /\ (sub'[u].at \notin {"idle", "done"} => sub'[u].email \in Emails)
    BY DEF Inv, Fresh, RevMoves
  <1>3. \A q \in Reviews : Knows(q)'
    <2> SUFFICES ASSUME NEW q \in Reviews, q # r PROVE Knows(q)'
      OBVIOUS
    <2>1. q # None
      BY OnboardingAssumption
    <2> QED
      BY <2>1, OthersKnow DEF Inv, RevMoves
  <1>4. ApprovedOwnerSignsIn'
    <2> SUFFICES ASSUME NEW a \in Submissions, app'[a] # None, app'[a].status = "approved"
                 PROVE  app'[a].owner \in member' /\ account'[app'[a].email] = app'[a].owner
      BY DEF ApprovedOwnerSignsIn
    <2>1. CASE app'[a] # app[a]
      BY <2>1
    <2>2. CASE app'[a] = app[a]
      <3>1. /\ app[a].owner \in member /\ app[a].email \in Emails
            /\ account[app[a].email] = app[a].owner
        BY <2>2 DEF Inv, ApprovedOwnerSignsIn, TypeOK, Application
      <3>2. r \notin member /\ r # None
        BY OnboardingAssumption DEF Inv, Knows
      <3>3. app[a].owner # None
        BY <3>1, OnboardingAssumption DEF Inv, TypeOK
      <3> QED
        BY <2>2, <3>1, <3>2, <3>3
    <2> QED
      BY <2>1, <2>2
  <1>5. Final
    BY DEF Final, Inv
  <1> QED
    BY <1>1, <1>2, <1>3, <1>4, <1>5 DEF Inv

LEMMA AtMoves ==
    ASSUME TypeOK, NEW r \in Reviews, NEW step \in RevStep, At(r, step), UNCHANGED sub
    PROVE  /\ RevMoves(r) /\ rev'[r].at = step
           /\ rev'[r].app = rev[r].app /\ rev'[r].email = rev[r].email
  <1> DEFINE x == [rev[r] EXCEPT !.at = step]
  <1>1. rev[r] \in Rev
    BY DEF TypeOK, Rev
  <1>2. x \in Rev /\ x.at = step /\ x.app = rev[r].app /\ x.email = rev[r].email
    BY <1>1 DEF Rev
  <1>3. rev' = [rev EXCEPT ![r] = x]
    BY DEF At, TypeOK
  <1> QED
    BY <1>2, <1>3, RevMoved

LEMMA EndMoves ==
    ASSUME TypeOK, NEW r \in Reviews, EndReview(r), UNCHANGED sub
    PROVE  /\ RevMoves(r) /\ rev'[r].at = "done"
           /\ rev'[r].app = rev[r].app /\ rev'[r].email = rev[r].email
           /\ lock' \in [Submissions -> Reviews \union {None}]
           /\ \A a \in Submissions : lock'[a] # lock[a] => lock[a] = r
  BY AtMoves DEF EndReview, TypeOK, RevStep

\* A request that ends without touching an application, and perhaps gives up or
\* keeps its own account.
LEMMA EndInv ==
    ASSUME Inv, NEW r \in Reviews, EndReview(r), rev[r].at \notin {"idle", "done"},
           UNCHANGED <<app, member, sub>>, faults' \in 0 .. MaxFaults,
           account' \in [Emails -> Reviews \union {None}],
           \A e \in Emails : account'[e] # account[e] => account[e] \in {r, None}
    PROVE  Inv' /\ Final
  <1>0. Knows(r)
    BY DEF Inv
  <1>1. Knows(r)'
    BY <1>0, EndMoves DEF Inv, Knows, Holding, Invited
  <1> QED
    BY <1>1, EndMoves, RevMovesInv DEF Inv, TypeOK

LEMMA ReviewInv ==
    ASSUME Inv, NEW r \in Reviews, NEW a \in Submissions, NEW step \in {"lock", "reject"},
           Review(r, a, step)
    PROVE  Inv' /\ Final
  <1> DEFINE x == [at |-> step, app |-> a, email |-> app[a].email]
  <1>1. app[a] # None /\ app[a].email \in Emails
    BY DEF Review, Inv, TypeOK, Application
  <1>2. x \in Rev
    BY <1>1 DEF Rev, RevStep
  <1>3. RevMoves(r) /\ rev'[r] = x
    BY <1>2, RevMoved DEF Review, Inv
  <1>0. Knows(r)
    BY DEF Inv
  <1>4. Knows(r)'
    <2>1. r \notin member' /\ app' = app
      BY <1>0 DEF Knows, Review
    <2>2. rev'[r].at = step /\ rev'[r].app = a /\ rev'[r].email = app[a].email
      BY <1>3
    <2>3. rev'[r].app \in Submissions /\ app'[a] # None /\ app'[a].email = rev'[r].email
      BY <1>1, <2>1, <2>2
    <2>4. /\ rev'[r].at \notin Holding \union Invited \union {"idle"}
          /\ a # None /\ rev'[r].email \in Emails
      BY <1>1, <2>2, OnboardingAssumption DEF Holding, Invited
    <2> QED
      BY <2>1, <2>2, <2>3, <2>4 DEF Knows
  <1> QED
    BY <1>3, <1>4, RevMovesInv DEF Review, Inv, TypeOK

LEMMA CreateInv ==
    ASSUME Inv, NEW r \in Reviews, NEW e \in Emails, Create(r, e)
    PROVE  Inv' /\ Final
  <1> DEFINE x == [at |-> "invite", app |-> None, email |-> e]
  <1>1. x \in Rev
    BY DEF Rev, RevStep
  <1>2. RevMoves(r) /\ rev'[r] = x
    BY <1>1, RevMoved DEF Create, Inv
  <1>0. Knows(r)
    BY DEF Inv
  <1>a. rev'[r].at = "invite" /\ rev'[r].app = None /\ rev'[r].email = e
    BY <1>2
  <1>b. r \notin member' /\ e \in Emails
    BY <1>0 DEF Knows, Create
  <1>3. Knows(r)'
    BY <1>a, <1>b DEF Knows, Holding, Invited
  <1> QED
    BY <1>2, <1>3, RevMovesInv DEF Create, Inv, TypeOK

\* LockApplication and RejectPending take the free row of a pending application.
LEMMA TakeRowInv ==
    ASSUME Inv, NEW r \in Reviews, NEW step \in {"invite", "commit rejection"},
           rev[r].at \in {"lock", "reject"}, lock[rev[r].app] = None,
           app[rev[r].app].status = "pending",
           At(r, step), lock' = [lock EXCEPT ![rev[r].app] = r],
           UNCHANGED <<app, account, member, sub, faults>>
    PROVE  Inv' /\ Final
  <1>1. rev[r].app \in Submissions /\ app[rev[r].app] # None
    BY DEF Inv, Knows
  <1>2. RevMoves(r) /\ rev'[r].at = step /\ rev'[r].app = rev[r].app /\ rev'[r].email = rev[r].email
    BY AtMoves DEF Inv, RevStep
  <1>3. lock' \in [Submissions -> Reviews \union {None}] /\ lock'[rev[r].app] = r
    BY <1>1 DEF Inv, TypeOK
  <1>4. Knows(r)'
    <2>1. Knows(r)
      BY DEF Inv
    <2> QED
      BY <1>1, <1>2, <1>3, <2>1 DEF Knows, Holding, Invited
  <1>5. \A a \in Submissions : lock'[a] # lock[a] => lock[a] = None
    BY <1>1 DEF Inv, TypeOK
  <1> QED
    BY <1>2, <1>3, <1>4, <1>5, RevMovesInv DEF Inv, TypeOK

LEMMA InviteInv ==
    ASSUME Inv, NEW r \in Reviews, Invite(r)
    PROVE  Inv' /\ Final
  <1>1. rev[r].email \in Emails
    BY DEF Inv, Knows, Invite
  <1>2. CASE account[rev[r].email] = None
    <2>1. /\ RevMoves(r) /\ rev'[r].at = "rows"
          /\ rev'[r].app = rev[r].app /\ rev'[r].email = rev[r].email
      BY <1>2, AtMoves DEF Inv, RevStep, Invite
    <2>2. /\ account' \in [Emails -> Reviews \union {None}]
          /\ account'[rev[r].email] = r
          /\ \A e \in Emails : account'[e] # account[e] => account[e] = None
      BY <1>1, <1>2 DEF Inv, TypeOK, Invite
    <2>3. Knows(r)'
      <3>1. Knows(r)
        BY DEF Inv
      <3> QED
        BY <1>2, <2>1, <2>2, <3>1 DEF Knows, Holding, Invited, Invite
    <2> QED
      BY <1>2, <2>1, <2>2, <2>3, RevMovesInv DEF Inv, TypeOK, Invite
  <1>3. CASE account[rev[r].email] # None
    BY <1>3, EndInv DEF Invite, Inv, TypeOK
  <1> QED
    BY <1>2, <1>3

\* A request moves to its next statement with its row and its account.
LEMMA StepInv ==
    ASSUME Inv, NEW r \in Reviews,
           NEW step \in {"update", "undo", "commit approval", "commit member"},
           rev[r].at \in {"rows", "update"}, At(r, step),
           step \in {"update", "commit approval"} => rev[r].app # None,
           step = "commit member" => rev[r].app = None,
           UNCHANGED <<app, account, member, lock, sub, faults>>
    PROVE  Inv' /\ Final
  <1>1. RevMoves(r) /\ rev'[r].at = step /\ rev'[r].app = rev[r].app /\ rev'[r].email = rev[r].email
    BY AtMoves DEF Inv, RevStep
  <1>2. Knows(r)'
    <2>1. Knows(r)
      BY DEF Inv
    <2> QED
      BY <1>1, <2>1 DEF Knows, Holding, Invited
  <1> QED
    BY <1>1, <1>2, RevMovesInv DEF Inv, TypeOK

LEMMA CommitReviewInv ==
    ASSUME Inv, NEW r \in Reviews, CommitReview(r)
    PROVE  Inv' /\ Final
  <1> DEFINE a == rev[r].app
  <1>0. Knows(r) /\ TypeOK
    BY DEF Inv
  <1>1. /\ RevMoves(r) /\ rev'[r].at = "done" /\ rev'[r].app = a /\ rev'[r].email = rev[r].email
        /\ lock' \in [Submissions -> Reviews \union {None}]
        /\ \A b \in Submissions : lock'[b] # lock[b] => lock[b] = r
    BY <1>0, EndMoves DEF CommitReview
  <1>2. CASE a = None
    <2>1. Knows(r)'
      BY <1>1, <1>2 DEF Knows, Holding, Invited
    <2> QED
      BY <1>0, <1>1, <1>2, <2>1, RevMovesInv DEF CommitReview, TypeOK
  <1>3. CASE a # None
    <2>1. /\ a \in Submissions /\ app[a] # None /\ app[a] \in Application
          /\ app[a].email = rev[r].email /\ app[a].status = "pending" /\ lock[a] = r
      BY <1>0, <1>3 DEF Knows, Holding, CommitReview, TypeOK
    <2>2. /\ Decided(r) \in Application /\ Decided(r).email = app[a].email /\ Decided(r) # None
          /\ Decided(r).status = "approved" =>
                rev[r].at = "commit approval" /\ Decided(r).owner = r
      <3>1. app[a].email \in Emails /\ r # None
        BY <2>1, OnboardingAssumption DEF Application
      <3>2. app[a] \in [email : Emails, status : {"pending", "approved", "rejected"},
                        owner : Reviews \union {None}]
        BY <2>1 DEF Application
      <3>3. /\ Decided(r) \in [email : Emails, status : {"pending", "approved", "rejected"},
                               owner : Reviews \union {None}]
            /\ Decided(r).email = app[a].email
            /\ Decided(r).status = IF rev[r].at = "commit approval" THEN "approved" ELSE "rejected"
            /\ Decided(r).owner = IF rev[r].at = "commit approval" THEN r ELSE None
        BY <3>1, <3>2 DEF Decided
      <3>4. Decided(r) \in Application
        BY <3>1, <3>3 DEF Application
      <3>5. Decided(r) # None
        BY <3>4, OnboardingAssumption
      <3> QED
        BY <3>3, <3>4, <3>5
    <2>3. /\ app' = [app EXCEPT ![a] = Decided(r)]
          /\ app' \in [Submissions -> Application \union {None}] /\ app'[a] = Decided(r)
      BY <1>0, <1>3, <2>1, <2>2 DEF CommitReview, TypeOK
    <2>4. Knows(r)'
      BY <1>1, <2>1, <2>2, <2>3 DEF Knows, Holding, Invited
    <2>5. rev[r].at = "commit approval" => r \in member' /\ account'[app[a].email] = r
      BY <1>0, <2>1 DEF CommitReview, Knows, Invited
    <2>6. \A b \in Submissions : app'[b] # app[b] => b = a
      BY <1>0, <2>3 DEF TypeOK
    <2> QED
      BY <1>0, <1>1, <2>1, <2>2, <2>3, <2>4, <2>5, <2>6, RevMovesInv DEF CommitReview, TypeOK
  <1> QED
    BY <1>2, <1>3

LEMMA ReviewingInv ==
    ASSUME Inv, NEW r \in Reviews, Reviewing(r)
    PROVE  Inv' /\ Final
  <1>0. TypeOK /\ Knows(r)
    BY DEF Inv
  <1>1. CASE LockApplication(r)
    <2>1. CASE app[rev[r].app].status = "pending"
      BY <1>1, <2>1, TakeRowInv DEF LockApplication
    <2>2. CASE app[rev[r].app].status # "pending"
      BY <1>0, <1>1, <2>2, EndInv DEF LockApplication, TypeOK
    <2> QED
      BY <2>1, <2>2
  <1>2. CASE RejectPending(r)
    <2>1. CASE app[rev[r].app].status = "pending"
      BY <1>2, <2>1, TakeRowInv DEF RejectPending
    <2>2. CASE app[rev[r].app].status # "pending"
      BY <1>0, <1>2, <2>2, EndInv DEF RejectPending, TypeOK
    <2> QED
      BY <2>1, <2>2
  <1>3. CASE Invite(r)
    BY <1>3, InviteInv
  <1>4. CASE InviteUnanswered(r)
    <2>1. faults' \in 0 .. MaxFaults
      BY <1>0, <1>4, OnboardingAssumption DEF InviteUnanswered, TypeOK
    <2>2. /\ account' \in [Emails -> Reviews \union {None}]
          /\ \A e \in Emails : account'[e] # account[e] => account[e] = None
      BY <1>0, <1>4 DEF InviteUnanswered, TypeOK
    <2> QED
      BY <1>4, <2>1, <2>2, EndInv DEF InviteUnanswered
  <1>5. CASE InsertRows(r)
    BY <1>5, StepInv DEF InsertRows
  <1>6. CASE MarkApproved(r)
    BY <1>0, <1>6, StepInv DEF MarkApproved, Knows
  <1>7. CASE Undo(r)
    <2>1. account[rev[r].email] = r /\ rev[r].email \in Emails
      BY <1>0, <1>7 DEF Undo, Knows, Invited
    <2>2. faults' \in 0 .. MaxFaults
      BY <1>0, <1>7, OnboardingAssumption DEF Undo, TypeOK
    <2>3. /\ account' \in [Emails -> Reviews \union {None}]
          /\ \A e \in Emails : account'[e] # account[e] => account[e] = r
      BY <1>0, <1>7, <2>1 DEF Undo, TypeOK
    <2> QED
      BY <1>7, <2>2, <2>3, EndInv DEF Undo
  <1>8. CASE CommitReview(r)
    BY <1>8, CommitReviewInv
  <1>9. CASE Crash(r)
    <2>1. faults' \in 0 .. MaxFaults
      BY <1>0, <1>9, OnboardingAssumption DEF Crash, TypeOK
    <2> QED
      BY <1>0, <1>9, <2>1, EndInv DEF Crash, TypeOK
  <1> QED
    BY <1>1, <1>2, <1>3, <1>4, <1>5, <1>6, <1>7, <1>8, <1>9 DEF Reviewing

LEMMA NextInv == Inv /\ [Next]_vars => Inv' /\ Final
  <1> SUFFICES ASSUME Inv, [Next]_vars PROVE Inv' /\ Final
    OBVIOUS
  <1>1. ASSUME NEW s \in Submissions, Submitting(s) PROVE Inv' /\ Final
    BY <1>1, SubmissionMoves, SubMovesInv, CommitSubmissionInv DEF Submitting
  <1>2. ASSUME NEW s \in Submissions, NEW e \in Emails, Submit(s, e) PROVE Inv' /\ Final
    BY <1>2, SubmissionMoves, SubMovesInv
  <1>3. ASSUME NEW r \in Reviews, Reviewing(r) PROVE Inv' /\ Final
    BY <1>3, ReviewingInv
  <1>4. ASSUME NEW r \in Reviews, NEW a \in Submissions, NEW step \in {"lock", "reject"},
               Review(r, a, step)
        PROVE  Inv' /\ Final
    BY <1>4, ReviewInv
  <1>5. ASSUME NEW r \in Reviews, NEW e \in Emails, Create(r, e) PROVE Inv' /\ Final
    BY <1>5, CreateInv
  <1>6. CASE UNCHANGED vars
    BY <1>6 DEF vars, Inv, TypeOK, Fresh, Knows, ApprovedOwnerSignsIn, Final
  <1> QED
    BY <1>1, <1>2, <1>3, <1>4, <1>5, <1>6 DEF Next, Quiet

-----------------------------------------------------------------------------
LEMMA Invariant == Spec => []Inv
  BY InitInv, NextInv, PTL DEF Spec

\* Applications, accounts and requests are typed, and exactly the approved
\* applications have an owner.
THEOREM OnboardingTyped == Spec => []TypeOK
  <1>1. Inv => TypeOK
    BY DEF Inv
  <1> QED
    BY <1>1, Invariant, PTL

\* The owner of an approved application keeps account and profile, whatever
\* other requests do and wherever they fail.
THEOREM OwnersKeepAccounts == Spec => []ApprovedOwnerSignsIn
  <1>1. Inv => ApprovedOwnerSignsIn
    BY DEF Inv
  <1> QED
    BY <1>1, Invariant, PTL

\* Approvals and rejections that overlap never undo each other's decision.
THEOREM DecisionsStand == Spec => DecisionIsFinal
  <1>1. Inv /\ [Next]_vars => [Final]_app
    BY NextInv
  <1> QED
    BY <1>1, Invariant, PTL DEF Spec, DecisionIsFinal, Final

-----------------------------------------------------------------------------
(* What submissions find and answer. *)

\* A submission commits only while no application of its address is pending, and no
\* other is about to commit one.
OnePending ==
    /\ \A e \in Emails : \A a, b \in Pending(e) : a = b
    /\ \A s \in Submissions, e \in Emails :
          sub[s].at = "commit" /\ sub[s].email = e => Pending(e) = {}
    /\ \A s, u \in Submissions :
          sub[s].at = "commit" /\ sub[u].at = "commit" /\ sub[s].email = sub[u].email => s = u

\* An application of the address of submission s.
Own(s, a) == app[a] # None /\ app[a].email = sub[s].email

\* Only an answer has a reply, and a submission looks again only for an application
\* that there was.
Answers(s) ==
    /\ sub[s].at # "done" => sub[s].reply = None
    /\ sub[s].at = "again" => \E a \in Submissions : Own(s, a)
    /\ sub[s].reply \in Submissions => Own(s, sub[s].reply)
    /\ sub[s].reply = NoId => \E a \in Submissions : Own(s, a) /\ app[a].status # "pending"

SubInv == OnePending /\ \A s \in Submissions : Answers(s)

\* What every step does to applications: none goes, changes its address or is open again.
AppsStay ==
    \A a \in Submissions : app[a] # None =>
        /\ app'[a] # None /\ app'[a].email = app[a].email
        /\ app[a].status # "pending" => app'[a].status # "pending"

\* What a step of an admin request does: it adds no application.
Decides == AppsStay /\ UNCHANGED sub /\ \A a \in Submissions : app[a] = None => app'[a] = None

LEMMA InitSubInv == Init => SubInv
  BY OnboardingAssumption DEF Init, SubInv, OnePending, Answers, Pending

LEMMA DecidesSubInv ==
    ASSUME SubInv, Decides
    PROVE  SubInv'
  <1>1. \A e : Pending(e)' \subseteq Pending(e)
    BY DEF Decides, AppsStay, Pending
  <1>2. OnePending'
    BY <1>1 DEF SubInv, OnePending, Decides
  <1>3. \A s, a \in Submissions : Own(s, a) => Own(s, a)'
    BY DEF Own, Decides, AppsStay
  <1>4. ASSUME NEW s \in Submissions PROVE Answers(s)'
    BY <1>3 DEF SubInv, Answers, Decides, AppsStay, Own
  <1> QED
    BY <1>2, <1>4 DEF SubInv

LEMMA ReviewDecides ==
    ASSUME Inv, NEW r \in Reviews,
           \/ Reviewing(r)
           \/ \E a \in Submissions : Review(r, a, "lock") \/ Review(r, a, "reject")
           \/ \E e \in Emails : Create(r, e)
    PROVE  Decides
  <1>1. CASE CommitReview(r)
    <2>1. Knows(r) /\ TypeOK
      BY DEF Inv
    <2>2. CASE rev[r].app = None
      BY <1>1, <2>2 DEF CommitReview, Decides, AppsStay
    <2>3. CASE rev[r].app # None
      <3> DEFINE a == rev[r].app
      <3>1. a \in Submissions /\ app[a] # None /\ app[a] \in Application
        BY <2>1, <2>3 DEF Knows, TypeOK
      <3>2. app' = [app EXCEPT ![a] = Decided(r)]
        BY <1>1, <2>3 DEF CommitReview
      <3>3. app[a] \in [email : Emails, status : {"pending", "approved", "rejected"},
                        owner : Reviews \union {None}]
        BY <3>1 DEF Application
      <3>4. Decided(r).email = app[a].email /\ Decided(r).status \in {"approved", "rejected"}
        BY <3>3 DEF Decided
      <3>5. Inv' /\ Final
        BY <1>1, CommitReviewInv
      <3>6. app'[a] = Decided(r) /\ \A b \in Submissions \ {a} : app'[b] = app[b]
        BY <2>1, <3>1, <3>2 DEF TypeOK
      <3>7. app'[a] # None
        <4>1. rev'[r].app = a
          BY <1>1, <2>1, EndMoves DEF CommitReview
        <4>2. Knows(r)'
          BY <3>5 DEF Inv
        <4> QED
          BY <2>3, <4>1, <4>2 DEF Knows
      <3> QED
        BY <1>1, <3>1, <3>4, <3>6, <3>7 DEF Decides, AppsStay, CommitReview
    <2> QED
      BY <2>2, <2>3
  <1>2. CASE ~CommitReview(r)
    BY <1>2 DEF Reviewing, Review, Create, LockApplication, RejectPending, Invite,
       InviteUnanswered, InsertRows, MarkApproved, Undo, Crash, Decides, AppsStay
  <1> QED
    BY <1>1, <1>2

\* A submission that moves on by itself, to a step other than its commit.
LEMMA SubStepInv ==
    ASSUME Inv, SubInv, NEW s \in Submissions, SubMoves(s),
           UNCHANGED <<app, account, member, lock, rev, faults>>,
           sub'[s].at # "commit", Answers(s)'
    PROVE  SubInv'
  <1>1. OnePending'
    BY DEF SubInv, OnePending, SubMoves, Pending
  <1>2. \A u \in Submissions : Answers(u)'
    BY DEF SubInv, Answers, Own, SubMoves
  <1> QED
    BY <1>1, <1>2 DEF SubInv

\* The answer to a submission.
LEMMA AnswerGiven ==
    ASSUME TypeOK, NEW s \in Submissions, NEW id, Answer(s, id)
    PROVE  /\ sub'[s].at = "done" /\ sub'[s].reply = id /\ sub'[s].email = sub[s].email
  BY DEF Answer, TypeOK

LEMMA SubMovesOn ==
    ASSUME TypeOK, NEW s \in Submissions, NEW to \in SubStep, sub' = [sub EXCEPT ![s].at = to]
    PROVE  sub'[s].at = to /\ sub'[s].reply = sub[s].reply /\ sub'[s].email = sub[s].email
  BY DEF TypeOK

LEMMA SubmissionSubInv ==
    ASSUME Inv, SubInv, NEW s \in Submissions,
           Submitting(s) \/ \E e \in Emails : Submit(s, e)
    PROVE  SubInv'
  <1>0. TypeOK /\ Answers(s)
    BY DEF Inv, SubInv
  <1>a. (sub[s].reply # NoId /\ sub[s].reply \notin Submissions) \/ sub[s].at = "done"
    BY <1>0, OnboardingAssumption DEF Answers
  <1>1. CASE \E e \in Emails : Submit(s, e)
    <2>0. PICK e \in Emails : Submit(s, e)
      BY <1>1
    <2>a. sub' = [sub EXCEPT ![s] = [sub[s] EXCEPT !.at = "find", !.email = e]]
      BY <1>0, <2>0 DEF Submit, TypeOK
    <2>1. sub'[s].at = "find" /\ sub'[s].reply = sub[s].reply
      BY <1>0, <2>a DEF TypeOK
    <2>2. Answers(s)'
      BY <1>0, <1>1, <1>a, <2>1 DEF Answers, Submit
    <2> QED
      BY <1>1, <2>1, <2>2, SubmissionMoves, SubStepInv
  <1>2. CASE FindPending(s)
    <2>1. SubMoves(s) /\ UNCHANGED <<app, account, member, lock, rev, faults>>
      BY <1>2, SubmissionMoves
    <2>2. CASE Pending(sub[s].email) = {}
      <3>1. sub'[s].at = "insert" /\ sub'[s].reply = sub[s].reply
        BY <1>0, <1>2, <2>2, SubMovesOn DEF FindPending, SubStep
      <3>2. Answers(s)'
        BY <1>0, <1>2, <1>a, <3>1 DEF Answers, FindPending
      <3> QED
        BY <2>1, <3>1, <3>2, SubStepInv
    <2>3. CASE Pending(sub[s].email) # {}
      <3>1. PICK a \in Pending(sub[s].email) : Answer(s, a)
        BY <1>2, <2>3 DEF FindPending
      <3>2. a \in Submissions /\ Own(s, a)
        BY DEF Pending, Own
      <3>3. sub'[s].at = "done" /\ sub'[s].reply = a /\ sub'[s].email = sub[s].email
        BY <1>0, <3>1, AnswerGiven
      <3>4. Answers(s)'
        BY <2>1, <3>2, <3>3, OnboardingAssumption DEF Answers, Own
      <3> QED
        BY <2>1, <3>3, <3>4, SubStepInv
    <2> QED
      BY <2>2, <2>3
  <1>3. CASE InsertApplication(s)
    <2>1. SubMoves(s) /\ UNCHANGED <<app, account, member, lock, rev, faults>>
      BY <1>3, SubmissionMoves
    <2>2. CASE Pending(sub[s].email) # {}
      <3>1. sub'[s].at = "again" /\ sub'[s].reply = sub[s].reply /\ sub'[s].email = sub[s].email
        BY <1>0, <1>3, <2>2, SubMovesOn DEF InsertApplication, SubStep
      <3>2. \E a \in Submissions : Own(s, a)
        BY <2>2 DEF Pending, Own
      <3>3. Answers(s)'
        BY <1>0, <1>3, <1>a, <2>1, <3>1, <3>2 DEF Answers, Own, InsertApplication
      <3> QED
        BY <2>1, <3>1, <3>3, SubStepInv
    <2>3. CASE Pending(sub[s].email) = {}
      <3>1. sub'[s].at = "commit" /\ sub'[s].reply = sub[s].reply /\ sub'[s].email = sub[s].email
        BY <1>0, <1>3, <2>3, SubMovesOn DEF InsertApplication, SubStep
      <3>2. \A u \in Submissions \ {s} : sub'[u] = sub[u]
        BY <2>1 DEF SubMoves
      <3>3. \A u \in Submissions : ~(sub[u].at = "commit" /\ sub[u].email = sub[s].email)
        BY <1>3 DEF InsertApplication, Inserting
      <3>4. OnePending'
        BY <2>1, <2>3, <3>1, <3>2, <3>3 DEF SubInv, OnePending, Pending
      <3>5. Answers(s)'
        BY <1>0, <1>3, <1>a, <3>1 DEF Answers, InsertApplication
      <3>6. \A u \in Submissions \ {s} : Answers(u)'
        BY <2>1, <3>2 DEF SubInv, Answers, Own
      <3> QED
        BY <3>4, <3>5, <3>6 DEF SubInv
    <2> QED
      BY <2>2, <2>3
  <1>4. CASE FindAgain(s)
    <2>1. SubMoves(s) /\ UNCHANGED <<app, account, member, lock, rev, faults>>
      BY <1>4, SubmissionMoves
    <2>2. CASE Pending(sub[s].email) = {}
      <3>1. PICK a \in Submissions : Own(s, a)
        BY <1>0, <1>4 DEF Answers, FindAgain
      <3>2. app[a].status # "pending"
        BY <2>2, <3>1 DEF Pending, Own
      <3>3. sub'[s].at = "done" /\ sub'[s].reply = NoId /\ sub'[s].email = sub[s].email
        BY <1>0, <1>4, <2>2, AnswerGiven DEF FindAgain
      <3>4. Answers(s)'
        BY <2>1, <3>1, <3>2, <3>3, OnboardingAssumption DEF Answers, Own
      <3> QED
        BY <2>1, <3>3, <3>4, SubStepInv
    <2>3. CASE Pending(sub[s].email) # {}
      <3>1. PICK a \in Pending(sub[s].email) : Answer(s, a)
        BY <1>4, <2>3 DEF FindAgain
      <3>2. a \in Submissions /\ Own(s, a)
        BY DEF Pending, Own
      <3>3. sub'[s].at = "done" /\ sub'[s].reply = a /\ sub'[s].email = sub[s].email
        BY <1>0, <3>1, AnswerGiven
      <3>4. Answers(s)'
        BY <2>1, <3>2, <3>3, OnboardingAssumption DEF Answers, Own
      <3> QED
        BY <2>1, <3>3, <3>4, SubStepInv
    <2> QED
      BY <2>2, <2>3
  <1>5. CASE CommitSubmission(s)
    <2> DEFINE new == [email |-> sub[s].email, status |-> "pending", owner |-> None]
    <2>0. sub[s].at = "commit" /\ app[s] = None
      BY <1>5 DEF CommitSubmission, Inv, Fresh
    <2>a. sub[s].email \in Emails
      BY <2>0 DEF Inv
    <2>1. new \in Application
      BY <2>a DEF Application
    <2>2. app'[s] = new /\ new # None /\ \A a \in Submissions \ {s} : app'[a] = app[a]
      BY <1>0, <1>5, <2>1, OnboardingAssumption DEF CommitSubmission, TypeOK
    <2>3. sub'[s].at = "done" /\ sub'[s].reply = s /\ sub'[s].email = sub[s].email
      BY <1>0, <1>5, AnswerGiven DEF CommitSubmission
    <2>4. \A u \in Submissions \ {s} : sub'[u] = sub[u]
      BY <1>0, <1>5 DEF CommitSubmission, Answer, TypeOK
    <2>b. app'[s] # None /\ app'[s].email = sub[s].email /\ app'[s].status = "pending"
      BY <2>2
    <2>5. \A e : Pending(e)' = IF e = sub[s].email THEN Pending(e) \union {s} ELSE Pending(e)
      BY <2>0, <2>2, <2>b DEF Pending
    <2>6. Pending(sub[s].email) = {}
      BY <2>0, <2>a DEF SubInv, OnePending
    <2>7. OnePending'
      <3>1. \A e \in Emails : \A a, b \in Pending(e)' : a = b
        BY <2>5, <2>6 DEF SubInv, OnePending
      <3>2. \A u \in Submissions, e \in Emails :
              sub'[u].at = "commit" /\ sub'[u].email = e => Pending(e)' = {}
        BY <2>0, <2>3, <2>4, <2>5 DEF SubInv, OnePending
      <3>3. \A u, v \in Submissions :
              /\ sub'[u].at = "commit" /\ sub'[v].at = "commit"
              /\ sub'[u].email = sub'[v].email
              => u = v
        BY <2>3, <2>4 DEF SubInv, OnePending
      <3> QED
        BY <3>1, <3>2, <3>3 DEF OnePending
    <2>8. \A a \in Submissions : app[a] # None => app'[a] = app[a]
      BY <2>0, <2>2
    <2>9. \A u \in Submissions \ {s} : Answers(u)'
      BY <2>4, <2>8 DEF SubInv, Answers, Own
    <2>10. Answers(s)'
      BY <2>3, <2>b, OnboardingAssumption DEF Answers, Own
    <2> QED
      BY <2>7, <2>9, <2>10 DEF SubInv
  <1>6. CASE AbortSubmission(s)
    <2>1. SubMoves(s) /\ UNCHANGED <<app, account, member, lock, rev, faults>>
      BY <1>6, SubmissionMoves
    <2>2. sub'[s].at = "done" /\ sub'[s].reply = sub[s].reply
      BY <1>0, <1>6, SubMovesOn DEF AbortSubmission, SubStep
    <2>3. Answers(s)'
      BY <1>0, <1>6, <1>a, <2>2 DEF Answers, AbortSubmission
    <2> QED
      BY <2>1, <2>2, <2>3, SubStepInv
  <1> QED
    BY <1>1, <1>2, <1>3, <1>4, <1>5, <1>6 DEF Submitting

LEMMA NextSubInv == Inv /\ SubInv /\ [Next]_vars => SubInv'
  <1> SUFFICES ASSUME Inv, SubInv, [Next]_vars PROVE SubInv'
    OBVIOUS
  <1>1. CASE UNCHANGED vars
    BY <1>1 DEF vars, SubInv, OnePending, Answers, Own, Pending
  <1> QED
    BY <1>1, SubmissionSubInv, ReviewDecides, DecidesSubInv DEF Next, Quiet

LEMMA SubInvariant == Spec => []SubInv
  BY Invariant, InitSubInv, NextSubInv, PTL DEF Spec

\* Submissions of one address at once, and decisions between their statements, leave at
\* most one application of it to review.
THEOREM OneApplicationToReview == Spec => []OnePendingPerEmail
  <1>1. SubInv => OnePendingPerEmail
    <2> SUFFICES ASSUME SubInv, NEW e \in Emails PROVE Cardinality(Pending(e)) <= 1
      BY DEF OnePendingPerEmail
    <2>1. CASE Pending(e) = {}
      BY <2>1, FS_EmptySet
    <2>2. CASE Pending(e) # {}
      <3>1. PICK a \in Pending(e) : TRUE
        BY <2>2
      <3>2. Pending(e) = {a}
        BY <3>1 DEF SubInv, OnePending
      <3>3. Cardinality({a}) = 1
        BY FS_Singleton
      <3> QED
        BY <3>2, <3>3
    <2> QED
      BY <2>1, <2>2
  <1> QED
    BY <1>1, SubInvariant, PTL

\* A submission is answered with an application of its own address, and without an id only
\* after one was decided about.
THEOREM SubmissionsAnsweredTruly == Spec => []AnswerIsTrue
  <1>1. SubInv => AnswerIsTrue
    BY DEF SubInv, Answers, Own, AnswerIsTrue
  <1> QED
    BY <1>1, SubInvariant, PTL

-----------------------------------------------------------------------------
(* Accounts that nobody owns. *)

\* A request has no account but the one it asked for, and only after it asked.
Accounts(r) ==
    \A e \in Emails : account[e] = r => e = rev[r].email /\ rev[r].at \in Invited \union {"done"}

Orphans == {e \in Emails : Orphan(e)}

OrphanInv ==
    (\A r \in Reviews : Accounts(r)) /\ IsFiniteSet(Orphans) /\ Cardinality(Orphans) <= faults

LEMMA InitOrphanInv == Init => OrphanInv
  <1> SUFFICES ASSUME Init PROVE OrphanInv
    OBVIOUS
  <1>1. \A e \in Emails : account[e] = None
    BY DEF Init
  <1>2. \A r \in Reviews : Accounts(r)
    BY <1>1, OnboardingAssumption DEF Accounts
  <1>3. Orphans = {}
    BY <1>1, OnboardingAssumption DEF Orphans, Orphan
  <1>4. IsFiniteSet({}) /\ Cardinality({}) = 0
    BY FS_EmptySet
  <1>5. IsFiniteSet(Orphans) /\ Cardinality(Orphans) = 0
    BY <1>3, <1>4
  <1> QED
    BY <1>2, <1>5 DEF OrphanInv, Init

\* A step of request r makes an orphan of its own account only, and at the price of a fault.
LEMMA OrphanStep ==
    ASSUME Inv, Inv', OrphanInv, NEW r \in Reviews, rev[r].at # "done",
           \A q \in Reviews \ {r} : rev'[q] = rev[q],
           member \subseteq member', Accounts(r)',
           \A e \in Emails : account'[e] # account[e] => account'[e] \in {r, None},
           \/ faults' = faults + 1
           \/ faults' = faults /\ \A e \in Emails :
                 account'[e] = r => rev'[r].at # "done" \/ r \in member'
    PROVE  OrphanInv'
  <1> DEFINE x == rev'[r].email
  <1>0. \A q \in Reviews : q # None
    BY OnboardingAssumption
  <1>1. ASSUME NEW q \in Reviews \ {r} PROVE Accounts(q)'
    <2>1. \A e \in Emails : account'[e] = q => account[e] = q
      BY <1>0
    <2> QED
      BY <2>1 DEF OrphanInv, Accounts
  <1>2. \A e \in Emails : Orphan(e)' /\ account'[e] # r => Orphan(e)
    <2> SUFFICES ASSUME NEW e \in Emails, Orphan(e)', account'[e] # r PROVE Orphan(e)
      OBVIOUS
    <2>1. account'[e] \in Reviews \ member' /\ rev'[account'[e]].at = "done"
      BY DEF Orphan
    <2>2. account[e] = account'[e]
      BY <1>0, <2>1
    <2> QED
      BY <2>1, <2>2 DEF Orphan
  <1>3. \A e \in Emails : account'[e] = r => e = x
    BY DEF Accounts
  <1>4. Orphans' \subseteq Orphans \union {x}
    BY <1>2, <1>3 DEF Orphans
  <1>5. faults' = faults => Orphans' \subseteq Orphans
    <2> SUFFICES ASSUME faults' = faults, NEW e \in Emails, Orphan(e)' PROVE Orphan(e)
      BY DEF Orphans
    <2>1. account'[e] # r
      BY DEF Orphan, Inv, TypeOK
    <2> QED
      BY <1>2, <2>1
  <1>6. faults \in Nat /\ IsFiniteSet(Orphans) /\ Cardinality(Orphans) <= faults
    BY OnboardingAssumption DEF Inv, TypeOK, OrphanInv
  <1>a. /\ IsFiniteSet(Orphans \union {x})
        /\ Cardinality(Orphans \union {x}) \in {Cardinality(Orphans), Cardinality(Orphans) + 1}
    BY <1>6, FS_AddElement, Zenon
  <1>b. IsFiniteSet(Orphans') /\ Cardinality(Orphans') <= Cardinality(Orphans \union {x})
    BY <1>4, <1>a, FS_Subset
  <1>c. Orphans' \subseteq Orphans => Cardinality(Orphans') <= Cardinality(Orphans)
    BY <1>6, FS_Subset
  <1>d. Cardinality(Orphans) \in Nat /\ Cardinality(Orphans') \in Nat
    BY <1>6, <1>b, FS_CardinalityType
  <1>7. IsFiniteSet(Orphans)' /\ (Cardinality(Orphans) <= faults)'
    BY <1>5, <1>6, <1>a, <1>b, <1>c, <1>d
  <1> QED
    BY <1>1, <1>7 DEF OrphanInv

LEMMA ReviewOrphanInv ==
    ASSUME Inv, Inv', OrphanInv, NEW r \in Reviews,
           \/ Reviewing(r)
           \/ \E a \in Submissions : Review(r, a, "lock") \/ Review(r, a, "reject")
           \/ \E e \in Emails : Create(r, e)
    PROVE  OrphanInv'
  <1>0. TypeOK /\ Knows(r) /\ Accounts(r) /\ r # None
    BY OnboardingAssumption DEF Inv, OrphanInv
  <1>a. rev[r].at \in {"idle", "lock", "reject", "invite", "commit rejection"}
          => \A e \in Emails : account[e] # r
    BY <1>0 DEF Accounts, Invited
  <1>1. CASE \/ \E a \in Submissions : Review(r, a, "lock") \/ Review(r, a, "reject")
             \/ \E e \in Emails : Create(r, e)
    <2>1. rev[r].at = "idle" /\ UNCHANGED <<account, member, faults>>
          /\ \A q \in Reviews \ {r} : rev'[q] = rev[q]
      BY <1>0, <1>1 DEF Review, Create, TypeOK
    <2>2. Accounts(r)'
      BY <1>a, <2>1 DEF Accounts
    <2> QED
      BY <1>a, <2>1, <2>2, OrphanStep
  <1>2. ASSUME NEW step \in {"invite", "commit rejection"}, At(r, step),
               rev[r].at \in {"lock", "reject"}, UNCHANGED <<account, member, faults, sub>>
        PROVE  OrphanInv'
    <2>1. RevMoves(r)
      BY <1>0, <1>2, AtMoves DEF RevStep
    <2>2. Accounts(r)'
      BY <1>a, <1>2 DEF Accounts
    <2> QED
      BY <1>a, <1>2, <2>1, <2>2, OrphanStep DEF RevMoves
  <1>3. ASSUME EndReview(r), UNCHANGED sub, rev[r].at \notin {"idle", "done"},
               member \subseteq member',
               faults' = faults + 1 \/
                 (faults' = faults /\ (r \in member' \/ \A e \in Emails : account'[e] # r)),
               \A e \in Emails : account'[e] # account[e] =>
                  account'[e] \in {r, None} /\ (account'[e] = r => e = rev[r].email)
        PROVE  OrphanInv'
    <2>1. RevMoves(r) /\ rev'[r].at = "done" /\ rev'[r].email = rev[r].email
      BY <1>0, <1>3, EndMoves
    <2>2. Accounts(r)'
      BY <1>0, <1>3, <2>1 DEF Accounts
    <2> QED
      BY <1>3, <2>1, <2>2, OrphanStep DEF RevMoves
  <1>4. ASSUME NEW step \in {"rows", "update", "undo", "commit approval", "commit member"},
               At(r, step), UNCHANGED <<member, sub, faults>>, rev[r].at # "done",
               \/ UNCHANGED account
               \/ account' = [account EXCEPT ![rev[r].email] = r] /\ rev[r].at = "invite",
               rev[r].at \in Invited \union {"invite"}
        PROVE  OrphanInv'
    <2>1. RevMoves(r) /\ rev'[r].at = step /\ rev'[r].email = rev[r].email
      BY <1>0, <1>4, AtMoves DEF RevStep
    <2>2. \A e \in Emails : account'[e] # account[e] => account'[e] = r /\ e = rev[r].email
      BY <1>0, <1>4 DEF TypeOK
    <2>3. Accounts(r)'
      BY <1>0, <1>4, <2>1, <2>2 DEF Accounts, Invited
    <2> QED
      BY <1>4, <2>1, <2>2, <2>3, OrphanStep DEF RevMoves
  <1>5. CASE LockApplication(r)
    BY <1>2, <1>3, <1>5, <1>a DEF LockApplication
  <1>6. CASE RejectPending(r)
    BY <1>2, <1>3, <1>6, <1>a DEF RejectPending
  <1>7. CASE Invite(r)
    <2>1. CASE account[rev[r].email] = None
      BY <1>4, <1>7, <2>1 DEF Invite
    <2>2. CASE account[rev[r].email] # None
      BY <1>3, <1>7, <1>a, <2>2 DEF Invite
    <2> QED
      BY <2>1, <2>2
  <1>8. CASE InviteUnanswered(r)
    <2>1. \A e \in Emails : account'[e] # account[e] => account'[e] = r /\ e = rev[r].email
      BY <1>0, <1>8 DEF InviteUnanswered, TypeOK
    <2> QED
      BY <1>3, <1>8, <2>1 DEF InviteUnanswered
  <1>9. CASE InsertRows(r)
    BY <1>4, <1>9 DEF InsertRows, Invited
  <1>10. CASE MarkApproved(r)
    BY <1>4, <1>10 DEF MarkApproved, Invited
  <1>11. CASE Undo(r)
    <2>1. CASE account' = [account EXCEPT ![rev[r].email] = None] /\ UNCHANGED faults
      <3>1. \A e \in Emails : account'[e] # r
        BY <1>0, <2>1 DEF Accounts, TypeOK
      <3>2. \A e \in Emails : account'[e] # account[e] => account'[e] = None
        BY <1>0, <2>1 DEF TypeOK
      <3> QED
        BY <1>0, <1>3, <1>11, <2>1, <3>1, <3>2 DEF Undo
    <2>2. CASE faults' = faults + 1 /\ UNCHANGED account
      BY <1>3, <1>11, <2>2 DEF Undo
    <2> QED
      BY <1>11, <2>1, <2>2 DEF Undo
  <1>12. CASE CommitReview(r)
    <2>1. r \in member' \/ \A e \in Emails : account'[e] # r
      BY <1>a, <1>12 DEF CommitReview
    <2> QED
      BY <1>3, <1>12, <2>1 DEF CommitReview
  <1>13. CASE Crash(r)
    BY <1>3, <1>13 DEF Crash
  <1> QED
    BY <1>1, <1>5, <1>6, <1>7, <1>8, <1>9, <1>10, <1>11, <1>12, <1>13 DEF Reviewing

LEMMA NextOrphanInv == Inv /\ OrphanInv /\ [Next]_vars => OrphanInv'
  <1> SUFFICES ASSUME Inv, OrphanInv, [Next]_vars PROVE OrphanInv'
    OBVIOUS
  <1>1. Inv'
    BY NextInv
  <1>2. CASE UNCHANGED <<account, member, rev, faults>>
    <2>1. Orphans' = Orphans
      BY <1>2 DEF Orphans, Orphan
    <2>2. \A r \in Reviews : Accounts(r)'
      BY <1>2 DEF OrphanInv, Accounts
    <2>3. IsFiniteSet(Orphans)' /\ (Cardinality(Orphans) <= faults)'
      BY <1>2, <2>1 DEF OrphanInv
    <2> QED
      BY <2>2, <2>3 DEF OrphanInv
  <1>3. ASSUME NEW s \in Submissions, Submitting(s) \/ \E e \in Emails : Submit(s, e)
        PROVE  UNCHANGED <<account, member, rev, faults>>
    BY <1>3 DEF Submitting, Submit, FindPending, InsertApplication, FindAgain, CommitSubmission,
       AbortSubmission
  <1> QED
    BY <1>1, <1>2, <1>3, ReviewOrphanInv DEF Next, Quiet, vars

\* A failing approval or creation leaves no account behind that nobody owns, except one for
\* each fault that the handler cannot notice or undo.
THEOREM FaultsPayForOrphans == Spec => []OrphansArePaidFor
  <1>1. OrphanInv => OrphansArePaidFor
    BY DEF OrphanInv, Orphans, OrphansArePaidFor
  <1> QED
    BY <1>1, Invariant, InitOrphanInv, NextOrphanInv, PTL DEF Spec
=============================================================================
