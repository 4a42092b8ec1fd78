CONSTANTS
  Submissions = {s1, s2, s3}
  Reviews = {r1, r2, r3}
  Emails = {e1, e2}
  MaxFaults = 2
  None = None
SPECIFICATION Spec
SYMMETRY Interchangeable
INVARIANT OnePendingPerEmail
INVARIANT ApprovedOwnerSignsIn
INVARIANT OrphansArePaidFor
INVARIANT AnswerIsTrue
PROPERTY DecisionIsFinal
