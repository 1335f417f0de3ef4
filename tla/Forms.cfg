\* Each form on its own: two images, two administrators, two links.
CONSTANTS
  f1 = f1
  f2 = f2
  a1 = a1
  a2 = a2
  u1 = u1
  p1 = p1
  Files = {f1, f2}
  NoFile = NoFile
  MaxSubmissions = 2
  Admins = {a1, a2}
  Usernames = {u1}
  NoName = NoName
  Permissions = {p1}
  MaxRequests = 2
  MaxSaves = 2
SPECIFICATION Spec
CHECK_DEADLOCK FALSE
INVARIANTS
  ImageOfSubmission
  FailureMeansNoMarket
  UsernamesUnique
  CredentialsComplete
  ShownIsSaved
PROPERTY
  SubmissionSettles
