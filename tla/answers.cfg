SPECIFICATION Spec
CONSTANTS
  ann = ann
  ben = ben
  s1 = s1
  s2 = s2
  a1 = a1
  a2 = a2
  x1 = x1
  Organizer = org
  Participants = {org, ann, ben}
  Answers = {s1, s2}
  Author <- EachAnswers
  Approvals = {}
  About <- NoApproval
  Proposals = {}
  Operations = {op1}
  Owners = {w1, w2}
  NoOwner = NoOwner
  MaxRevision = 3
  MaxVersion = 8
SYMMETRY Symmetry
CHECK_DEADLOCK FALSE
INVARIANTS TypeOK NoClaimLeaks OneWriterPerRevision
PROPERTIES OthersStillAgree ImplementsContract
