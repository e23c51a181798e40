SPECIFICATION Spec
CONSTANTS
  ann = ann
  ben = ben
  s1 = s1
  s2 = s2
  a1 = a1
  a2 = a2
  x1 = x1
  Organizer = org
  Participants = {org, ann}
  Answers = {s1, s2}
  Author <- AnnAnswers
  Approvals = {}
  About <- NoApproval
  Proposals = {}
  Operations = {op1, op2}
  Owners = {w1, w2}
  NoOwner = NoOwner
  MaxRevision = 3
  MaxVersion = 7
SYMMETRY Symmetry
CHECK_DEADLOCK FALSE
INVARIANTS PermitIsCurrent
