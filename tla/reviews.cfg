SPECIFICATION FairSpec
CONSTANTS
  ann = ann
  ben = ben
  s1 = s1
  s2 = s2
  a1 = a1
  a2 = a2
  x1 = x1
  Organizer = org
  Participants = {org, ann}
  Answers = {s1}
  Author <- AnnAnswer
  Approvals = {a1, a2}
  About <- TwoApprovals
  Proposals = {x1}
  Operations = {op1, op2}
  Owners = {w1, w2}
  NoOwner = NoOwner
  MaxRevision = 4
  MaxVersion = 6
CHECK_DEADLOCK FALSE
INVARIANTS ClaimsAreHeld ApprovedIsPublished LeasedIsAgreed
PROPERTIES ClaimsEnd
