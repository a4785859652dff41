CONSTANTS
  ann = ann  ben = ben  cho = cho  dan = dan  eve = eve
  g1 = g1  g2 = g2
  p1 = p1  p2 = p2
  None = None
  Members = {ben, dan}
  Meetings = {g1, g2}
  Parts = {p1, p2}
  ApplyRequests = {a1}
  CancelRequests = {c1}
  AdminMeetingEdits = {e1}
  HostMeetingEdits = {}
  MeetingCreations = {n1}
  MemberEdits = {u1}
  OtherRequests = {e1, n1, u1}
  MeetingForms <- AnswerMeetingForms
  MemberForms <- AnswerMemberForms
  InitialTables <- AnswerTables
SPECIFICATION FairSpec
INVARIANTS TypeOK LocksMatchSteps DecisionsStillHold CancellationsStillHold
PROPERTIES RequestsAnswered
