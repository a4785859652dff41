CONSTANTS
  ann = ann  ben = ben  cho = cho  dan = dan  eve = eve
  g1 = g1  g2 = g2
  p1 = p1  p2 = p2
  None = None
  Members = {ben, dan}
  Meetings = {g1}
  Parts = {p1, p2}
  ApplyRequests = {a1}
  CancelRequests = {c1}
  AdminMeetingEdits = {e1}
  HostMeetingEdits = {}
  MeetingCreations = {}
  MemberEdits = {u1, u2}
  OtherRequests = {e1, u1, u2}
  MeetingForms <- DeadlockMeetingForms
  MemberForms <- DeadlockMemberForms
  InitialTables <- DeadlockTables
SPECIFICATION Spec
INVARIANTS NoDeadlock
