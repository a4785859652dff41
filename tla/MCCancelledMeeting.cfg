CONSTANTS
  ann = ann  ben = ben  cho = cho  dan = dan  eve = eve
  g1 = g1  g2 = g2
  p1 = p1  p2 = p2
  None = None
  Members = {ann, ben, dan}
  Meetings = {g1}
  Parts = {p1, p2}
  ApplyRequests = {a1, a2}
  CancelRequests = {c1}
  AdminMeetingEdits = {e1}
  HostMeetingEdits = {}
  MeetingCreations = {}
  MemberEdits = {u1}
  OtherRequests = {e1, u1}
  MeetingForms <- EditMeetingForms
  MemberForms <- EditMemberForms
  InitialTables <- EditTables
SPECIFICATION Spec
INVARIANTS CancelledMeetingsEmpty
