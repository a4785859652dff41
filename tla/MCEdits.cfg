CONSTANTS
  ann = ann  ben = ben  cho = cho  dan = dan  eve = eve
  g1 = g1  g2 = g2
  p1 = p1  p2 = p2
  None = None
  Members = {ann, ben, dan, eve}
  Meetings = {g1}
  Parts = {p1, p2}
  ApplyRequests = {a1, a2}
  CancelRequests = {c1}
  AdminMeetingEdits = {e1}
  HostMeetingEdits = {h1}
  MeetingCreations = {}
  MemberEdits = {}
  OtherRequests = {e1, h1}
  MeetingForms <- HostMeetingForms
  MemberForms <- NewMemberForms
  InitialTables <- EditTables
SPECIFICATION Spec
SYMMETRY EditSymmetry
INVARIANTS AnswersMatchHistory DecisionsStillHold HistoryExplainsRegistrations
PROPERTIES ImplementsRoster StatusChangedOnlyByAdmin
