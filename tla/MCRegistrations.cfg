CONSTANTS
  ann = ann  ben = ben  cho = cho  dan = dan  eve = eve
  g1 = g1  g2 = g2
  p1 = p1  p2 = p2
  None = None
  Members = {ann, ben, cho, dan, eve}
  Meetings = {g1, g2}
  Parts = {p1, p2}
  ApplyRequests = {a1, a2, a3, a4}
  CancelRequests = {}
  AdminMeetingEdits = {}
  HostMeetingEdits = {}
  MeetingCreations = {}
  MemberEdits = {}
  OtherRequests = {}
  MeetingForms = {}
  MemberForms = {}
  InitialTables <- RegistrationTables
SPECIFICATION Spec
SYMMETRY RegistrationSymmetry
INVARIANTS CapacityRespected PartsSpread
