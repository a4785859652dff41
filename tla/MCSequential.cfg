CONSTANTS
  ann = ann  ben = ben  cho = cho
  g1 = g1  g2 = g2
  p1 = p1  p2 = p2
  Members = {ann, ben, cho}
  Meetings = {g1, g2}
  Parts = {p1, p2}
  InitialTables <- Tables1
  MeetingForms <- AllMeetingForms
  MemberForms <- AllMemberForms
SPECIFICATION Spec
INVARIANTS CapacityRespected CancelledMeetingsEmpty RegisteredMembersEligible HostsActive ApplyOffered CancelOffered
