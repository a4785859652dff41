-------------------------- MODULE SequentialProofs --------------------------
(***************************************************************************)
(* The rules of README.md hold after every sequence of handler calls that  *)
(* do not overlap, for every set of members, meetings, parts and forms.    *)
(* The inductive invariant is the conjunction of the rules themselves with *)
(* the types: RegisteredMembersEligible needs RolesCompatible (a new host  *)
(* cannot be registered), CancelledMeetingsEmpty needs the cardinality of  *)
(* a finite set of applicants to be zero only when it is empty.            *)
(***************************************************************************)
EXTENDS MeetingView, FiniteSetTheorems, TLAPS

\* The tables are well formed and a registration joins two rows that exist.
SequentialTypeOK ==
  /\ TablesOK(member, meeting, meeting_host)
  /\ DOMAIN registration \subseteq DOMAIN member
  /\ registration \in [DOMAIN registration -> DOMAIN meeting]
  /\ registration_open \in BOOLEAN

Rules ==
  CapacityRespected /\ CancelledMeetingsEmpty /\ RegisteredMembersEligible /\ HostsActive

SequentialInv == SequentialTypeOK /\ Rules

-----------------------------------------------------------------------------
\* The applicants of a meeting are finitely many, before and after a step.
LEMMA ApplicantsFinite ==
  ASSUME DOMAIN registration \subseteq Members, NEW g
  PROVE  IsFiniteSet(Applicants(g)) /\ Cardinality(Applicants(g)) \in Nat
<1>1. Applicants(g) \subseteq Members
  BY DEF Applicants
<1>2. IsFiniteSet(Applicants(g))
  BY <1>1, FiniteAssumption, FS_Subset
<1> QED
  BY <1>2, FS_CardinalityType

\* One more applicant adds at most one to the count.
LEMMA CardinalityAddElement ==
  ASSUME NEW S, IsFiniteSet(S), NEW x
  PROVE  /\ Cardinality(S \cup {x}) \in Nat
         /\ Cardinality(S \cup {x}) <= Cardinality(S) + 1
<1>1. IsFiniteSet(S \cup {x}) /\ Cardinality(S) \in Nat
  BY FS_AddElement, FS_CardinalityType
<1>2. Cardinality(S \cup {x}) = IF x \in S THEN Cardinality(S) ELSE Cardinality(S) + 1
  BY FS_AddElement
<1> QED
  BY <1>1, <1>2, FS_CardinalityType

\* A permitted application: the meeting is OPEN and has room, the member is an
\* active, eligible and unregistered one who hosts no OPEN meeting.
LEMMA PermittedApplication ==
  ASSUME SequentialTypeOK, NEW m \in Members, NEW g \in Meetings, Apply(m, g)
  PROVE  /\ m \in DOMAIN member \ DOMAIN registration
         /\ member[m].active /\ member[m].apply_enabled /\ ~HostsOpenMeeting(m)
         /\ g \in DOMAIN meeting /\ meeting[g].status = "OPEN"
         /\ Cardinality(Applicants(g)) < meeting[g].capacity
<1>1. m \in DOMAIN member /\ ~HostsOpenMeeting(m)
  BY DEF Apply, ApplicantDenial, Permitted
<1>2. m \notin DOMAIN registration /\ member[m].active /\ member[m].apply_enabled
  BY <1>1 DEF Apply, ApplicantDenial, ApplicantDenialReason, Permitted
<1>3. g \in DOMAIN meeting
  BY DEF Apply
<1>4. /\ Cardinality(Applicants(g)) \in Nat
      /\ meeting[g].capacity \in Nat
  BY <1>3, ApplicantsFinite DEF SequentialTypeOK, TablesOK, MeetingRow
<1>5. meeting[g].status = "OPEN" /\ Cardinality(Applicants(g)) < meeting[g].capacity
  <2> DEFINE partAllowed ==
        PartRegistrationAllowed(PartOf[m], Applicants(g), PartOf,
                                Cardinality(ActivePartMembers(PartOf[m])),
                                Cardinality(DistributionMeetings))
             applied == Cardinality(Applicants(g))
  <2>1. MeetingDenialReason(meeting[g].status, applied, meeting[g].capacity, partAllowed)
          = Permitted
    BY DEF Apply, MeetingDenial
  <2> HIDE DEF partAllowed, applied
  <2>2. meeting[g].status = "OPEN" /\ ~(applied >= meeting[g].capacity)
    BY <2>1 DEF MeetingDenialReason, Permitted
  <2> QED
    BY <2>2, <1>4 DEF applied
<1> QED
  BY <1>1, <1>2, <1>3, <1>5

-----------------------------------------------------------------------------
LEMMA SequentialInit == Init => SequentialInv
<1> SUFFICES ASSUME Init PROVE SequentialInv
  OBVIOUS
<1>1. PICK t \in InitialTables :
        member = t.member /\ meeting = t.meeting /\ meeting_host = t.meeting_host
  BY DEF Init, TablesInit
<1>2. TablesOK(member, meeting, meeting_host) /\ HostsAssigned(member, meeting_host)
  BY <1>1, InitialAssumption
<1>3. registration = [m \in {} |-> m] /\ registration_open = FALSE
  BY DEF Init, TablesInit
<1>4. SequentialTypeOK
  BY <1>2, <1>3 DEF SequentialTypeOK
<1>5. \A g : Applicants(g) = {} /\ Cardinality(Applicants(g)) = 0
  BY <1>3, FS_EmptySet DEF Applicants
<1>6. CapacityRespected /\ CancelledMeetingsEmpty
  BY <1>2, <1>5 DEF CapacityRespected, CancelledMeetingsEmpty, TablesOK, MeetingRow
<1>7. RegisteredMembersEligible /\ HostsActive
  BY <1>2, <1>3 DEF RegisteredMembersEligible, HostsActive, HostsAssigned
<1> QED
  BY <1>4, <1>6, <1>7 DEF SequentialInv, Rules

LEMMA ApplyPreserves ==
  ASSUME SequentialInv, NEW m \in Members, NEW g \in Meetings, Apply(m, g)
  PROVE  SequentialInv'
<1> USE DEF SequentialInv, Rules
<1>1. /\ m \in DOMAIN member \ DOMAIN registration
      /\ member[m].active /\ member[m].apply_enabled /\ ~HostsOpenMeeting(m)
      /\ g \in DOMAIN meeting /\ meeting[g].status = "OPEN"
      /\ Cardinality(Applicants(g)) < meeting[g].capacity
  BY PermittedApplication
<1>2. /\ registration' = Upsert(registration, m, g)
      /\ UNCHANGED <<tables, registration_open>>
  BY DEF Apply
<1>3. SequentialTypeOK'
  BY <1>1, <1>2 DEF SequentialTypeOK, Upsert, tables
<1>4. \A h : Applicants(h)' = IF h = g THEN Applicants(g) \cup {m} ELSE Applicants(h)
  BY <1>1, <1>2 DEF Applicants, Upsert
<1>5. Cardinality(Applicants(g) \cup {m}) <= meeting[g].capacity
  <2>1. IsFiniteSet(Applicants(g)) /\ Cardinality(Applicants(g)) \in Nat
    BY ApplicantsFinite DEF SequentialTypeOK, TablesOK
  <2>2. /\ Cardinality(Applicants(g) \cup {m}) <= Cardinality(Applicants(g)) + 1
        /\ Cardinality(Applicants(g) \cup {m}) \in Nat
    BY <2>1, CardinalityAddElement
  <2>3. meeting[g].capacity \in Nat
    BY <1>1 DEF SequentialTypeOK, TablesOK, MeetingRow
  <2> QED
    BY <1>1, <2>1, <2>2, <2>3
<1>6. CapacityRespected'
  BY <1>2, <1>4, <1>5 DEF CapacityRespected, tables
<1>7. CancelledMeetingsEmpty'
  BY <1>1, <1>2, <1>4 DEF CancelledMeetingsEmpty, tables
<1>8. RegisteredMembersEligible'
  BY <1>1, <1>2 DEF RegisteredMembersEligible, HostsOpenMeeting, Upsert, tables
<1>9. HostsActive'
  BY <1>2 DEF HostsActive, tables
<1> QED
  BY <1>3, <1>6, <1>7, <1>8, <1>9

LEMMA CancelPreserves ==
  ASSUME SequentialInv, NEW m \in Members, Cancel(m)
  PROVE  SequentialInv'
<1> USE DEF SequentialInv, Rules
<1>1. /\ registration' = Delete(registration, m)
      /\ UNCHANGED <<tables, registration_open>>
  BY DEF Cancel
<1>2. /\ DOMAIN registration' = DOMAIN registration \ {m}
      /\ \A x \in DOMAIN registration' : registration'[x] = registration[x]
  BY <1>1 DEF Delete, Restrict
<1>3. SequentialTypeOK'
  BY <1>1, <1>2 DEF SequentialTypeOK, Delete, Restrict, tables
<1>4. \A h : Applicants(h)' \subseteq Applicants(h)
  BY <1>2 DEF Applicants
<1>5. ASSUME NEW h \in DOMAIN meeting
      PROVE  Cardinality(Applicants(h)') <= meeting[h].capacity
  <2>1. IsFiniteSet(Applicants(h)) /\ Cardinality(Applicants(h)) \in Nat
    BY ApplicantsFinite DEF SequentialTypeOK, TablesOK
  <2>2. /\ Cardinality(Applicants(h)') <= Cardinality(Applicants(h))
        /\ Cardinality(Applicants(h)') \in Nat
    BY <2>1, <1>4, FS_Subset, FS_CardinalityType
  <2>3. meeting[h].capacity \in Nat /\ Cardinality(Applicants(h)) <= meeting[h].capacity
    BY DEF SequentialTypeOK, TablesOK, MeetingRow, CapacityRespected
  <2> QED
    BY <2>1, <2>2, <2>3
<1>6. CapacityRespected'
  BY <1>1, <1>5 DEF CapacityRespected, tables
<1>7. CancelledMeetingsEmpty'
  BY <1>1, <1>4 DEF CancelledMeetingsEmpty, tables
<1>8. RegisteredMembersEligible' /\ HostsActive'
  BY <1>1, <1>2 DEF RegisteredMembersEligible, HostsOpenMeeting, HostsActive, tables
<1> QED
  BY <1>3, <1>6, <1>7, <1>8

\* Registrations do not change, so neither do the applicants.
LEMMA SameApplicants ==
  ASSUME UNCHANGED registration
  PROVE  \A g : Applicants(g)' = Applicants(g)
  BY DEF Applicants

\* Nobody who is registered can be given a meeting to host: hosts may not apply.
LEMMA EligibleHostUnregistered ==
  ASSUME SequentialInv, NEW m \in Members, HostEligible(m)
  PROVE  m \in DOMAIN member /\ member[m].active /\ m \notin DOMAIN registration
  BY DEF SequentialInv, SequentialTypeOK, Rules, TablesOK, RolesCompatible, HostEligible,
         RegisteredMembersEligible, MemberRow

LEMMA AdminMeetingNewPreserves ==
  ASSUME SequentialInv, NEW g \in Meetings, NEW form \in MeetingForms, AdminMeetingNew(g, form)
  PROVE  SequentialInv'
<1> USE DEF SequentialInv, Rules
<1>0. /\ form.status \in Statuses /\ form.capacity \in Nat /\ form.host_id \in Members
      /\ form.capacity >= 1 /\ g \notin DOMAIN meeting
  BY FormsAssumption DEF AdminMeetingNew
<1>1. /\ form.host_id \in DOMAIN member /\ member[form.host_id].active
      /\ form.host_id \notin DOMAIN registration
  BY <1>0, EligibleHostUnregistered DEF AdminMeetingNew
<1>2. /\ meeting' = Upsert(meeting, g, [status |-> form.status, capacity |-> form.capacity])
      /\ meeting_host' = Upsert(meeting_host, g, form.host_id)
      /\ UNCHANGED <<member, registration, registration_open>>
  BY DEF AdminMeetingNew
<1>3. SequentialTypeOK'
  BY <1>0, <1>1, <1>2 DEF SequentialTypeOK, TablesOK, Upsert, MeetingRow
<1>4. Applicants(g) = {}
  BY <1>0 DEF Applicants, SequentialTypeOK
<1>5. CapacityRespected'
  BY <1>0, <1>2, <1>4, SameApplicants, FS_EmptySet DEF CapacityRespected, Upsert
<1>6. CancelledMeetingsEmpty'
  BY <1>2, <1>4, SameApplicants DEF CancelledMeetingsEmpty, Upsert
<1>7. DOMAIN meeting_host = DOMAIN meeting
  BY DEF SequentialTypeOK, TablesOK
<1>8. RegisteredMembersEligible'
  BY <1>0, <1>1, <1>2, <1>7 DEF RegisteredMembersEligible, HostsOpenMeeting, Upsert
<1>9. HostsActive'
  BY <1>1, <1>2 DEF HostsActive, Upsert
<1> QED
  BY <1>3, <1>5, <1>6, <1>8, <1>9

LEMMA AdminMeetingEditPreserves ==
  ASSUME SequentialInv, NEW g \in Meetings, NEW form \in MeetingForms, AdminMeetingEdit(g, form)
  PROVE  SequentialInv'
<1> USE DEF SequentialInv, Rules
<1>0. /\ form.status \in Statuses /\ form.capacity \in Nat /\ form.host_id \in Members
      /\ form.capacity >= 1 /\ g \in DOMAIN meeting
  BY FormsAssumption DEF AdminMeetingEdit
<1>1. /\ form.host_id \in DOMAIN member /\ member[form.host_id].active
      /\ form.host_id \notin DOMAIN registration
  BY <1>0, EligibleHostUnregistered DEF AdminMeetingEdit
<1>2. /\ meeting' = [meeting EXCEPT ![g] = [status |-> form.status, capacity |-> form.capacity]]
      /\ meeting_host' = [meeting_host EXCEPT ![g] = form.host_id]
      /\ UNCHANGED <<member, registration, registration_open>>
      /\ form.status = "CANCELLED" => Cardinality(Applicants(g)) = 0
      /\ form.capacity >= Cardinality(Applicants(g))
  BY DEF AdminMeetingEdit, StatusChangeAllowed, CapacityAllowed
<1>3. SequentialTypeOK'
  BY <1>0, <1>1, <1>2 DEF SequentialTypeOK, TablesOK, MeetingRow
<1>4. IsFiniteSet(Applicants(g)) /\ Cardinality(Applicants(g)) \in Nat
  BY ApplicantsFinite DEF SequentialTypeOK, TablesOK
<1>5. CapacityRespected'
  BY <1>0, <1>2, <1>4, SameApplicants DEF CapacityRespected
<1>6. form.status = "CANCELLED" => Applicants(g) = {}
  BY <1>2, <1>4, FS_EmptySet
<1>7. CancelledMeetingsEmpty'
  BY <1>2, <1>6, SameApplicants DEF CancelledMeetingsEmpty
<1>8. DOMAIN meeting_host = DOMAIN meeting
  BY DEF SequentialTypeOK, TablesOK
<1>9. RegisteredMembersEligible'
  BY <1>0, <1>1, <1>2, <1>8 DEF RegisteredMembersEligible, HostsOpenMeeting
<1>10. HostsActive'
  BY <1>1, <1>2 DEF HostsActive
<1> QED
  BY <1>3, <1>5, <1>7, <1>9, <1>10

LEMMA HostMeetingEditPreserves ==
  ASSUME SequentialInv, NEW g \in Meetings, NEW form \in MeetingForms, HostMeetingEdit(g, form)
  PROVE  SequentialInv'
<1> USE DEF SequentialInv, Rules
<1>0. form.capacity \in Nat /\ form.capacity >= 1 /\ g \in DOMAIN meeting
  BY FormsAssumption DEF HostMeetingEdit
<1>1. /\ meeting' = [meeting EXCEPT ![g].capacity = form.capacity]
      /\ UNCHANGED <<member, meeting_host, registration, registration_open>>
      /\ form.capacity >= Cardinality(Applicants(g))
  BY DEF HostMeetingEdit, CapacityAllowed
<1>2. SequentialTypeOK'
  BY <1>0, <1>1 DEF SequentialTypeOK, TablesOK, MeetingRow
<1>3. /\ DOMAIN meeting' = DOMAIN meeting
      /\ \A h \in DOMAIN meeting : meeting'[h].status = meeting[h].status
  BY <1>1 DEF SequentialTypeOK, TablesOK, MeetingRow
<1>4. Cardinality(Applicants(g)) \in Nat
  BY ApplicantsFinite DEF SequentialTypeOK, TablesOK
<1>5. CapacityRespected'
  BY <1>0, <1>1, <1>4, SameApplicants DEF CapacityRespected, SequentialTypeOK, TablesOK, MeetingRow
<1>6. CancelledMeetingsEmpty'
  BY <1>1, <1>3, SameApplicants DEF CancelledMeetingsEmpty
<1>7. DOMAIN meeting_host = DOMAIN meeting
  BY DEF SequentialTypeOK, TablesOK
<1>8. RegisteredMembersEligible' /\ HostsActive'
  BY <1>1, <1>3, <1>7 DEF RegisteredMembersEligible, HostsOpenMeeting, HostsActive
<1> QED
  BY <1>2, <1>5, <1>6, <1>8

LEMMA AdminMemberNewPreserves ==
  ASSUME SequentialInv, NEW m \in Members, NEW form \in MemberForms, AdminMemberNew(m, form)
  PROVE  SequentialInv'
<1> USE DEF SequentialInv, Rules
<1>1. /\ m \notin DOMAIN member /\ RolesCompatible(form) /\ form \in MemberRow
      /\ member' = Upsert(member, m, form)
      /\ UNCHANGED <<meeting, meeting_host, registration, registration_open>>
  BY FormsAssumption DEF AdminMemberNew
<1>2. SequentialTypeOK'
  BY <1>1 DEF SequentialTypeOK, TablesOK, Upsert
<1>3. CapacityRespected' /\ CancelledMeetingsEmpty'
  BY <1>1, SameApplicants DEF CapacityRespected, CancelledMeetingsEmpty
<1>4. \A x \in DOMAIN member : member'[x] = member[x]
  BY <1>1 DEF Upsert
<1>5. RegisteredMembersEligible'
  BY <1>1, <1>4 DEF RegisteredMembersEligible, HostsOpenMeeting, SequentialTypeOK
<1>6. HostsActive'
  BY <1>1, <1>4 DEF HostsActive, SequentialTypeOK, TablesOK
<1> QED
  BY <1>2, <1>3, <1>5, <1>6

LEMMA AdminMemberEditPreserves ==
  ASSUME SequentialInv, NEW m \in Members, NEW form \in MemberForms, AdminMemberEdit(m, form)
  PROVE  SequentialInv'
<1> USE DEF SequentialInv, Rules
<1>1. /\ m \in DOMAIN member /\ RolesCompatible(form) /\ form \in MemberRow
      /\ member' = [member EXCEPT ![m] = form]
      /\ UNCHANGED <<meeting, meeting_host, registration, registration_open>>
      /\ m \in DOMAIN registration => form.active /\ form.apply_enabled
      /\ ~form.active => ~HostsMeeting(m)
  BY FormsAssumption DEF AdminMemberEdit, MemberEditAllowed
<1>2. SequentialTypeOK'
  BY <1>1 DEF SequentialTypeOK, TablesOK
<1>3. CapacityRespected' /\ CancelledMeetingsEmpty'
  BY <1>1, SameApplicants DEF CapacityRespected, CancelledMeetingsEmpty
<1>4. RegisteredMembersEligible'
  BY <1>1 DEF RegisteredMembersEligible, HostsOpenMeeting, SequentialTypeOK
<1>5. HostsActive'
  BY <1>1 DEF HostsActive, HostsMeeting, SequentialTypeOK, TablesOK
<1> QED
  BY <1>2, <1>3, <1>4, <1>5

LEMMA BootstrapAdminPreserves ==
  ASSUME SequentialInv, NEW m \in Members, NEW p \in Parts, BootstrapAdmin(m, p)
  PROVE  SequentialInv'
<1> USE DEF SequentialInv, Rules
<1>1. /\ member' = Upsert(member, m, BootstrapRow(m, p))
      /\ UNCHANGED <<meeting, meeting_host, registration, registration_open>>
  BY DEF BootstrapAdmin
<1>2. /\ BootstrapRow(m, p) \in MemberRow /\ RolesCompatible(BootstrapRow(m, p))
      /\ BootstrapRow(m, p).active
  BY DEF BootstrapRow, SequentialTypeOK, TablesOK, MemberRow, RolesCompatible
<1>3. SequentialTypeOK'
  BY <1>1, <1>2 DEF SequentialTypeOK, TablesOK, Upsert
<1>4. CapacityRespected' /\ CancelledMeetingsEmpty'
  BY <1>1, SameApplicants DEF CapacityRespected, CancelledMeetingsEmpty
<1>5. m \in DOMAIN registration => BootstrapRow(m, p).apply_enabled
  BY DEF BootstrapRow, SequentialTypeOK, TablesOK, RolesCompatible, RegisteredMembersEligible
<1>6. RegisteredMembersEligible'
  BY <1>1, <1>2, <1>5 DEF RegisteredMembersEligible, HostsOpenMeeting, Upsert, SequentialTypeOK
<1>7. HostsActive'
  BY <1>1, <1>2 DEF HostsActive, Upsert, SequentialTypeOK, TablesOK
<1> QED
  BY <1>3, <1>4, <1>6, <1>7

LEMMA SequentialStep == SequentialInv /\ [Next]_vars => SequentialInv'
<1> SUFFICES ASSUME SequentialInv, [Next]_vars PROVE SequentialInv'
  OBVIOUS
<1>1. ASSUME NEW m \in Members, NEW g \in Meetings, Apply(m, g) PROVE SequentialInv'
  BY <1>1, ApplyPreserves
<1>2. ASSUME NEW m \in Members, Cancel(m) PROVE SequentialInv'
  BY <1>2, CancelPreserves
<1>3. ASSUME NEW g \in Meetings, NEW form \in MeetingForms,
             AdminMeetingNew(g, form) \/ AdminMeetingEdit(g, form) \/ HostMeetingEdit(g, form)
      PROVE  SequentialInv'
  BY <1>3, AdminMeetingNewPreserves, AdminMeetingEditPreserves, HostMeetingEditPreserves
<1>4. ASSUME NEW m \in Members, NEW form \in MemberForms,
             AdminMemberNew(m, form) \/ AdminMemberEdit(m, form)
      PROVE  SequentialInv'
  BY <1>4, AdminMemberNewPreserves, AdminMemberEditPreserves
<1>6. ASSUME NEW m \in Members, NEW p \in Parts, BootstrapAdmin(m, p) PROVE SequentialInv'
  BY <1>6, BootstrapAdminPreserves
<1>5. CASE ChangeRegistrationWindow \/ UNCHANGED vars
  <2>1. UNCHANGED <<member, meeting, meeting_host, registration>> /\ registration_open' \in BOOLEAN
    BY <1>5 DEF ChangeRegistrationWindow, vars, tables, SequentialInv, SequentialTypeOK
  <2>2. SequentialTypeOK'
    BY <2>1 DEF SequentialInv, SequentialTypeOK
  <2>3. Rules'
    BY <2>1, SameApplicants DEF SequentialInv, Rules, CapacityRespected, CancelledMeetingsEmpty,
       RegisteredMembersEligible, HostsOpenMeeting, HostsActive
  <2> QED
    BY <2>2, <2>3 DEF SequentialInv
<1> QED
  BY <1>1, <1>2, <1>3, <1>4, <1>5, <1>6 DEF Next

-----------------------------------------------------------------------------
\* Every rule of README.md, at once, for any number of members and meetings.
THEOREM SequentialRules == Spec => []SequentialInv
  BY SequentialInit, SequentialStep, PTL DEF Spec

\* README: registrations never exceed a meeting's capacity, whatever capacities
\* admins and hosts submit between registrations.
THEOREM SequentialCapacity == Spec => []CapacityRespected
  BY SequentialRules, PTL DEF SequentialInv, Rules

\* README: no meeting with applicants becomes CANCELLED.
THEOREM SequentialCancelledEmpty == Spec => []CancelledMeetingsEmpty
  BY SequentialRules, PTL DEF SequentialInv, Rules

\* README: permissions are not withdrawn from registered members, and nobody both
\* hosts an OPEN meeting and is registered.
THEOREM SequentialEligible == Spec => []RegisteredMembersEligible
  BY SequentialRules, PTL DEF SequentialInv, Rules

\* README: an inactive member hosts no meeting.
THEOREM SequentialHostsActive == Spec => []HostsActive
  BY SequentialRules, PTL DEF SequentialInv, Rules

-----------------------------------------------------------------------------
\* The two counts of the part rule are one.
LEMMA SameDistribution == ListedDistributionMeetings = DistributionMeetings
  BY DEF ListedDistributionMeetings, DistributionMeetings, Listed

\* The view's question to the policy and the service's are the same, for a meeting
\* that may be applied to.
LEMMA SameDecision ==
  ASSUME SequentialInv, NEW m \in ActiveMembers, NEW g \in DOMAIN meeting
  PROVE  ServiceWouldApply(m, g) <=>
           /\ registration_open /\ ~HostsOpenMeeting(m) /\ m \notin DOMAIN registration
           /\ meeting[g].status = "OPEN" /\ member[m].apply_enabled
           /\ CanApply(m, g)
<1> DEFINE allowed == PartAllowed(m, g)
           applied == Cardinality(Applicants(g))
           meetingDenial == MeetingDenialReason(meeting[g].status, applied,
                                                meeting[g].capacity, allowed)
<1>1. /\ m \in DOMAIN member /\ member[m].active = TRUE /\ registration_open \in BOOLEAN
      /\ member[m].apply_enabled \in BOOLEAN
  BY DEF ActiveMembers, SequentialInv, SequentialTypeOK, TablesOK, MemberRow
<1>2. MeetingDenial(m, g, Cardinality(ActivePartMembers(PartOf[m])),
                    Cardinality(DistributionMeetings)) = meetingDenial
  BY SameDistribution DEF MeetingDenial, PartAllowed
<1>3. meetingDenial = Permitted => meeting[g].status = "OPEN"
  <2> HIDE DEF allowed, applied
  <2> QED
    BY DEF MeetingDenialReason, Permitted
<1>4. CanApply(m, g) <=>
        /\ ApplicantDenialReason(registration_open, TRUE, member[m].apply_enabled,
                                 HostsOpenMeeting(m), m \in DOMAIN registration) = Permitted
        /\ meetingDenial = Permitted
  BY <1>1 DEF CanApply
<1> HIDE DEF meetingDenial
<1>5. ApplicantDenial(m) = Permitted <=>
        ~HostsOpenMeeting(m) /\ m \notin DOMAIN registration /\ member[m].apply_enabled
  BY <1>1 DEF ApplicantDenial, ApplicantDenialReason, Permitted
<1>6. ApplicantDenialReason(registration_open, TRUE, member[m].apply_enabled,
                            HostsOpenMeeting(m), m \in DOMAIN registration) = Permitted <=>
        /\ registration_open /\ ~HostsOpenMeeting(m) /\ m \notin DOMAIN registration
        /\ member[m].apply_enabled
  BY <1>1 DEF ApplicantDenialReason, Permitted
<1> QED
  BY <1>2, <1>3, <1>4, <1>5, <1>6 DEF ServiceWouldApply

LEMMA OfferedApply == SequentialInv => ApplyOffered
<1> SUFFICES ASSUME SequentialInv, NEW m \in ActiveMembers, NEW g \in DOMAIN meeting
             PROVE  /\ Button(m, g) = "apply" <=> ServiceWouldApply(m, g)
                    /\ Button(m, g) = "apply" => ShowAvailabilityFilter(m)
  BY DEF ApplyOffered
<1>1. Button(m, g) = "apply" <=>
        /\ g \in Listed /\ ~HostsOpenMeeting(m) /\ registration_open
        /\ meeting[g].status \notin {"CANCELLED", "CLOSED"}
        /\ ~IsRegistered(m, g) /\ CanApply(m, g)
  BY DEF Button
<1>2. g \in Listed /\ meeting[g].status \notin {"CANCELLED", "CLOSED"}
        <=> meeting[g].status = "OPEN"
  BY DEF Listed
<1>3. CanApply(m, g) => m \notin DOMAIN registration /\ member[m].apply_enabled
  BY DEF CanApply, ApplicantDenialReason, Permitted, SequentialInv, SequentialTypeOK, TablesOK,
         MemberRow, ActiveMembers
<1> QED
  BY <1>1, <1>2, <1>3, SameDecision DEF IsRegistered, ShowAvailabilityFilter

LEMMA OfferedCancel == SequentialInv => CancelOffered
<1> SUFFICES ASSUME SequentialInv, NEW m \in ActiveMembers, NEW g \in DOMAIN meeting
             PROVE  Button(m, g) = "cancel" <=> ServiceWouldCancel(m, g)
  BY DEF CancelOffered
<1>1. Button(m, g) = "cancel" <=>
        /\ g \in Listed /\ ~HostsOpenMeeting(m) /\ registration_open
        /\ meeting[g].status \notin {"CANCELLED", "CLOSED"} /\ IsRegistered(m, g)
  BY DEF Button
<1>2. g \in Listed /\ meeting[g].status \notin {"CANCELLED", "CLOSED"}
        <=> meeting[g].status = "OPEN"
  BY DEF Listed
<1>3. m \in DOMAIN member /\ member[m].active = TRUE
  BY DEF ActiveMembers, SequentialInv, SequentialTypeOK, TablesOK, MemberRow
<1>4. CASE m \notin DOMAIN registration
  BY <1>1, <1>3, <1>4 DEF IsRegistered, ServiceWouldCancel, CancelDenial, Permitted
<1>5. CASE m \in DOMAIN registration
  <2>1. ~HostsOpenMeeting(m)
    BY <1>5 DEF SequentialInv, Rules, RegisteredMembersEligible
  <2>2. CancelDenial(m) = Permitted <=> meeting[registration[m]].status = "OPEN"
    BY <1>3, <1>5 DEF CancelDenial, Permitted
  <2> QED
    BY <1>1, <1>2, <1>5, <2>1, <2>2 DEF IsRegistered, ServiceWouldCancel
<1> QED
  BY <1>4, <1>5

\* An active member is offered exactly the applications the service would accept.
THEOREM SequentialApplyOffered == Spec => []ApplyOffered
  BY SequentialRules, OfferedApply, PTL

\* A registered member is offered the cancellation exactly when the service would
\* accept it; this needs the rule that nobody registered hosts an OPEN meeting.
THEOREM SequentialCancelOffered == Spec => []CancelOffered
  BY SequentialRules, OfferedCancel, PTL
=============================================================================
