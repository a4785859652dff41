---------------------------- MODULE PromiseProofs ----------------------------
(***************************************************************************)
(* What README.md promises of the tables, for every set of members,        *)
(* meetings and requests.  No handler of the console locks what it         *)
(* validates, so each promise can be broken by an edit whose validation is *)
(* out of date when the edit commits.  Here it is proved that nothing else *)
(* breaks it: while the validation of every edit would still pass at its   *)
(* commit, the promises hold, however registrations and edits interleave.  *)
(***************************************************************************)
EXTENDS PartRuleProofs, RegistrationHistoryProofs

\* validate_meeting_status_change and the capacity check of update_meeting_details
\* still pass, on the applicants there are when the meeting's edit commits.
CountsStillAllowed ==
  \A r \in MeetingEdits :
    CommitMeeting(r) =>
      MeetingEditAllowed(r, Cardinality(Applicants(meeting_form[r].meeting_id)))

\* validate_admin_meeting_fields still accepts the host of the form when it commits,
\* and the host that the handler loaded is still the meeting's.
HostsStillEligible ==
  /\ \A r \in AdminMeetingEdits :
       CommitMeeting(r) =>
         /\ HostEligible(meeting_form[r].form.host_id)
         /\ meeting_form[r].loaded_host = meeting_host[meeting_form[r].meeting_id]
  /\ \A r \in MeetingCreations, g \in Meetings :
       InsertMeeting(r, g) => HostEligible(meeting_form[r].form.host_id)

\* validate_member_permissions still passes when the member's edit commits: the two
\* counts that it found zero are zero.
MembersStillFree ==
  \A r \in MemberEdits :
    SaveMember(r) =>
      LET m == member_form[r].member_id
          form == member_form[r].form
      IN /\ (form.active /\ form.apply_enabled) \/ m \notin DOMAIN registration
         /\ form.active \/ ~HostsMeeting(m)

\* The host of an OPEN meeting does not get past the checks of apply_to_meeting, nor
\* does a member become one while its application is under way.
ApplicantsDoNotHost ==
  \A r \in ApplyRequests : HoldsMember(r) => ~HostsOpenMeeting(apply[r].member_id)

-----------------------------------------------------------------------------
\* The steps that write a table of the console; they leave the requests of members alone.
LEMMA TableWriters ==
  ASSUME [Next]_vars
  PROVE  \/ UNCHANGED tables
         \/ /\ \/ \E r \in MeetingEdits : CommitMeeting(r)
               \/ \E r \in MeetingCreations, g \in Meetings : InsertMeeting(r, g)
               \/ \E r \in MemberEdits : SaveMember(r)
               \/ \E m \in Members, form \in MemberForms : CreateMember(m, form)
            /\ UNCHANGED <<registrations, apply, cancel>>
<1>1. CASE RegistrationStep
  BY <1>1 DEF RegistrationStep, ReceiveApply, LockMember, LockMeeting, CountDistribution,
     Decide, CommitApply, TellApplied, AbortApply, ReceiveCancel, CheckCancel, CommitCancel,
     TellCancelled, AbortCancel, ChangeRegistrationWindow
<1>2. CASE AdministrationStep
  <2>1. CASE \/ \E r \in MeetingEdits : CommitMeeting(r)
             \/ \E r \in MeetingCreations, g \in Meetings : InsertMeeting(r, g)
             \/ \E r \in MemberEdits : SaveMember(r)
             \/ \E m \in Members, form \in MemberForms : CreateMember(m, form)
    BY <2>1 DEF CommitMeeting, InsertMeeting, SaveMember, CreateMember
  <2>2. CASE ~<2>1!1
    BY <1>2, <2>2 DEF AdministrationStep, ReceiveAdminMeetingEdit, ReceiveHostMeetingEdit,
       CheckHost, CountApplicants, FlushMeeting, ReceiveMeetingCreation, AbortMeetingForm,
       ReceiveMemberEdit, CountRegistrations, CountHosted, AbortMemberForm
  <2> QED
    BY <2>1, <2>2
<1>3. CASE BreakDeadlock
  BY <1>3 DEF BreakDeadlock, AbortApply, AbortCancel, AbortMeetingForm
<1>4. CASE UNCHANGED vars
  BY <1>4 DEF vars
<1> QED
  BY <1>1, <1>2, <1>3, <1>4 DEF Next

\* What the commit of a meeting's edit does to the two tables it writes.
LEMMA MeetingCommitted ==
  ASSUME Inv, HostForms, NEW r \in MeetingEdits, CommitMeeting(r),
         NEW g, g = meeting_form[r].meeting_id
  PROVE  LET form == meeting_form[r].form IN
         /\ g \in DOMAIN meeting /\ DOMAIN meeting' = DOMAIN meeting
         /\ DOMAIN meeting_host' = DOMAIN meeting
         /\ \A h \in DOMAIN meeting \ {g} :
              meeting'[h] = meeting[h] /\ meeting_host'[h] = meeting_host[h]
         /\ meeting'[g].capacity \in {form.capacity, meeting[g].capacity}
         /\ \/ meeting'[g].status = meeting[g].status
            \/ r \in AdminMeetingEdits /\ meeting'[g].status = form.status
         /\ meeting_host'[g] = IF HostChanged(r) THEN form.host_id ELSE meeting_host[g]
<1> DEFINE f == meeting_form[r]
<1>1. f.pc = "commit" /\ r \in MeetingRequests
  BY DEF CommitMeeting, MeetingRequests
<1>2. g \in DOMAIN meeting /\ DOMAIN meeting_host = DOMAIN meeting
  BY <1>1 DEF Inv, TypeOK, FormsOK, MeetingFormFilled, MeetingSteps, RowsOK, TablesOK
<1>3. meeting' = [meeting EXCEPT ![g] = MeetingUpdate(meeting[g], f.form, f.loaded)]
  BY DEF CommitMeeting
<1>4. /\ DOMAIN meeting' = DOMAIN meeting
      /\ meeting'[g] = MeetingUpdate(meeting[g], f.form, f.loaded)
      /\ \A h \in DOMAIN meeting \ {g} : meeting'[h] = meeting[h]
  BY <1>2, <1>3
<1>5. /\ meeting'[g].capacity \in {f.form.capacity, meeting[g].capacity}
      /\ \/ meeting'[g].status = meeting[g].status
         \/ f.form.status # f.loaded.status /\ meeting'[g].status = f.form.status
  BY <1>4 DEF MeetingUpdate
<1>6. f.form.status # f.loaded.status => r \in AdminMeetingEdits
  BY <1>1 DEF HostForms, MeetingEdits, MeetingSteps
<1>7. /\ DOMAIN meeting_host' = DOMAIN meeting
      /\ meeting_host'[g] = IF HostChanged(r) THEN f.form.host_id ELSE meeting_host[g]
      /\ \A h \in DOMAIN meeting \ {g} : meeting_host'[h] = meeting_host[h]
  BY <1>2 DEF CommitMeeting
<1> QED
  BY <1>2, <1>4, <1>5, <1>6, <1>7

LEMMA MeetingInserted ==
  ASSUME Inv, NEW r \in MeetingCreations, NEW g, InsertMeeting(r, g)
  PROVE  LET form == meeting_form[r].form IN
         /\ g \notin DOMAIN meeting /\ DOMAIN meeting' = DOMAIN meeting \cup {g}
         /\ DOMAIN meeting_host' = DOMAIN meeting \cup {g}
         /\ \A h \in DOMAIN meeting :
              meeting'[h] = meeting[h] /\ meeting_host'[h] = meeting_host[h]
         /\ meeting'[g].capacity = form.capacity /\ form.capacity \in Nat
         /\ meeting_host'[g] = form.host_id
<1>1. DOMAIN meeting_host = DOMAIN meeting
  BY DEF Inv, TypeOK, RowsOK, TablesOK
<1>2. meeting_form[r].form.capacity \in Nat
  BY AdministrationAssumption DEF InsertMeeting, Inv, TypeOK, FormsOK, MeetingFormFilled,
     MeetingSteps, MeetingRequests
<1> QED
  BY <1>1, <1>2 DEF InsertMeeting, Upsert

\* What the commit of a member's edit does: each column is the form's or the row's.
LEMMA MemberSaved ==
  ASSUME Inv, NEW r \in MemberEdits, SaveMember(r), NEW m, m = member_form[r].member_id
  PROVE  LET form == member_form[r].form IN
         /\ m \in DOMAIN member /\ DOMAIN member' = DOMAIN member
         /\ \A x \in DOMAIN member \ {m} : member'[x] = member[x]
         /\ \A right \in {"active", "apply_enabled", "host_enabled"} :
              member'[m][right] \in {form[right], member[m][right]}
<1> DEFINE f == member_form[r]
<1>1. m \in DOMAIN member
  BY DEF SaveMember, Inv, TypeOK, FormsOK, MemberFormFilled, MemberSteps
<1>2. DOMAIN member[m] = {"active", "apply_enabled", "host_enabled", "part_id"}
  BY <1>1 DEF Inv, TypeOK, RowsOK, TablesOK, MemberRow
<1>3. CASE UNCHANGED member
  BY <1>1, <1>3
<1>4. CASE member' = [member EXCEPT ![m] = MemberUpdate(member[m], f.form, f.loaded)]
  <2>1. member'[m] = MemberUpdate(member[m], f.form, f.loaded)
    BY <1>1, <1>4
  <2>2. \A right \in {"active", "apply_enabled", "host_enabled"} :
          member'[m][right] \in {f.form[right], member[m][right]}
    BY <1>2, <2>1 DEF MemberUpdate
  <2> QED
    BY <1>1, <1>4, <2>2
<1> QED
  BY <1>3, <1>4 DEF SaveMember

-----------------------------------------------------------------------------
\* Capacity and cancelled meetings.
CountPromises == CapacityRespected /\ CancelledMeetingsEmpty

\* One more applicant, in a meeting that is OPEN and has room.
LEMMA EntryKeepsCounts ==
  ASSUME Inv, Inv', CountPromises, NEW r \in ApplyRequests, Entered(r)
  PROVE  CountPromises'
<1> DEFINE m == apply[r].member_id
           g == apply[r].meeting_id
<1>1. /\ registration' = Upsert(registration, m, g) /\ UNCHANGED tables
      /\ apply[r].pc = "commit"
  BY DEF Entered
<1>2. /\ m \notin DOMAIN registration /\ g \in DOMAIN meeting
      /\ meeting[g].status = "OPEN" /\ Cardinality(Applicants(g)) < meeting[g].capacity
  BY <1>1 DEF Inv, DecisionsStillHold, HoldsMember, HoldsMeeting
<1>3. \A h : Applicants(h)' = IF h = g THEN Applicants(h) \cup {m} ELSE Applicants(h)
  BY <1>1, <1>2 DEF Applicants, Upsert
<1>4. Cardinality(Applicants(g) \cup {m}) = Cardinality(Applicants(g)) + 1
  <2>1. Applicants(g) \subseteq Members /\ m \notin Applicants(g)
    BY <1>2 DEF Applicants, Inv, TypeOK, RowsOK, TablesOK
  <2> QED
    BY <2>1, FiniteAssumption, FS_Subset, FS_AddElement
<1>5. Cardinality(Applicants(g)) \in Nat /\ meeting[g].capacity \in Nat
  BY <1>2, CountsAreNaturals DEF Inv, TypeOK, RowsOK, TablesOK, MeetingRow
<1>6. CapacityRespected'
  BY <1>1, <1>2, <1>3, <1>4, <1>5 DEF CountPromises, CapacityRespected, tables
<1>7. CancelledMeetingsEmpty'
  BY <1>1, <1>2, <1>3 DEF CountPromises, CancelledMeetingsEmpty, tables
<1> QED
  BY <1>6, <1>7 DEF CountPromises

\* Nobody more, and the same meetings.
LEMMA LeavingKeepsCounts ==
  ASSUME Inv, CountPromises, UNCHANGED meeting, \A g : Applicants(g)' \subseteq Applicants(g)
  PROVE  CountPromises'
<1>1. \A g : Cardinality(Applicants(g)) \in Nat
  BY CountsAreNaturals DEF Inv, TypeOK
<1>2. ASSUME NEW g
      PROVE  Cardinality(Applicants(g)') \in Nat
             /\ Cardinality(Applicants(g)') <= Cardinality(Applicants(g))
  <2>1. Applicants(g) \subseteq Members
    BY DEF Applicants, Inv, TypeOK, RowsOK, TablesOK
  <2>2. IsFiniteSet(Applicants(g))
    BY <2>1, FiniteAssumption, FS_Subset
  <2>3. IsFiniteSet(Applicants(g)')
    BY <2>2, FS_Subset
  <2> QED
    BY <2>2, <2>3, FS_Subset, FS_CardinalityType
<1>3. CapacityRespected'
  <2> SUFFICES ASSUME NEW g \in DOMAIN meeting
               PROVE  Cardinality(Applicants(g)') <= meeting[g].capacity
    BY DEF CapacityRespected
  <2>1. Cardinality(Applicants(g)) <= meeting[g].capacity /\ meeting[g].capacity \in Nat
    BY DEF CountPromises, CapacityRespected, Inv, TypeOK, RowsOK, TablesOK, MeetingRow
  <2> QED
    BY <1>1, <1>2, <2>1
<1>4. CancelledMeetingsEmpty'
  BY DEF CountPromises, CancelledMeetingsEmpty
<1> QED
  BY <1>3, <1>4 DEF CountPromises

\* An edit of a meeting whose applicants it counted.
LEMMA EditKeepsCounts ==
  ASSUME Inv, HostForms, CountPromises, CountsStillAllowed, NEW r \in MeetingEdits,
         CommitMeeting(r)
  PROVE  CountPromises'
<1> PICK g : g = meeting_form[r].meeting_id
  OBVIOUS
<1> DEFINE form == meeting_form[r].form
<1>1. /\ g \in DOMAIN meeting /\ DOMAIN meeting' = DOMAIN meeting
      /\ \A h \in DOMAIN meeting \ {g} : meeting'[h] = meeting[h]
      /\ meeting'[g].capacity \in {form.capacity, meeting[g].capacity}
      /\ \/ meeting'[g].status = meeting[g].status
         \/ r \in AdminMeetingEdits /\ meeting'[g].status = form.status
  BY MeetingCommitted
<1>2. \A h : Applicants(h)' = Applicants(h)
  BY DEF CommitMeeting, registrations, Applicants
<1>3. MeetingEditAllowed(r, Cardinality(Applicants(g)))
  BY DEF CountsStillAllowed
<1>4. /\ form.capacity >= Cardinality(Applicants(g))
      /\ r \in AdminMeetingEdits /\ form.status = "CANCELLED" => Cardinality(Applicants(g)) = 0
  BY <1>3 DEF MeetingEditAllowed, CapacityAllowed, StatusChangeAllowed
<1>5. Cardinality(Applicants(g)) = 0 => Applicants(g) = {}
  <2>1. Applicants(g) \subseteq Members
    BY DEF Applicants, Inv, TypeOK, RowsOK, TablesOK
  <2> QED
    BY <2>1, FiniteAssumption, FS_Subset, FS_EmptySet
<1>6. CapacityRespected'
  <2> SUFFICES ASSUME NEW h \in DOMAIN meeting
               PROVE  Cardinality(Applicants(h)) <= meeting'[h].capacity
    BY <1>1, <1>2 DEF CapacityRespected
  <2>1. Cardinality(Applicants(h)) <= meeting[h].capacity
    BY DEF CountPromises, CapacityRespected
  <2>2. CASE h = g
    <3>1. /\ form.capacity \in Nat
          /\ Cardinality(Applicants(g)) \in Nat
      BY CountsAreNaturals, AdministrationAssumption
         DEF CommitMeeting, Inv, TypeOK, FormsOK, MeetingFormFilled, MeetingSteps,
             MeetingRequests
    <3> QED
      BY <1>1, <1>4, <2>1, <2>2, <3>1
  <2> QED
    BY <1>1, <2>1, <2>2
<1>7. CancelledMeetingsEmpty'
  BY <1>1, <1>2, <1>4, <1>5 DEF CountPromises, CancelledMeetingsEmpty
<1> QED
  BY <1>6, <1>7 DEF CountPromises

\* A new meeting has no applicants.
LEMMA InsertKeepsCounts ==
  ASSUME Inv, CountPromises, NEW r \in MeetingCreations, NEW g, InsertMeeting(r, g)
  PROVE  CountPromises'
<1>1. /\ g \notin DOMAIN meeting /\ DOMAIN meeting' = DOMAIN meeting \cup {g}
      /\ \A h \in DOMAIN meeting : meeting'[h] = meeting[h]
      /\ meeting'[g].capacity \in Nat
  BY MeetingInserted
<1>2. \A h : Applicants(h)' = Applicants(h)
  BY DEF InsertMeeting, registrations, Applicants
<1>3. Applicants(g) = {}
  BY <1>1 DEF Applicants, Inv, TypeOK, RowsOK
<1>4. Cardinality(Applicants(g)) = 0
  BY <1>3, FS_EmptySet
<1>5. CapacityRespected'
  BY <1>1, <1>2, <1>4 DEF CountPromises, CapacityRespected
<1>6. CancelledMeetingsEmpty'
  BY <1>1, <1>2, <1>3 DEF CountPromises, CancelledMeetingsEmpty
<1> QED
  BY <1>5, <1>6 DEF CountPromises

LEMMA CountPromisesStep ==
  /\ Inv /\ Inv' /\ HostForms /\ CountPromises /\ [Next]_vars /\ [CountsStillAllowed]_vars
  => CountPromises'
<1> SUFFICES ASSUME Inv, Inv', HostForms, CountPromises, [Next]_vars, [CountsStillAllowed]_vars
             PROVE  CountPromises'
  OBVIOUS
<1>1. CASE UNCHANGED tables
  <2>1. CASE \E r \in ApplyRequests : Entered(r)
    BY <2>1, EntryKeepsCounts
  <2>2. CASE (\E r \in CancelRequests : Left(r)) \/ UNCHANGED registration
    BY <1>1, <2>2, OthersOnlyLeave, LeavingKeepsCounts DEF tables
  <2> QED
    BY <2>1, <2>2, RegistrationMoves
<1>2. CASE ~UNCHANGED tables
  <2>1. CountsStillAllowed
    BY <1>2 DEF vars
  <2>2. CASE \E r \in MeetingEdits : CommitMeeting(r)
    BY <2>1, <2>2, EditKeepsCounts
  <2>3. CASE \E r \in MeetingCreations, g \in Meetings : InsertMeeting(r, g)
    BY <2>3, InsertKeepsCounts
  <2>4. CASE \/ \E r \in MemberEdits : SaveMember(r)
             \/ \E m \in Members, form \in MemberForms : CreateMember(m, form)
    <3>1. UNCHANGED <<meeting, registration>>
      BY <2>4 DEF SaveMember, CreateMember, registrations
    <3> QED
      BY <3>1, LeavingKeepsCounts DEF Applicants
  <2> QED
    BY <1>2, <2>2, <2>3, <2>4, TableWriters
<1> QED
  BY <1>1, <1>2

LEMMA CountPromisesInitially == Init => CountPromises /\ HostForms
<1> SUFFICES ASSUME Init PROVE CountPromises /\ HostForms
  OBVIOUS
<1>1. \A g : Applicants(g) = {}
  BY DEF Init, RegistrationInit, TablesInit, Applicants
<1>2. \A g \in DOMAIN meeting : meeting[g].capacity \in Nat
  BY RegistrationInitial DEF Inv, TypeOK, RowsOK, TablesOK, MeetingRow
<1>3. CapacityRespected
  BY <1>1, <1>2, FS_EmptySet DEF CapacityRespected
<1>4. CancelledMeetingsEmpty
  BY <1>1 DEF CancelledMeetingsEmpty
<1>5. HostForms
  BY DEF Init, HostForms, IdleMeetingForm, MeetingSteps, MeetingRequests, MeetingEdits
<1> QED
  BY <1>3, <1>4, <1>5 DEF CountPromises

LEMMA CountPromisesInvariant == Spec /\ [][CountsStillAllowed]_vars => []CountPromises
BY CountPromisesInitially, CountPromisesStep, HostFormsStep, RegistrationInvariant, PTL DEF Spec

\* Registrations alone never exceed a capacity, and an edit only when applications
\* were committed after it had counted them.
THEOREM RegistrationCapacity == Spec /\ [][CountsStillAllowed]_vars => []CapacityRespected
BY CountPromisesInvariant, PTL DEF CountPromises

\* A meeting with applicants becomes CANCELLED only by an edit that counted too early;
\* a host's form, whatever it was loaded with, never does it.
THEOREM RegistrationCancelledEmpty ==
  Spec /\ [][CountsStillAllowed]_vars => []CancelledMeetingsEmpty
BY CountPromisesInvariant, PTL DEF CountPromises

-----------------------------------------------------------------------------
\* Eligible applicants and active hosts.
RolePromises == RegisteredMembersEligible /\ HostsActive /\ ApplicantsDoNotHost

\* A member that is registered, or has got past the checks, cannot be made host.
LEMMA ApplicantsCannotHost ==
  ASSUME Inv, RolePromises, NEW m,
         m \in DOMAIN registration \/ \E r \in ApplyRequests : HoldsMember(r) /\ apply[r].member_id = m
  PROVE  /\ m \in DOMAIN member /\ member[m].active /\ member[m].apply_enabled
         /\ ~HostEligible(m) /\ ~HostsOpenMeeting(m)
<1>1. m \in DOMAIN member /\ member[m].active /\ member[m].apply_enabled /\ ~HostsOpenMeeting(m)
  BY DEF Inv, TypeOK, RowsOK, DecisionsStillHold, RolePromises, RegisteredMembersEligible,
     ApplicantsDoNotHost
<1>2. ~member[m].host_enabled
  BY <1>1 DEF Inv, TypeOK, RowsOK, TablesOK, RolesCompatible
<1> QED
  BY <1>1, <1>2 DEF HostEligible

\* An application comes to hold its member's row only by the checks of LockMember.
LEMMA HoldingBegins ==
  ASSUME Inv, [Next]_vars, NEW r \in ApplyRequests, HoldsMember(r)'
  PROVE  \/ HoldsMember(r) /\ apply'[r].member_id = apply[r].member_id
         \/ /\ ApplicantDenial(apply[r].member_id) = Permitted
            /\ apply'[r].member_id = apply[r].member_id
            /\ UNCHANGED <<tables, registrations>>
<1>1. apply \in [ApplyRequests -> ApplyRecord]
  BY DEF Inv, TypeOK, RegistrationRequestsOK
<1>2. CASE HoldsMeeting(r)'
  <2>1. ApplyMoved(r)
    BY <1>2, ApplyMoves
  <2> QED
    BY <1>1, <1>2, <2>1 DEF ApplyMoved, ApplyKept, MeetingLocked, DistributionCounted, Decided,
       HoldsMember, HoldsMeeting, ApplyRecord
<1>3. CASE apply'[r].pc = "lock_meeting"
  <2>1. CASE \E q \in ApplyRequests : LockMember(q)
    <3>1. PICK q \in ApplyRequests : LockMember(q)
      BY <2>1
    <3>2. CASE q # r
      BY <1>1, <1>3, <3>1, <3>2 DEF LockMember, AnswerApply, EndApply, HoldsMember
    <3>3. CASE q = r
      <4>1. CASE \E answer : AnswerApply(r, answer)
        BY <1>1, <1>3, <4>1 DEF AnswerApply, EndApply, ApplyRecord
      <4>2. CASE ~\E answer : AnswerApply(r, answer)
        <5>1. /\ ApplicantDenial(apply[r].member_id) = Permitted
              /\ apply' = [apply EXCEPT ![r].pc = "lock_meeting"]
              /\ UNCHANGED <<tables, registrations>>
          BY <3>1, <3>3, <4>2 DEF LockMember
        <5>2. apply'[r].member_id = apply[r].member_id
          BY <1>1, <5>1 DEF ApplyRecord
        <5> QED
          BY <5>1, <5>2
      <4> QED
        BY <4>1, <4>2
    <3> QED
      BY <3>2, <3>3
  <2>2. CASE \E q \in ApplyRequests, m \in Members, g \in Meetings : ReceiveApply(q, m, g)
    <3>1. PICK q \in ApplyRequests, m \in Members, g \in Meetings : ReceiveApply(q, m, g)
      BY <2>2
    <3> DEFINE locals == [apply[q] EXCEPT
              !.member_id = m, !.meeting_id = g,
              !.pc = IF registration_open THEN "lock_member" ELSE "done",
              !.answer = IF registration_open THEN "NONE" ELSE "REGISTRATION_NOT_STARTED"]
    <3>2. apply' = [apply EXCEPT ![q] = locals] /\ apply[q] \in ApplyRecord
      BY <1>1, <3>1 DEF ReceiveApply
    <3>3. locals.pc \in {"lock_member", "done"}
      BY <3>2 DEF ApplyRecord
    <3> HIDE DEF locals
    <3> QED
      BY <1>1, <1>3, <3>2, <3>3 DEF HoldsMember
  <2>3. CASE \E q \in ApplyRequests : LockMeeting(q) \/ CountDistribution(q) \/ Decide(q)
                                        \/ CommitApply(q) \/ TellApplied(q) \/ AbortApply(q)
    <3>1. PICK q \in ApplyRequests : LockMeeting(q) \/ CountDistribution(q) \/ Decide(q)
                                       \/ CommitApply(q) \/ TellApplied(q) \/ AbortApply(q)
      BY <2>3
    <3>2. apply'[r] = apply[r] \/ apply'[r].pc # "lock_meeting"
      <4>1. apply[q] \in ApplyRecord
        BY <1>1
      <4>2. ASSUME NEW pc \in {"answer", "done"}, NEW answer, EndApply(q, pc, answer)
            PROVE  <3>2
        BY <1>1, <4>1, <4>2 DEF EndApply, ApplyRecord
      <4>3. ASSUME NEW n, apply' = [apply EXCEPT ![q] =
               [@ EXCEPT !.pc = "count_distribution", !.active_part_member_count = n]]
            PROVE  <3>2
        BY <1>1, <4>1, <4>3 DEF ApplyRecord
      <4>4. ASSUME NEW n, apply' = [apply EXCEPT ![q] =
               [@ EXCEPT !.pc = "decide", !.distribution_meeting_count = n]]
            PROVE  <3>2
        BY <1>1, <4>1, <4>4 DEF ApplyRecord
      <4>5. ASSUME apply' = [apply EXCEPT ![q].pc = "commit"]
            PROVE  <3>2
        BY <1>1, <4>1, <4>5 DEF ApplyRecord
      <4>6. CASE LockMeeting(q)
        BY <4>2, <4>3, <4>6 DEF LockMeeting, AnswerApply
      <4>7. CASE CountDistribution(q)
        BY <4>4, <4>7 DEF CountDistribution
      <4>8. CASE Decide(q)
        BY <4>2, <4>5, <4>8 DEF Decide, AnswerApply
      <4>9. CASE CommitApply(q) \/ TellApplied(q) \/ AbortApply(q)
        BY <4>2, <4>9 DEF CommitApply, TellApplied, AbortApply, AnswerApply
      <4> QED
        BY <3>1, <4>6, <4>7, <4>8, <4>9
    <3> QED
      BY <1>1, <1>3, <3>2 DEF HoldsMember
  <2>4. CASE UNCHANGED apply
    BY <1>3, <2>4 DEF HoldsMember
  <2>5. RegistrationStep => <2>1!1 \/ <2>2!1 \/ <2>3!1 \/ UNCHANGED apply
    BY DEF RegistrationStep, ReceiveCancel, CheckCancel, CommitCancel, TellCancelled,
       AbortCancel, ChangeRegistrationWindow
  <2>6. AdministrationStep => UNCHANGED apply
    BY DEF AdministrationStep, ReceiveAdminMeetingEdit, ReceiveHostMeetingEdit, CheckHost,
       CountApplicants, FlushMeeting, CommitMeeting, ReceiveMeetingCreation, InsertMeeting,
       AbortMeetingForm, ReceiveMemberEdit, CountRegistrations, CountHosted, SaveMember,
       AbortMemberForm, CreateMember
  <2>7. BreakDeadlock => <2>3!1 \/ UNCHANGED apply
    BY DEF BreakDeadlock, AbortCancel, AbortMeetingForm
  <2> QED
    BY <2>1, <2>2, <2>3, <2>4, <2>5, <2>6, <2>7 DEF Next, vars
<1> QED
  BY <1>2, <1>3 DEF HoldsMember, HoldsMeeting

\* What a step of the console must leave to those registered and those being admitted.
LEMMA HoldersStay ==
  ASSUME Inv, RolePromises, UNCHANGED <<registrations, apply>>,
         \A m \in DOMAIN registration :
           /\ member'[m].active /\ member'[m].apply_enabled /\ ~HostsOpenMeeting(m)',
         \A m : (\E r \in ApplyRequests : HoldsMember(r) /\ apply[r].member_id = m)
                => ~HostsOpenMeeting(m)',
         HostsActive'
  PROVE  RolePromises'
<1>1. RegisteredMembersEligible'
  BY DEF RegisteredMembersEligible, registrations
<1>2. ApplicantsDoNotHost'
  <2> SUFFICES ASSUME NEW r \in ApplyRequests, HoldsMember(r), NEW m, m = apply[r].member_id
               PROVE  ~HostsOpenMeeting(m)'
    BY DEF ApplicantsDoNotHost, HoldsMember
  <2> QED
    OBVIOUS
<1> QED
  BY <1>1, <1>2 DEF RolePromises

\* An edit of a meeting whose host is eligible when it commits.
LEMMA EditKeepsRoles ==
  ASSUME Inv, HostForms, RolePromises, HostsStillEligible, NEW r \in MeetingEdits,
         CommitMeeting(r)
  PROVE  RolePromises'
<1> PICK g : g = meeting_form[r].meeting_id
  OBVIOUS
<1> DEFINE form == meeting_form[r].form
<1>1. /\ g \in DOMAIN meeting /\ DOMAIN meeting' = DOMAIN meeting
      /\ DOMAIN meeting_host' = DOMAIN meeting
      /\ \A h \in DOMAIN meeting \ {g} :
           meeting'[h] = meeting[h] /\ meeting_host'[h] = meeting_host[h]
      /\ \/ meeting'[g].status = meeting[g].status
         \/ r \in AdminMeetingEdits /\ meeting'[g].status = form.status
      /\ meeting_host'[g] = IF HostChanged(r) THEN form.host_id ELSE meeting_host[g]
  BY MeetingCommitted
<1>2. UNCHANGED <<member, registrations, apply>> /\ DOMAIN meeting_host = DOMAIN meeting
  BY DEF CommitMeeting, Inv, TypeOK, RowsOK, TablesOK
<1>3. r \in AdminMeetingEdits => HostEligible(meeting_host'[g])
  <2> HAVE r \in AdminMeetingEdits
  <2>1. HostEligible(form.host_id) /\ meeting_form[r].loaded_host = meeting_host[g]
    BY DEF HostsStillEligible
  <2> QED
    BY <1>1, <2>1 DEF HostChanged
<1>4. r \notin AdminMeetingEdits =>
        meeting'[g].status = meeting[g].status /\ meeting_host'[g] = meeting_host[g]
  BY <1>1 DEF HostChanged
<1>5. ASSUME NEW m, ~HostEligible(m), ~HostsOpenMeeting(m)
      PROVE  ~HostsOpenMeeting(m)'
  <2> SUFFICES ASSUME NEW h \in DOMAIN meeting, meeting_host'[h] = m, meeting'[h].status = "OPEN"
               PROVE  FALSE
    BY <1>1 DEF HostsOpenMeeting
  <2>1. CASE h # g
    BY <1>1, <1>2, <1>5, <2>1 DEF HostsOpenMeeting
  <2>2. CASE h = g
    BY <1>1, <1>2, <1>3, <1>4, <1>5, <2>2 DEF HostsOpenMeeting
  <2> QED
    BY <2>1, <2>2
<1>6. HostsActive'
  BY <1>1, <1>2, <1>3, <1>4 DEF HostsActive, RolePromises, HostEligible
<1>7. \A m \in DOMAIN registration :
        member'[m].active /\ member'[m].apply_enabled /\ ~HostsOpenMeeting(m)'
  BY <1>2, <1>5, ApplicantsCannotHost
<1>8. \A x : (\E q \in ApplyRequests : HoldsMember(q) /\ apply[q].member_id = x)
            => ~HostsOpenMeeting(x)'
  BY <1>5, ApplicantsCannotHost
<1> QED
  BY <1>2, <1>6, <1>7, <1>8, HoldersStay

LEMMA InsertKeepsRoles ==
  ASSUME Inv, RolePromises, HostsStillEligible, NEW r \in MeetingCreations, NEW g \in Meetings,
         InsertMeeting(r, g)
  PROVE  RolePromises'
<1> DEFINE form == meeting_form[r].form
<1>1. /\ g \notin DOMAIN meeting /\ DOMAIN meeting_host' = DOMAIN meeting \cup {g}
      /\ \A h \in DOMAIN meeting :
           meeting'[h] = meeting[h] /\ meeting_host'[h] = meeting_host[h]
      /\ meeting_host'[g] = form.host_id
  BY MeetingInserted
<1>2. UNCHANGED <<member, registrations, apply>> /\ DOMAIN meeting_host = DOMAIN meeting
  BY DEF InsertMeeting, Inv, TypeOK, RowsOK, TablesOK
<1>3. HostEligible(form.host_id)
  BY DEF HostsStillEligible
<1>4. ASSUME NEW m, ~HostEligible(m), ~HostsOpenMeeting(m)
      PROVE  ~HostsOpenMeeting(m)'
  BY <1>1, <1>2, <1>3, <1>4 DEF HostsOpenMeeting
<1>5. HostsActive'
  BY <1>1, <1>2, <1>3 DEF HostsActive, RolePromises, HostEligible
<1>6. \A m \in DOMAIN registration :
        member'[m].active /\ member'[m].apply_enabled /\ ~HostsOpenMeeting(m)'
  BY <1>2, <1>4, ApplicantsCannotHost
<1>7. \A x : (\E q \in ApplyRequests : HoldsMember(q) /\ apply[q].member_id = x)
            => ~HostsOpenMeeting(x)'
  BY <1>4, ApplicantsCannotHost
<1> QED
  BY <1>2, <1>5, <1>6, <1>7, HoldersStay

\* An edit of a member who is registered or hosts at the commit takes no right away.
LEMMA SaveKeepsRoles ==
  ASSUME Inv, RolePromises, MembersStillFree, NEW r \in MemberEdits, SaveMember(r)
  PROVE  RolePromises'
<1> PICK m : m = member_form[r].member_id
  OBVIOUS
<1> DEFINE form == member_form[r].form
<1>1. /\ m \in DOMAIN member /\ DOMAIN member' = DOMAIN member
      /\ \A x \in DOMAIN member \ {m} : member'[x] = member[x]
      /\ member'[m].active \in {form.active, member[m].active}
      /\ member'[m].apply_enabled \in {form.apply_enabled, member[m].apply_enabled}
  <2>1. \A right \in {"active", "apply_enabled", "host_enabled"} :
          member'[m][right] \in {form[right], member[m][right]}
    BY MemberSaved
  <2> QED
    BY <2>1, MemberSaved
<1>2. /\ (form.active /\ form.apply_enabled) \/ m \notin DOMAIN registration
      /\ form.active \/ ~HostsMeeting(m)
  BY DEF MembersStillFree
<1>3. UNCHANGED <<meeting, meeting_host, registrations, apply>>
  BY DEF SaveMember
<1>4. \A x : HostsOpenMeeting(x)' <=> HostsOpenMeeting(x)
  BY <1>3 DEF HostsOpenMeeting
<1>5. meeting_host \in [DOMAIN meeting -> DOMAIN member]
  BY DEF Inv, TypeOK, RowsOK, TablesOK
<1>6. HostsActive'
  <2> SUFFICES ASSUME NEW g \in DOMAIN meeting_host PROVE member'[meeting_host[g]].active
    BY <1>3 DEF HostsActive
  <2>1. member[meeting_host[g]].active
    BY DEF RolePromises, HostsActive
  <2>2. meeting_host[g] = m => form.active
    BY <1>2 DEF HostsMeeting
  <2> QED
    BY <1>1, <1>5, <2>1, <2>2
<1>7. \A x \in DOMAIN registration :
        member'[x].active /\ member'[x].apply_enabled /\ ~HostsOpenMeeting(x)'
  BY <1>1, <1>2, <1>4, ApplicantsCannotHost
<1>8. \A x : (\E q \in ApplyRequests : HoldsMember(q) /\ apply[q].member_id = x)
            => ~HostsOpenMeeting(x)'
  BY <1>4, ApplicantsCannotHost
<1> QED
  BY <1>3, <1>6, <1>7, <1>8, HoldersStay

LEMMA CreateKeepsRoles ==
  ASSUME Inv, RolePromises, NEW m \in Members, NEW form \in MemberForms, CreateMember(m, form)
  PROVE  RolePromises'
<1>1. /\ \A x \in DOMAIN member : member'[x] = member[x]
      /\ UNCHANGED <<meeting, meeting_host, registrations, apply>>
  BY DEF CreateMember, Upsert
<1>2. \A x : HostsOpenMeeting(x)' <=> HostsOpenMeeting(x)
  BY <1>1 DEF HostsOpenMeeting
<1>3. HostsActive'
  BY <1>1 DEF HostsActive, RolePromises, Inv, TypeOK, RowsOK, TablesOK
<1>4. \A x \in DOMAIN registration :
        member'[x].active /\ member'[x].apply_enabled /\ ~HostsOpenMeeting(x)'
  BY <1>1, <1>2, ApplicantsCannotHost
<1>5. \A x : (\E q \in ApplyRequests : HoldsMember(q) /\ apply[q].member_id = x)
            => ~HostsOpenMeeting(x)'
  BY <1>2, ApplicantsCannotHost
<1> QED
  BY <1>1, <1>3, <1>4, <1>5, HoldersStay

\* The steps of members: whoever enters had passed the checks and kept the row.
LEMMA MembersKeepRoles ==
  ASSUME Inv, Inv', RolePromises, [Next]_vars, UNCHANGED tables
  PROVE  RolePromises'
<1>1. \A x : HostsOpenMeeting(x)' <=> HostsOpenMeeting(x)
  BY DEF HostsOpenMeeting, tables
<1>2. HostsActive'
  BY DEF HostsActive, RolePromises, tables
<1>3. ApplicantsDoNotHost'
  <2> SUFFICES ASSUME NEW r \in ApplyRequests, HoldsMember(r)'
               PROVE  ~HostsOpenMeeting(apply'[r].member_id)
    BY <1>1 DEF ApplicantsDoNotHost
  <2>1. CASE HoldsMember(r) /\ apply'[r].member_id = apply[r].member_id
    BY <2>1 DEF RolePromises, ApplicantsDoNotHost
  <2>2. CASE /\ ApplicantDenial(apply[r].member_id) = Permitted
             /\ apply'[r].member_id = apply[r].member_id
    BY <2>2 DEF ApplicantDenial, Permitted
  <2> QED
    BY <2>1, <2>2, HoldingBegins
<1>4. RegisteredMembersEligible'
  <2> SUFFICES ASSUME NEW m \in DOMAIN registration'
               PROVE  member[m].active /\ member[m].apply_enabled /\ ~HostsOpenMeeting(m)
    BY <1>1 DEF RegisteredMembersEligible, tables
  <2>1. CASE m \in DOMAIN registration
    BY <2>1, ApplicantsCannotHost
  <2>2. ASSUME NEW r \in ApplyRequests, Entered(r), m \notin DOMAIN registration
        PROVE  HoldsMember(r) /\ apply[r].member_id = m
    BY <2>2 DEF Entered, Upsert, HoldsMember
  <2>3. ASSUME NEW r \in CancelRequests, Left(r)
        PROVE  m \in DOMAIN registration
    BY <2>3 DEF Left, Delete, Restrict
  <2> QED
    BY <2>1, <2>2, <2>3, RegistrationMoves, ApplicantsCannotHost
<1> QED
  BY <1>2, <1>3, <1>4 DEF RolePromises

LEMMA RolePromisesStep ==
  /\ Inv /\ Inv' /\ HostForms /\ RolePromises /\ [Next]_vars
  /\ [HostsStillEligible]_vars /\ [MembersStillFree]_vars
  => RolePromises'
<1> SUFFICES ASSUME Inv, Inv', HostForms, RolePromises, [Next]_vars,
                    [HostsStillEligible]_vars, [MembersStillFree]_vars
             PROVE  RolePromises'
  OBVIOUS
<1>1. CASE UNCHANGED tables
  BY <1>1, MembersKeepRoles
<1>2. CASE ~UNCHANGED tables
  <2>1. HostsStillEligible /\ MembersStillFree
    BY <1>2 DEF vars
  <2> QED
    BY <1>2, <2>1, TableWriters, EditKeepsRoles, InsertKeepsRoles, SaveKeepsRoles,
       CreateKeepsRoles
<1> QED
  BY <1>1, <1>2

LEMMA RolePromisesInitially == Init => RolePromises
<1> SUFFICES ASSUME Init PROVE RolePromises
  OBVIOUS
<1>1. HostsActive
  BY InitialAssumption DEF Init, RegistrationInit, TablesInit, HostsAssigned, HostsActive
<1>2. RegisteredMembersEligible
  BY DEF Init, RegistrationInit, TablesInit, RegisteredMembersEligible
<1>3. ApplicantsDoNotHost
  BY DEF Init, RegistrationInit, ApplicantsDoNotHost, HoldsMember, IdleApply
<1> QED
  BY <1>1, <1>2, <1>3 DEF RolePromises

LEMMA RolePromisesInvariant ==
  Spec /\ [][HostsStillEligible]_vars /\ [][MembersStillFree]_vars => []RolePromises
BY RolePromisesInitially, RolePromisesStep, CountPromisesInitially, HostFormsStep,
   RegistrationInvariant, PTL DEF Spec

\* Registrations alone admit only who is active, may apply and hosts no OPEN meeting, and
\* whoever is registered stays so, unless an edit commits on a validation that is out
\* of date: of the host it names, or of the registrations it found.
THEOREM RegistrationEligible ==
  Spec /\ [][HostsStillEligible]_vars /\ [][MembersStillFree]_vars
    => []RegisteredMembersEligible
BY RolePromisesInvariant, PTL DEF RolePromises

\* A host is deactivated, or an inactive member made host, only by such an edit.
THEOREM RegistrationHostsActive ==
  Spec /\ [][HostsStillEligible]_vars /\ [][MembersStillFree]_vars => []HostsActive
BY RolePromisesInvariant, PTL DEF RolePromises

\* While nobody edits a meeting or a member, what remains is unconditional: any number of
\* applications and cancellations, however they overlap, keep every promise.
THEOREM RegistrationPromisesWithoutEdits ==
  ASSUME MeetingRequests = {}, MemberEdits = {}
  PROVE  Spec => []( /\ CapacityRespected /\ CancelledMeetingsEmpty
                     /\ RegisteredMembersEligible /\ HostsActive)
<1>1. CountsStillAllowed /\ HostsStillEligible /\ MembersStillFree
  BY DEF CountsStillAllowed, HostsStillEligible, MembersStillFree, MeetingRequests, MeetingEdits
<1> QED
  BY <1>1, RegistrationCapacity, RegistrationCancelledEmpty, RegistrationEligible,
     RegistrationHostsActive, PTL

-----------------------------------------------------------------------------
\* cancel_registration reads the meeting's status without a lock and relies on it to
\* the commit: no edit closes that meeting meanwhile.
OpenMeetingsStayOpen ==
  \A r \in CancelRequests :
    LET g == cancel[r].meeting_id IN
    cancel[r].pc = "commit" /\ meeting[g].status = "OPEN" => meeting'[g].status = "OPEN"

CancelledMeetingsOpen ==
  \A r \in CancelRequests :
    cancel[r].pc = "commit" => /\ cancel[r].meeting_id \in DOMAIN meeting
                               /\ meeting[cancel[r].meeting_id].status = "OPEN"

\* A cancellation reaches its commit only by the checks of CheckCancel.
LEMMA CancelMoves ==
  ASSUME Inv, [Next]_vars, NEW r \in CancelRequests, cancel'[r].pc = "commit"
  PROVE  \/ cancel'[r] = cancel[r]
         \/ LET m == cancel[r].member_id IN
            /\ CancelDenial(m) = Permitted
            /\ cancel'[r].meeting_id = registration[m]
            /\ UNCHANGED <<tables, registrations>>
<1>1. cancel \in [CancelRequests -> CancelRecord]
  BY DEF Inv, TypeOK, RegistrationRequestsOK
<1>2. ASSUME NEW q \in CancelRequests, NEW answer, AnswerCancel(q, answer)
      PROVE  cancel'[r] = cancel[r]
  BY <1>1, <1>2 DEF AnswerCancel, CancelRecord
<1>6. ASSUME NEW q \in CancelRequests, CommitCancel(q)
      PROVE  cancel'[r] = cancel[r]
  <2>1. cancel' = [cancel EXCEPT ![q] = [cancel[q] EXCEPT !.pc = "answer"]]
    BY <1>6 DEF CommitCancel
  <2> QED
    BY <1>1, <2>1 DEF CancelRecord
<1>3. ASSUME NEW q \in CancelRequests, NEW m \in Members, ReceiveCancel(q, m)
      PROVE  cancel'[r] = cancel[r]
  <2> DEFINE locals == [cancel[q] EXCEPT
            !.member_id = m,
            !.pc = IF registration_open THEN "lock_member" ELSE "done",
            !.answer = IF registration_open THEN "NONE" ELSE "REGISTRATION_NOT_STARTED"]
  <2>1. cancel' = [cancel EXCEPT ![q] = locals] /\ cancel[q] \in CancelRecord
    BY <1>1, <1>3 DEF ReceiveCancel
  <2>2. locals.pc \in {"lock_member", "done"}
    BY <2>1 DEF CancelRecord
  <2> HIDE DEF locals
  <2> QED
    BY <1>1, <2>1, <2>2
<1>4. ASSUME NEW q \in CancelRequests, CheckCancel(q), ~\E answer : AnswerCancel(q, answer)
      PROVE  \/ cancel'[r] = cancel[r]
             \/ /\ CancelDenial(cancel[r].member_id) = Permitted
                /\ cancel'[r].meeting_id = registration[cancel[r].member_id]
                /\ UNCHANGED <<tables, registrations>>
  <2>1. PICK g : g = registration[cancel[q].member_id]
    OBVIOUS
  <2>2. /\ CancelDenial(cancel[q].member_id) = Permitted
        /\ cancel' = [cancel EXCEPT ![q] = [cancel[q] EXCEPT !.pc = "commit", !.meeting_id = g]]
        /\ UNCHANGED <<tables, registrations>>
    BY <1>4, <2>1 DEF CheckCancel
  <2>3. CASE q # r
    BY <1>1, <2>2, <2>3
  <2>4. CASE q = r
    <3>1. cancel'[r].meeting_id = g
      BY <1>1, <2>2, <2>4 DEF CancelRecord
    <3> QED
      BY <2>1, <2>2, <2>4, <3>1
  <2> QED
    BY <2>3, <2>4
<1>5. \/ UNCHANGED cancel
      \/ \E q \in CancelRequests, m \in Members : ReceiveCancel(q, m)
      \/ \E q \in CancelRequests : CheckCancel(q)
      \/ \E q \in CancelRequests : CommitCancel(q)
      \/ \E q \in CancelRequests : \E answer : AnswerCancel(q, answer)
  <2>1. CASE RegistrationStep
    BY <2>1 DEF RegistrationStep, ReceiveApply, LockMember, LockMeeting, CountDistribution,
       Decide, CommitApply, TellApplied, AbortApply, TellCancelled, AbortCancel,
       ChangeRegistrationWindow
  <2>2. CASE AdministrationStep
    BY <2>2 DEF AdministrationStep, ReceiveAdminMeetingEdit, ReceiveHostMeetingEdit, CheckHost,
       CountApplicants, FlushMeeting, CommitMeeting, ReceiveMeetingCreation, InsertMeeting,
       AbortMeetingForm, ReceiveMemberEdit, CountRegistrations, CountHosted, SaveMember,
       AbortMemberForm, CreateMember
  <2>3. CASE BreakDeadlock
    BY <2>3 DEF BreakDeadlock, AbortApply, AbortCancel, AbortMeetingForm
  <2>4. CASE UNCHANGED vars
    BY <2>4 DEF vars
  <2> QED
    BY <2>1, <2>2, <2>3, <2>4 DEF Next
<1> QED
  BY <1>2, <1>3, <1>4, <1>5, <1>6

LEMMA CancelledMeetingsOpenStep ==
  Inv /\ CancelledMeetingsOpen /\ [Next]_vars /\ [OpenMeetingsStayOpen]_vars
  => CancelledMeetingsOpen'
<1> SUFFICES ASSUME Inv, CancelledMeetingsOpen, [Next]_vars, [OpenMeetingsStayOpen]_vars,
                    NEW r \in CancelRequests, cancel'[r].pc = "commit"
             PROVE  /\ cancel'[r].meeting_id \in DOMAIN meeting'
                    /\ meeting'[cancel'[r].meeting_id].status = "OPEN"
  BY DEF CancelledMeetingsOpen
<1>1. OpenMeetingsStayOpen
  BY DEF OpenMeetingsStayOpen, vars, tables
<1>2. DOMAIN meeting \subseteq DOMAIN meeting'
  BY RowsRemain
<1>3. CASE cancel'[r] = cancel[r]
  BY <1>1, <1>2, <1>3 DEF CancelledMeetingsOpen, OpenMeetingsStayOpen
<1>4. CASE /\ CancelDenial(cancel[r].member_id) = Permitted
           /\ cancel'[r].meeting_id = registration[cancel[r].member_id]
           /\ UNCHANGED <<tables, registrations>>
  <2>1. /\ cancel[r].member_id \in DOMAIN registration
        /\ meeting[registration[cancel[r].member_id]].status = "OPEN"
    BY <1>4 DEF CancelDenial, Permitted
  <2>2. registration[cancel[r].member_id] \in DOMAIN meeting
    BY <2>1 DEF Inv, TypeOK, RowsOK
  <2> QED
    BY <1>4, <2>1, <2>2 DEF tables
<1> QED
  BY <1>3, <1>4, CancelMoves

\* The action of CancelledOnlyWhileOpen.
Cancelling ==
  \A m \in DOMAIN registration :
    m \notin DOMAIN registration' => meeting[registration[m]].status = "OPEN"

LEMMA CancellingStep == Inv /\ CancelledMeetingsOpen /\ [Next]_vars => [Cancelling]_vars
<1> SUFFICES ASSUME Inv, CancelledMeetingsOpen, [Next]_vars,
                    NEW m \in DOMAIN registration, m \notin DOMAIN registration'
             PROVE  meeting[registration[m]].status = "OPEN"
  BY DEF Cancelling
<1>1. ASSUME NEW r \in ApplyRequests, Entered(r) PROVE FALSE
  BY <1>1 DEF Entered, Upsert
<1>2. ASSUME NEW r \in CancelRequests, Left(r)
      PROVE  meeting[registration[m]].status = "OPEN"
  <2>1. cancel[r].pc = "commit" /\ m = cancel[r].member_id
    BY <1>2 DEF Left, Delete, Restrict
  <2> QED
    BY <2>1 DEF CancelledMeetingsOpen, Inv, CancellationsStillHold
<1> QED
  BY <1>1, <1>2, RegistrationMoves

\* A registration leaves a meeting that is not OPEN only when an edit closed the meeting
\* between the read of cancel_registration and its commit.
THEOREM RegistrationCancelledWhileOpen ==
  Spec /\ [][OpenMeetingsStayOpen]_vars => CancelledOnlyWhileOpen
<1>1. Init => CancelledMeetingsOpen
  BY DEF Init, RegistrationInit, IdleCancel, CancelledMeetingsOpen
<1>2. Spec /\ [][OpenMeetingsStayOpen]_vars => [][Cancelling]_vars
  BY <1>1, CancelledMeetingsOpenStep, CancellingStep, RegistrationInvariant, PTL DEF Spec
<1> QED
  BY <1>2 DEF CancelledOnlyWhileOpen, Cancelling

-----------------------------------------------------------------------------
\* Circles of lock waits.  Registrations lock a member and then a meeting; only an edit
\* that names a new host goes the other way, from the meeting's row to the host's.
DeadlocksChangeHost ==
  \A S \in SUBSET {r \in Requests : BlockedBy(r) # None} :
    Deadlocked(S) =>
      \E r \in S \cap AdminMeetingEdits :
        meeting_form[r].pc = "commit" /\ MeetingRowChanged(r) /\ HostChanged(r)

\* A request waits for the owner of a member's row or of a meeting's.
LEMMA WaitsForARow ==
  ASSUME Inv, NEW r \in Requests, BlockedBy(r) # None
  PROVE  \/ \E m \in Members : BlockedBy(r) = member_lock[m]
         \/ \E g \in Meetings : BlockedBy(r) = meeting_lock[g]
<1>1. CASE r \in ApplyRequests
  BY <1>1, Kinds, AdministrationAssumption, RequestsAssumption
     DEF BlockedBy, Inv, TypeOK, RegistrationRequestsOK, ApplyFilled, MeetingRequests
<1>2. CASE r \in CancelRequests
  <2>1. cancel[r].pc \in {"lock_member", "commit"} => cancel[r].member_id \in Members
    BY <1>2 DEF Inv, TypeOK, RegistrationRequestsOK, CancelFilled
  <2>2. cancel[r].pc = "commit" => cancel[r].meeting_id \in Meetings
    BY <1>2 DEF Inv, TypeOK, RowsOK, TablesOK, CancellationsStillHold
  <2> QED
    BY <1>2, <2>1, <2>2, Kinds, AdministrationAssumption, RequestsAssumption
       DEF BlockedBy, MeetingRequests
<1>3. CASE r \in MeetingRequests
  <2>1. meeting_form[r].pc \in {"flush", "commit"} => meeting_form[r].meeting_id \in Meetings
    BY <1>3 DEF Inv, TypeOK, FormsOK, MeetingFormFilled, MeetingSteps, RowsOK, TablesOK
  <2>2. meeting_form[r].pc \in {"commit", "insert"} => meeting_form[r].form.host_id \in Members
    BY <1>3 DEF Inv, TypeOK, FormsOK, MeetingFormFilled, MeetingSteps, RowsOK, TablesOK
  <2>3. r \notin ApplyRequests \cup CancelRequests \cup MemberEdits
    BY <1>3, Kinds, AdministrationAssumption
  <2> QED
    BY <2>1, <2>2, <2>3 DEF BlockedBy
<1>4. CASE r \in MemberEdits
  <2>1. member_form[r].pc = "save" => member_form[r].member_id \in Members
    BY <1>4 DEF Inv, TypeOK, FormsOK, MemberFormFilled, MemberSteps, RowsOK, TablesOK
  <2>2. r \notin ApplyRequests \cup CancelRequests \cup MeetingRequests
    BY <1>4, AdministrationAssumption, RequestsAssumption
  <2> QED
    BY <2>1, <2>2 DEF BlockedBy, MeetingRequests
<1> QED
  BY <1>1, <1>2, <1>3, <1>4, AdministrationAssumption DEF Requests

\* The owner of a member's row that is blocked waits for a meeting's.
LEMMA MemberOwnerWaits ==
  ASSUME Inv, NEW m \in Members, NEW q \in Requests, q = member_lock[m], BlockedBy(q) # None
  PROVE  \E g \in Meetings : BlockedBy(q) = meeting_lock[g]
<1>1. q \in ApplyRequests \cup CancelRequests
  BY RequestsAssumption DEF Inv, TypeOK, LocksOK
<1>2. CASE q \in ApplyRequests
  <2>1. HoldsMember(q) /\ apply[q].meeting_id \in Meetings
    BY <1>2 DEF Inv, LocksMatchSteps, TypeOK, RegistrationRequestsOK, ApplyFilled, HoldsMember
  <2>2. q \notin CancelRequests \cup MeetingEdits \cup MeetingCreations \cup MemberEdits
    BY <1>2, AdministrationAssumption, RequestsAssumption DEF MeetingRequests
  <2> QED
    BY <1>2, <2>1, <2>2 DEF BlockedBy, HoldsMember
<1>3. CASE q \in CancelRequests
  <2>1. cancel[q].pc = "commit" /\ cancel[q].meeting_id \in Meetings
    BY <1>3 DEF Inv, LocksMatchSteps, TypeOK, RowsOK, TablesOK, CancellationsStillHold
  <2>2. q \notin ApplyRequests \cup MeetingEdits \cup MeetingCreations \cup MemberEdits
    BY <1>3, AdministrationAssumption, RequestsAssumption DEF MeetingRequests
  <2> QED
    BY <1>3, <2>1, <2>2 DEF BlockedBy
<1> QED
  BY <1>1, <1>2, <1>3

\* The owner of a meeting's row that is blocked is an edit that names another host: an
\* application that has locked the meeting waits for nothing more.
LEMMA MeetingOwnerChangesHost ==
  ASSUME Inv, NEW g \in Meetings, NEW q \in Requests, q = meeting_lock[g], BlockedBy(q) # None
  PROVE  /\ q \in AdminMeetingEdits
         /\ meeting_form[q].pc = "commit" /\ MeetingRowChanged(q) /\ HostChanged(q)
<1>1. q \in ApplyRequests \cup MeetingEdits
  BY RequestsAssumption DEF Inv, TypeOK, LocksOK
<1>2. CASE q \in ApplyRequests
  <2>1. HoldsMeeting(q)
    BY <1>2 DEF Inv, LocksMatchSteps
  <2>2. q \notin CancelRequests \cup MeetingEdits \cup MeetingCreations \cup MemberEdits
    BY <1>2, AdministrationAssumption, RequestsAssumption DEF MeetingRequests
  <2> QED
    BY <1>2, <2>1, <2>2 DEF BlockedBy, HoldsMeeting
<1>3. CASE q \in MeetingEdits
  <2>1. meeting_form[q].pc = "commit" /\ MeetingRowChanged(q)
    BY <1>3 DEF Inv, LocksMatchSteps
  <2>2. q \notin ApplyRequests \cup CancelRequests \cup MeetingCreations \cup MemberEdits
    BY <1>3, AdministrationAssumption, RequestsAssumption DEF MeetingRequests
  <2>3. HostChanged(q)
    BY <1>3, <2>1, <2>2 DEF BlockedBy
  <2> QED
    BY <2>1, <2>3 DEF HostChanged
<1> QED
  BY <1>1, <1>2, <1>3

LEMMA DeadlocksNeedHostChange == Inv => DeadlocksChangeHost
<1> SUFFICES ASSUME Inv, NEW S \in SUBSET {r \in Requests : BlockedBy(r) # None}, Deadlocked(S)
             PROVE  \E r \in S \cap AdminMeetingEdits :
                      meeting_form[r].pc = "commit" /\ MeetingRowChanged(r) /\ HostChanged(r)
  BY DEF DeadlocksChangeHost
<1>1. \A r \in S : r \in Requests /\ BlockedBy(r) # None /\ BlockedBy(r) \in S
  BY DEF Deadlocked
<1>2. ASSUME NEW r \in S, NEW g \in Meetings, BlockedBy(r) = meeting_lock[g]
      PROVE  \E q \in S \cap AdminMeetingEdits :
               meeting_form[q].pc = "commit" /\ MeetingRowChanged(q) /\ HostChanged(q)
  <2> PICK q \in S : q = BlockedBy(r)
    BY <1>1
  <2> QED
    BY <1>1, <1>2, MeetingOwnerChangesHost
<1>3. PICK r \in S : TRUE
  BY DEF Deadlocked
<1>4. CASE \E g \in Meetings : BlockedBy(r) = meeting_lock[g]
  BY <1>2, <1>4
<1>5. CASE \E m \in Members : BlockedBy(r) = member_lock[m]
  <2> PICK q \in S : q = BlockedBy(r)
    BY <1>1
  <2>1. \E g \in Meetings : BlockedBy(q) = meeting_lock[g]
    BY <1>1, <1>5, MemberOwnerWaits
  <2> QED
    BY <1>2, <2>1
<1> QED
  BY <1>1, <1>4, <1>5, WaitsForARow

\* Whoever waits in a circle, an admin's edit is part of it that writes the meeting and
\* waits for the member it makes host.
THEOREM RegistrationDeadlocks == Spec => []DeadlocksChangeHost
BY RegistrationInvariant, DeadlocksNeedHostChange, PTL

\* IMPLEMENTATION_PLAN.md's lock order keeps registrations, cancellations, host edits, new
\* meetings and member edits from deadlocking: without admins' edits of meetings nobody
\* ever waits in a circle.
THEOREM RegistrationNoDeadlock ==
  ASSUME AdminMeetingEdits = {}
  PROVE  Spec => []NoDeadlock
<1>1. DeadlocksChangeHost => NoDeadlock
  BY DEF DeadlocksChangeHost, NoDeadlock
<1> QED
  BY <1>1, RegistrationDeadlocks, PTL
=============================================================================
