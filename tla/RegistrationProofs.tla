------------------------- MODULE RegistrationProofs -------------------------
(***************************************************************************)
(* Registrations and edits interleaved statement by statement, for every   *)
(* set of members, meetings and requests: the types, the discipline of the *)
(* row locks, and what apply_to_meeting and cancel_registration decided    *)
(* still true when they commit.  The four together are inductive: a        *)
(* decision survives because the rows it read are locked, a lock is only   *)
(* taken for a row that exists, and a row is only written by an edit that  *)
(* found nobody holding it.                                                *)
(***************************************************************************)
EXTENDS RegistrationProperties, FiniteSetTheorems, TLAPS

Inv == TypeOK /\ LocksMatchSteps /\ DecisionsStillHold /\ CancellationsStillHold

\* No request is of two kinds, and None is none of them.
LEMMA Kinds ==
  /\ ApplyRequests \cap CancelRequests = {}
  /\ (ApplyRequests \cup CancelRequests) \cap MeetingRequests = {}
  /\ (ApplyRequests \cup CancelRequests) \cap MeetingEdits = {}
  /\ MeetingEdits \subseteq MeetingRequests /\ MeetingCreations \subseteq MeetingRequests
  /\ MeetingEdits \cap MeetingCreations = {}
  /\ None \notin ApplyRequests \cup CancelRequests \cup MeetingRequests \cup MeetingEdits
BY RequestsAssumption, AdministrationAssumption DEF Requests, MeetingRequests

-----------------------------------------------------------------------------
LEMMA RegistrationInitial == Init => Inv
<1> SUFFICES ASSUME Init PROVE Inv
  OBVIOUS
<1> USE DEF Init, RegistrationInit
<1>1. PICK t \in InitialTables :
        member = t.member /\ meeting = t.meeting /\ meeting_host = t.meeting_host
  BY DEF TablesInit
<1>2. TablesOK(member, meeting, meeting_host)
  BY <1>1, InitialAssumption
<1>3. RowsOK
  <2>1. registration = [m \in {} |-> m] /\ registration_open = FALSE
    BY DEF TablesInit
  <2>2. registration_history \in [Members -> Seq(HistoryRow)]
    <3>1. <<>> \in Seq(HistoryRow)
      OBVIOUS
    <3> QED
      BY <3>1
  <2> QED
    BY <1>2, <2>1, <2>2 DEF RowsOK
<1>4. LocksOK
  BY DEF LocksOK
<1>5. RegistrationRequestsOK
  BY DEF RegistrationRequestsOK, ApplyRecord, CancelRecord, IdleApply, IdleCancel,
     ApplyFilled, CancelFilled
<1>6. FormsOK
  BY DEF FormsOK, MeetingFormRecord, MemberFormRecord, IdleMeetingForm, IdleMemberForm,
     MeetingFormFilled, MemberFormFilled, MeetingSteps, MemberSteps
<1>7. LocksMatchSteps
  BY Kinds DEF LocksMatchSteps, HoldsMember, HoldsMeeting, IdleApply, IdleCancel,
     IdleMeetingForm, MeetingRequests
<1>8. DecisionsStillHold /\ CancellationsStillHold
  BY DEF DecisionsStillHold, CancellationsStillHold, HoldsMember, HoldsMeeting, IdleApply,
     IdleCancel
<1> QED
  BY <1>3, <1>4, <1>5, <1>6, <1>7, <1>8 DEF Inv, TypeOK

-----------------------------------------------------------------------------
\* The parts of Inv that a step which leaves the rows and the forms alone keeps.
LEMMA SameRows ==
  ASSUME RowsOK, UNCHANGED <<tables, registrations, registration_open>>
  PROVE  RowsOK'
BY DEF RowsOK, TablesOK, tables, registrations

LEMMA SameForms ==
  ASSUME FormsOK, UNCHANGED <<tables, forms>>
  PROVE  FormsOK'
BY DEF FormsOK, MeetingFormFilled, MemberFormFilled, tables, forms

\* A step that replaces one request's locals by well-formed ones.
LEMMA ApplyUpdated ==
  ASSUME RegistrationRequestsOK, NEW r \in ApplyRequests, NEW locals \in ApplyRecord,
         locals.pc # "idle" => locals.member_id \in Members /\ locals.meeting_id \in Meetings,
         apply' = [apply EXCEPT ![r] = locals], UNCHANGED cancel
  PROVE  /\ RegistrationRequestsOK'
         /\ apply'[r] = locals
         /\ \A q \in ApplyRequests \ {r} : apply'[q] = apply[q]
BY DEF RegistrationRequestsOK, ApplyFilled, CancelFilled

LEMMA ApplyEnded ==
  ASSUME RegistrationRequestsOK, NEW r \in ApplyRequests, apply[r].pc # "idle",
         NEW pc \in {"answer", "done"}, NEW answer \in ApplyAnswers \cup {"NONE"},
         EndApply(r, pc, answer), UNCHANGED cancel
  PROVE  /\ RegistrationRequestsOK'
         /\ apply'[r].pc = pc
         /\ \A q \in ApplyRequests \ {r} : apply'[q] = apply[q]
<1> DEFINE locals == [apply[r] EXCEPT !.pc = pc, !.answer = answer,
                                      !.active_part_member_count = 0,
                                      !.distribution_meeting_count = 0]
<1>1. apply[r] \in ApplyRecord /\ ApplyFilled(r)
  BY DEF RegistrationRequestsOK
<1>2. locals \in ApplyRecord
  BY <1>1 DEF ApplyRecord, ApplySteps
<1>3. locals.pc = pc /\ locals.member_id = apply[r].member_id
      /\ locals.meeting_id = apply[r].meeting_id
  BY <1>1 DEF ApplyRecord
<1>4. apply' = [apply EXCEPT ![r] = locals]
  BY DEF EndApply
<1> HIDE DEF locals
<1> QED
  BY <1>1, <1>2, <1>3, <1>4, ApplyUpdated DEF ApplyFilled

\* An apply transaction that ends without a commit: an answer, and the locks released.
LEMMA ApplyEnds ==
  ASSUME Inv, NEW r \in ApplyRequests, apply[r].pc \in ApplySteps, NEW answer \in ApplyAnswers,
         AnswerApply(r, answer), ReleaseLocks(r),
         UNCHANGED <<tables, registrations, registration_open, cancel, forms>>
  PROVE  Inv'
<1> USE DEF Inv, TypeOK
<1>1. apply[r].pc # "idle"
  BY DEF ApplySteps
<1>2. /\ RegistrationRequestsOK'
      /\ apply'[r].pc = "done"
      /\ \A q \in ApplyRequests \ {r} : apply'[q] = apply[q]
  BY <1>1, ApplyEnded DEF AnswerApply
<1>3. RowsOK' /\ FormsOK'
  BY SameRows, SameForms
<1>4. LocksOK'
  BY DEF LocksOK, ReleaseLocks
<1>5. LocksMatchSteps'
  BY <1>2, Kinds DEF LocksMatchSteps, LocksOK, HoldsMember, HoldsMeeting, MeetingRowChanged,
     ReleaseLocks, forms
<1>6. DecisionsStillHold'
  BY <1>2 DEF DecisionsStillHold, HoldsMember, HoldsMeeting, Applicants, tables, registrations
<1>7. CancellationsStillHold'
  BY DEF CancellationsStillHold, tables, registrations
<1> QED
  BY <1>2, <1>3, <1>4, <1>5, <1>6, <1>7

LEMMA ReceiveApplyPreserves ==
  ASSUME Inv, NEW r \in ApplyRequests, NEW m \in Members, NEW g \in Meetings,
         ReceiveApply(r, m, g), UNCHANGED forms
  PROVE  Inv'
<1> USE DEF Inv, TypeOK
<1> DEFINE locals == [apply[r] EXCEPT
              !.member_id = m, !.meeting_id = g,
              !.pc = IF registration_open THEN "lock_member" ELSE "done",
              !.answer = IF registration_open THEN "NONE" ELSE "REGISTRATION_NOT_STARTED"]
<1>1. apply[r] \in ApplyRecord
  BY DEF RegistrationRequestsOK
<1>2. locals \in ApplyRecord
  BY <1>1 DEF ApplyRecord, ApplySteps, ApplyAnswers
<1>3. locals.pc \in {"lock_member", "done"} /\ locals.member_id = m /\ locals.meeting_id = g
  BY <1>1 DEF ApplyRecord
<1>4. /\ apply[r].pc = "idle"
      /\ apply' = [apply EXCEPT ![r] = locals]
      /\ UNCHANGED <<tables, registrations, registration_open, locks, cancel>>
  BY DEF ReceiveApply
<1> HIDE DEF locals
<1>5. /\ RegistrationRequestsOK'
      /\ apply'[r] = locals
      /\ \A q \in ApplyRequests \ {r} : apply'[q] = apply[q]
  BY <1>2, <1>3, <1>4, ApplyUpdated
<1>6. RowsOK' /\ FormsOK' /\ LocksOK'
  BY <1>4, SameRows, SameForms DEF LocksOK, locks
<1>7. LocksMatchSteps'
  BY <1>3, <1>4, <1>5 DEF LocksMatchSteps, HoldsMember, HoldsMeeting, MeetingRowChanged,
     locks, forms
<1>8. DecisionsStillHold'
  BY <1>3, <1>4, <1>5 DEF DecisionsStillHold, HoldsMember, HoldsMeeting, Applicants, tables,
     registrations
<1>9. CancellationsStillHold'
  BY <1>4 DEF CancellationsStillHold, tables, registrations
<1> QED
  BY <1>5, <1>6, <1>7, <1>8, <1>9

\* What the applicant-level checks return, and what is true when they permit.
LEMMA ApplicantChecked ==
  ASSUME NEW m
  PROVE  /\ ApplicantDenial(m) \in ApplyAnswers \cup {Permitted}
         /\ ApplicantDenial(m) = Permitted =>
              /\ m \in DOMAIN member \ DOMAIN registration
              /\ member[m].active /\ member[m].apply_enabled
<1>1. CASE m \notin DOMAIN member \/ HostsOpenMeeting(m)
  BY <1>1 DEF ApplicantDenial, ApplyAnswers, Permitted
<1>2. CASE m \in DOMAIN member /\ ~HostsOpenMeeting(m)
  BY <1>2 DEF ApplicantDenial, ApplicantDenialReason, ApplyAnswers, Permitted
<1> QED
  BY <1>1, <1>2

LEMMA LockMemberPreserves ==
  ASSUME Inv, NEW r \in ApplyRequests, LockMember(r), UNCHANGED forms
  PROVE  Inv'
<1> USE DEF Inv, TypeOK
<1> DEFINE m == apply[r].member_id
<1>1. /\ apply[r].pc = "lock_member" /\ m \in Members /\ member_lock[m] = None
      /\ UNCHANGED <<tables, registrations, registration_open, cancel>>
  BY DEF LockMember, RegistrationRequestsOK, ApplyFilled
<1>2. CASE ApplicantDenial(m) # Permitted /\ AnswerApply(r, ApplicantDenial(m)) /\ UNCHANGED locks
  <2>1. ReleaseLocks(r)
    BY <1>1, <1>2 DEF ReleaseLocks, locks, LocksMatchSteps, LocksOK, HoldsMember, HoldsMeeting
  <2>2. ApplicantDenial(m) \in ApplyAnswers
    BY <1>2, ApplicantChecked
  <2> QED
    BY <1>1, <1>2, <2>1, <2>2, ApplyEnds DEF ApplySteps
<1>3. CASE /\ ApplicantDenial(m) = Permitted
           /\ apply' = [apply EXCEPT ![r].pc = "lock_meeting"]
           /\ LockMemberRow(m, r) /\ UNCHANGED meeting_lock
  <2>1. /\ m \in DOMAIN member \ DOMAIN registration
        /\ member[m].active /\ member[m].apply_enabled
    BY <1>3, ApplicantChecked
  <2>2. /\ RegistrationRequestsOK'
        /\ apply'[r].pc = "lock_meeting" /\ apply'[r].member_id = m
        /\ \A q \in ApplyRequests \ {r} : apply'[q] = apply[q]
    BY <1>1, <1>3 DEF RegistrationRequestsOK, ApplyRecord, ApplySteps, ApplyFilled, CancelFilled
  <2>3. RowsOK' /\ FormsOK'
    BY <1>1, SameRows, SameForms
  <2>4. LocksOK'
    BY <1>1, <1>3 DEF LocksOK, LockMemberRow
  <2>5. LocksMatchSteps'
    BY <1>1, <1>3, <2>2, Kinds DEF LocksMatchSteps, LocksOK, HoldsMember, HoldsMeeting,
       MeetingRowChanged, LockMemberRow, forms
  <2>6. DecisionsStillHold'
    BY <1>1, <2>1, <2>2 DEF DecisionsStillHold, HoldsMember, HoldsMeeting, Applicants, tables,
       registrations
  <2>7. CancellationsStillHold'
    BY <1>1 DEF CancellationsStillHold, tables, registrations
  <2> QED
    BY <2>2, <2>3, <2>4, <2>5, <2>6, <2>7
<1> QED
  BY <1>2, <1>3 DEF LockMember

\* What is counted is finite.
LEMMA CountsAreNaturals ==
  ASSUME RowsOK
  PROVE  /\ \A p : Cardinality(ActivePartMembers(p)) \in Nat
         /\ Cardinality(DistributionMeetings) \in Nat
         /\ \A g : Cardinality(Applicants(g)) \in Nat
<1>1. DOMAIN member \subseteq Members /\ DOMAIN meeting \subseteq Meetings
  BY DEF RowsOK, TablesOK
<1>2. ASSUME NEW p PROVE Cardinality(ActivePartMembers(p)) \in Nat
  <2>1. ActivePartMembers(p) \subseteq Members
    BY <1>1 DEF ActivePartMembers
  <2> QED
    BY <2>1, FiniteAssumption, FS_Subset, FS_CardinalityType
<1>3. Cardinality(DistributionMeetings) \in Nat
  <2>1. DistributionMeetings \subseteq Meetings
    BY <1>1 DEF DistributionMeetings
  <2> QED
    BY <2>1, FiniteAssumption, FS_Subset, FS_CardinalityType
<1>4. ASSUME NEW g PROVE Cardinality(Applicants(g)) \in Nat
  <2>1. Applicants(g) \subseteq Members
    BY <1>1 DEF Applicants, RowsOK
  <2> QED
    BY <2>1, FiniteAssumption, FS_Subset, FS_CardinalityType
<1> QED
  BY <1>2, <1>3, <1>4

LEMMA LockMeetingPreserves ==
  ASSUME Inv, NEW r \in ApplyRequests, LockMeeting(r), UNCHANGED forms
  PROVE  Inv'
<1> USE DEF Inv, TypeOK
<1> DEFINE g == apply[r].meeting_id
<1>1. /\ apply[r].pc = "lock_meeting" /\ g \in Meetings /\ apply[r].member_id \in Members
      /\ UNCHANGED <<tables, registrations, registration_open, cancel>>
  BY DEF LockMeeting, RegistrationRequestsOK, ApplyFilled
<1>2. CASE AnswerApply(r, "MEETING_NOT_OPEN") /\ ReleaseLocks(r)
  BY <1>1, <1>2, ApplyEnds DEF ApplySteps, ApplyAnswers
<1>3. CASE /\ g \in DOMAIN meeting
           /\ LockMeetingRow(g, r) /\ UNCHANGED member_lock
           /\ \E n \in Nat : apply' = [apply EXCEPT ![r] =
                [@ EXCEPT !.pc = "count_distribution", !.active_part_member_count = n]]
  <2> PICK n \in Nat : apply' = [apply EXCEPT ![r] =
                [apply[r] EXCEPT !.pc = "count_distribution", !.active_part_member_count = n]]
    BY <1>3
  <2> DEFINE locals ==
        [apply[r] EXCEPT !.pc = "count_distribution", !.active_part_member_count = n]
  <2>1. apply[r] \in ApplyRecord
    BY DEF RegistrationRequestsOK
  <2>2. locals \in ApplyRecord
    BY <2>1 DEF ApplyRecord, ApplySteps
  <2>3. locals.pc = "count_distribution" /\ locals.meeting_id = g
        /\ locals.member_id = apply[r].member_id
    BY <2>1 DEF ApplyRecord
  <2>0. apply' = [apply EXCEPT ![r] = locals]
    OBVIOUS
  <2> HIDE DEF locals
  <2>4. /\ RegistrationRequestsOK'
        /\ apply'[r] = locals
        /\ \A q \in ApplyRequests \ {r} : apply'[q] = apply[q]
    BY <1>1, <2>0, <2>2, <2>3, ApplyUpdated
  <2>5. RowsOK' /\ FormsOK'
    BY <1>1, SameRows, SameForms
  <2>6. LocksOK'
    BY <1>1, <1>3 DEF LocksOK, LockMeetingRow
  <2>7. LocksMatchSteps'
    <3>1. meeting_lock[g] = None /\ meeting_lock' = [meeting_lock EXCEPT ![g] = r]
      BY <1>3 DEF LockMeetingRow
    <3>2. \A h \in Meetings, q \in ApplyRequests :
            meeting_lock'[h] = q <=> HoldsMeeting(q)' /\ apply'[q].meeting_id = h
      BY <1>1, <2>3, <2>4, <3>1, Kinds DEF LocksMatchSteps, LocksOK, HoldsMeeting
    <3>3. \A h \in Meetings, q \in MeetingEdits : meeting_lock'[h] = q <=> meeting_lock[h] = q
      BY <1>1, <3>1, Kinds DEF LocksOK
    <3>4. \A q \in ApplyRequests :
            /\ HoldsMember(q)' = HoldsMember(q)
            /\ apply'[q].member_id = apply[q].member_id
      BY <1>1, <2>3, <2>4 DEF HoldsMember
    <3> QED
      BY <1>1, <1>3, <3>2, <3>3, <3>4 DEF LocksMatchSteps, MeetingRowChanged, forms
  <2>8. DecisionsStillHold'
    BY <1>1, <1>3, <2>3, <2>4 DEF DecisionsStillHold, HoldsMember, HoldsMeeting, Applicants,
       tables, registrations
  <2>9. CancellationsStillHold'
    BY <1>1 DEF CancellationsStillHold, tables, registrations
  <2> QED
    BY <2>4, <2>5, <2>6, <2>7, <2>8, <2>9
<1> QED
  BY <1>2, <1>3, CountsAreNaturals DEF LockMeeting

LEMMA CountDistributionPreserves ==
  ASSUME Inv, NEW r \in ApplyRequests, CountDistribution(r), UNCHANGED forms
  PROVE  Inv'
<1> USE DEF Inv, TypeOK
<1> DEFINE n == Cardinality(DistributionMeetings)
           locals == [apply[r] EXCEPT !.pc = "decide", !.distribution_meeting_count = n]
<1>1. apply[r] \in ApplyRecord /\ n \in Nat
  BY CountsAreNaturals DEF RegistrationRequestsOK
<1>2. /\ apply[r].pc = "count_distribution"
      /\ apply' = [apply EXCEPT ![r] = locals]
      /\ UNCHANGED <<tables, registrations, registration_open, locks, cancel>>
  BY DEF CountDistribution
<1> HIDE DEF n
<1>3. locals \in ApplyRecord
  BY <1>1 DEF ApplyRecord, ApplySteps
<1>4. locals.pc = "decide" /\ locals.member_id = apply[r].member_id
      /\ locals.meeting_id = apply[r].meeting_id
  BY <1>1 DEF ApplyRecord
<1> HIDE DEF locals
<1>5. /\ RegistrationRequestsOK'
      /\ apply'[r] = locals
      /\ \A q \in ApplyRequests \ {r} : apply'[q] = apply[q]
  BY <1>2, <1>3, <1>4, ApplyUpdated DEF RegistrationRequestsOK, ApplyFilled
<1>6. RowsOK' /\ FormsOK' /\ LocksOK'
  BY <1>2, SameRows, SameForms DEF LocksOK, locks
<1>7. LocksMatchSteps'
  BY <1>2, <1>4, <1>5 DEF LocksMatchSteps, HoldsMember, HoldsMeeting, MeetingRowChanged,
     locks, forms
<1>8. DecisionsStillHold'
  BY <1>2, <1>4, <1>5 DEF DecisionsStillHold, HoldsMember, HoldsMeeting, Applicants, tables,
     registrations
<1>9. CancellationsStillHold'
  BY <1>2 DEF CancellationsStillHold, tables, registrations
<1> QED
  BY <1>5, <1>6, <1>7, <1>8, <1>9

\* What the meeting-level checks return, and what is true when they permit.
LEMMA MeetingChecked ==
  ASSUME RowsOK, NEW m, NEW g \in DOMAIN meeting, NEW activeMembers, NEW meetings
  PROVE  LET denial == MeetingDenial(m, g, activeMembers, meetings) IN
         /\ denial \in ApplyAnswers \cup {Permitted}
         /\ denial = Permitted => /\ meeting[g].status = "OPEN"
                                  /\ Cardinality(Applicants(g)) < meeting[g].capacity
<1> DEFINE partAllowed ==
             PartRegistrationAllowed(PartOf[m], Applicants(g), PartOf, activeMembers, meetings)
           applied == Cardinality(Applicants(g))
<1>1. MeetingDenial(m, g, activeMembers, meetings)
        = MeetingDenialReason(meeting[g].status, applied, meeting[g].capacity, partAllowed)
  BY DEF MeetingDenial
<1>2. applied \in Nat /\ meeting[g].capacity \in Nat
  BY CountsAreNaturals DEF RowsOK, TablesOK, MeetingRow
<1> HIDE DEF partAllowed, applied
<1>3. /\ MeetingDenial(m, g, activeMembers, meetings) \in ApplyAnswers \cup {Permitted}
      /\ MeetingDenial(m, g, activeMembers, meetings) = Permitted =>
           meeting[g].status = "OPEN" /\ applied < meeting[g].capacity
  BY <1>1, <1>2 DEF MeetingDenialReason, ApplyAnswers, Permitted
<1> QED
  BY <1>3 DEF applied

LEMMA DecidePreserves ==
  ASSUME Inv, NEW r \in ApplyRequests, Decide(r), UNCHANGED forms
  PROVE  Inv'
<1> USE DEF Inv, TypeOK
<1> DEFINE m == apply[r].member_id
           g == apply[r].meeting_id
           denial == MeetingDenial(m, g, apply[r].active_part_member_count,
                                   apply[r].distribution_meeting_count)
<1>1. /\ apply[r].pc = "decide" /\ m \in Members /\ g \in Meetings
      /\ UNCHANGED <<tables, registrations, registration_open, cancel>>
  BY DEF Decide, RegistrationRequestsOK, ApplyFilled
<1>2. g \in DOMAIN meeting
  BY <1>1 DEF DecisionsStillHold, HoldsMeeting
<1>3. /\ denial \in ApplyAnswers \cup {Permitted}
      /\ denial = Permitted => /\ meeting[g].status = "OPEN"
                               /\ Cardinality(Applicants(g)) < meeting[g].capacity
  BY <1>2, MeetingChecked
<1>4. \/ denial # Permitted /\ AnswerApply(r, denial) /\ ReleaseLocks(r)
      \/ denial = Permitted /\ apply' = [apply EXCEPT ![r].pc = "commit"] /\ UNCHANGED locks
  BY DEF Decide
<1> HIDE DEF denial
<1>5. CASE denial # Permitted /\ AnswerApply(r, denial) /\ ReleaseLocks(r)
  BY <1>1, <1>3, <1>5, ApplyEnds DEF ApplySteps
<1>6. CASE denial = Permitted /\ apply' = [apply EXCEPT ![r].pc = "commit"] /\ UNCHANGED locks
  <2>1. /\ RegistrationRequestsOK'
        /\ apply'[r].pc = "commit" /\ apply'[r].member_id = m /\ apply'[r].meeting_id = g
        /\ \A q \in ApplyRequests \ {r} : apply'[q] = apply[q]
    BY <1>1, <1>6 DEF RegistrationRequestsOK, ApplyRecord, ApplySteps, ApplyFilled, CancelFilled
  <2>2. RowsOK' /\ FormsOK' /\ LocksOK'
    BY <1>1, <1>6, SameRows, SameForms DEF LocksOK, locks
  <2>3. LocksMatchSteps'
    BY <1>1, <1>6, <2>1 DEF LocksMatchSteps, HoldsMember, HoldsMeeting, MeetingRowChanged,
       locks, forms
  <2>4. DecisionsStillHold'
    <3>1. \A h : Applicants(h)' = Applicants(h)
      BY <1>1 DEF Applicants, registrations
    <3>2. UNCHANGED <<member, meeting, registration>>
      BY <1>1 DEF tables, registrations
    <3> QED
      BY <1>1, <1>3, <1>6, <2>1, <3>1, <3>2 DEF DecisionsStillHold, HoldsMember, HoldsMeeting
  <2>5. CancellationsStillHold'
    BY <1>1 DEF CancellationsStillHold, tables, registrations
  <2> QED
    BY <2>1, <2>2, <2>3, <2>4, <2>5
<1> QED
  BY <1>4, <1>5, <1>6

LEMMA AbortApplyPreserves ==
  ASSUME Inv, NEW r \in ApplyRequests, AbortApply(r), UNCHANGED forms
  PROVE  Inv'
BY ApplyEnds DEF AbortApply, ApplyAnswers

\* The transaction is over and holds no lock.
LEMMA TellAppliedPreserves ==
  ASSUME Inv, NEW r \in ApplyRequests, TellApplied(r), UNCHANGED forms
  PROVE  Inv'
<1>1. /\ apply[r].pc = "answer" /\ AnswerApply(r, "APPLIED")
      /\ UNCHANGED <<tables, registrations, registration_open, locks, cancel>>
  BY DEF TellApplied
<1>2. ReleaseLocks(r)
  BY <1>1, Kinds DEF Inv, TypeOK, ReleaseLocks, locks, LocksMatchSteps, LocksOK, HoldsMember,
     HoldsMeeting
<1> QED
  BY <1>1, <1>2, ApplyEnds DEF ApplySteps, ApplyAnswers

\* At its commit a transaction holds both rows, so no other request of the member is
\* between its check and its commit, and no other commit touches the meeting.
LEMMA CommitApplyPreserves ==
  ASSUME Inv, NEW r \in ApplyRequests, CommitApply(r), UNCHANGED forms
  PROVE  Inv'
<1> USE DEF Inv, TypeOK
<1> DEFINE m == apply[r].member_id
           g == apply[r].meeting_id
<1>1. /\ apply[r].pc = "commit" /\ m \in Members /\ g \in Meetings
      /\ UNCHANGED <<tables, registration_open, cancel>> /\ ReleaseLocks(r)
  BY DEF CommitApply, RegistrationRequestsOK, ApplyFilled
<1>2. /\ m \in DOMAIN member \ DOMAIN registration
      /\ member[m].active /\ g \in DOMAIN meeting
  BY <1>1 DEF DecisionsStillHold, HoldsMember, HoldsMeeting
<1>3. /\ registration' = Upsert(registration, m, g)
      /\ registration_history' = [registration_history EXCEPT
           ![m] = Append(@, [action |-> "APPLY", meeting_id |-> g])]
      /\ EndApply(r, "answer", "NONE")
  BY <1>2 DEF CommitApply, RecordHistory
<1>4. /\ RegistrationRequestsOK'
      /\ apply'[r].pc = "answer"
      /\ \A q \in ApplyRequests \ {r} : apply'[q] = apply[q]
  BY <1>1, <1>3, ApplyEnded
<1>5. RowsOK'
  <2>1. registration_history' \in [Members -> Seq(HistoryRow)]
    <3>1. [action |-> "APPLY", meeting_id |-> g] \in HistoryRow
      BY <1>1 DEF HistoryRow
    <3>2. Append(registration_history[m], [action |-> "APPLY", meeting_id |-> g])
            \in Seq(HistoryRow)
      BY <1>1, <3>1 DEF RowsOK
    <3> QED
      BY <1>3, <3>2 DEF RowsOK
  <2>2. /\ DOMAIN registration' \subseteq DOMAIN member
        /\ registration' \in [DOMAIN registration' -> DOMAIN meeting]
    BY <1>2, <1>3 DEF RowsOK, Upsert
  <2> QED
    BY <1>1, <2>1, <2>2 DEF RowsOK, TablesOK, tables
<1>6. FormsOK' /\ LocksOK'
  BY <1>1, SameForms DEF LocksOK, ReleaseLocks
<1>7. LocksMatchSteps'
  BY <1>1, <1>4, Kinds DEF LocksMatchSteps, LocksOK, HoldsMember, HoldsMeeting,
     MeetingRowChanged, ReleaseLocks, forms
<1>8. DecisionsStillHold'
  <2>1. \A q \in ApplyRequests \ {r} :
          /\ HoldsMember(q) => apply[q].member_id # m
          /\ HoldsMeeting(q) => apply[q].meeting_id # g
    <3>1. member_lock[m] = r /\ meeting_lock[g] = r
      BY <1>1 DEF LocksMatchSteps, HoldsMember, HoldsMeeting
    <3>2. ASSUME NEW q \in ApplyRequests \ {r}
          PROVE  /\ HoldsMember(q) => apply[q].member_id # m
                 /\ HoldsMeeting(q) => apply[q].meeting_id # g
      <4>1. member_lock[m] = q <=> HoldsMember(q) /\ apply[q].member_id = m
        BY <1>1 DEF LocksMatchSteps
      <4>2. meeting_lock[g] = q <=> HoldsMeeting(q) /\ apply[q].meeting_id = g
        BY <1>1 DEF LocksMatchSteps
      <4> QED
        BY <3>1, <4>1, <4>2
    <3> QED
      BY <3>2
  <2>2. \A h : h # g => Applicants(h)' = Applicants(h)
    BY <1>2, <1>3 DEF Applicants, Upsert
  <2>3. DOMAIN registration' = DOMAIN registration \cup {m}
    BY <1>3 DEF Upsert
  <2> QED
    BY <1>1, <1>4, <2>1, <2>2, <2>3 DEF DecisionsStillHold, HoldsMember, HoldsMeeting, tables
<1>9. CancellationsStillHold'
  BY <1>1, <1>2, <1>3 DEF CancellationsStillHold, Upsert, tables
<1> QED
  BY <1>4, <1>5, <1>6, <1>7, <1>8, <1>9

-----------------------------------------------------------------------------
\* The same for cancellations.
LEMMA CancelUpdated ==
  ASSUME RegistrationRequestsOK, NEW r \in CancelRequests, NEW locals \in CancelRecord,
         locals.pc # "idle" => locals.member_id \in Members,
         cancel' = [cancel EXCEPT ![r] = locals], UNCHANGED apply
  PROVE  /\ RegistrationRequestsOK'
         /\ cancel'[r] = locals
         /\ \A q \in CancelRequests \ {r} : cancel'[q] = cancel[q]
BY DEF RegistrationRequestsOK, ApplyFilled, CancelFilled

LEMMA CancelAnswered ==
  ASSUME RegistrationRequestsOK, NEW r \in CancelRequests, cancel[r].pc # "idle",
         NEW answer \in CancelAnswers, AnswerCancel(r, answer), UNCHANGED apply
  PROVE  /\ RegistrationRequestsOK'
         /\ cancel'[r].pc = "done"
         /\ \A q \in CancelRequests \ {r} : cancel'[q] = cancel[q]
<1> DEFINE locals == [cancel[r] EXCEPT !.pc = "done", !.answer = answer]
<1>1. cancel[r] \in CancelRecord /\ CancelFilled(r)
  BY DEF RegistrationRequestsOK
<1>2. locals \in CancelRecord
  BY <1>1 DEF CancelRecord
<1>3. locals.pc = "done" /\ locals.member_id = cancel[r].member_id
  BY <1>1 DEF CancelRecord
<1>4. cancel' = [cancel EXCEPT ![r] = locals]
  BY DEF AnswerCancel
<1> HIDE DEF locals
<1> QED
  BY <1>1, <1>2, <1>3, <1>4, CancelUpdated DEF CancelFilled

\* A cancellation that ends without a commit.
LEMMA CancelEnds ==
  ASSUME Inv, NEW r \in CancelRequests, cancel[r].pc \in CancelSteps,
         NEW answer \in CancelAnswers, AnswerCancel(r, answer), ReleaseLocks(r),
         UNCHANGED <<tables, registrations, registration_open, apply, forms>>
  PROVE  Inv'
<1> USE DEF Inv, TypeOK
<1>1. cancel[r].pc # "idle"
  BY DEF CancelSteps
<1>2. /\ RegistrationRequestsOK'
      /\ cancel'[r].pc = "done"
      /\ \A q \in CancelRequests \ {r} : cancel'[q] = cancel[q]
  BY <1>1, CancelAnswered
<1>3. RowsOK' /\ FormsOK'
  BY SameRows, SameForms
<1>4. LocksOK'
  BY DEF LocksOK, ReleaseLocks
<1>5. LocksMatchSteps'
  BY <1>2, Kinds DEF LocksMatchSteps, LocksOK, HoldsMember, HoldsMeeting, MeetingRowChanged,
     ReleaseLocks, forms
<1>6. DecisionsStillHold'
  BY DEF DecisionsStillHold, HoldsMember, HoldsMeeting, Applicants, tables, registrations
<1>7. CancellationsStillHold'
  BY <1>2 DEF CancellationsStillHold, tables, registrations
<1> QED
  BY <1>2, <1>3, <1>4, <1>5, <1>6, <1>7

LEMMA ReceiveCancelPreserves ==
  ASSUME Inv, NEW r \in CancelRequests, NEW m \in Members, ReceiveCancel(r, m), UNCHANGED forms
  PROVE  Inv'
<1> USE DEF Inv, TypeOK
<1> DEFINE locals == [cancel[r] EXCEPT
              !.member_id = m,
              !.pc = IF registration_open THEN "lock_member" ELSE "done",
              !.answer = IF registration_open THEN "NONE" ELSE "REGISTRATION_NOT_STARTED"]
<1>1. cancel[r] \in CancelRecord
  BY DEF RegistrationRequestsOK
<1>2. locals \in CancelRecord
  BY <1>1 DEF CancelRecord, CancelSteps, CancelAnswers
<1>3. locals.pc \in {"lock_member", "done"} /\ locals.member_id = m
  BY <1>1 DEF CancelRecord
<1>4. /\ cancel[r].pc = "idle"
      /\ cancel' = [cancel EXCEPT ![r] = locals]
      /\ UNCHANGED <<tables, registrations, registration_open, locks, apply>>
  BY DEF ReceiveCancel
<1> HIDE DEF locals
<1>5. /\ RegistrationRequestsOK'
      /\ cancel'[r] = locals
      /\ \A q \in CancelRequests \ {r} : cancel'[q] = cancel[q]
  BY <1>2, <1>3, <1>4, CancelUpdated
<1>6. RowsOK' /\ FormsOK' /\ LocksOK'
  BY <1>4, SameRows, SameForms DEF LocksOK, locks
<1>7. LocksMatchSteps'
  BY <1>3, <1>4, <1>5 DEF LocksMatchSteps, HoldsMember, HoldsMeeting, MeetingRowChanged,
     locks, forms
<1>8. DecisionsStillHold'
  BY <1>4 DEF DecisionsStillHold, HoldsMember, HoldsMeeting, Applicants, tables, registrations
<1>9. CancellationsStillHold'
  BY <1>3, <1>4, <1>5 DEF CancellationsStillHold, tables, registrations
<1> QED
  BY <1>5, <1>6, <1>7, <1>8, <1>9

LEMMA CancellationChecked ==
  ASSUME NEW m
  PROVE  /\ CancelDenial(m) \in CancelAnswers \cup {Permitted}
         /\ CancelDenial(m) = Permitted => m \in DOMAIN registration /\ member[m].active
BY DEF CancelDenial, CancelAnswers, Permitted

LEMMA CheckCancelPreserves ==
  ASSUME Inv, NEW r \in CancelRequests, CheckCancel(r), UNCHANGED forms
  PROVE  Inv'
<1> USE DEF Inv, TypeOK
<1> DEFINE m == cancel[r].member_id
           locals == [cancel[r] EXCEPT !.pc = "commit", !.meeting_id = registration[m]]
<1>1. /\ cancel[r].pc = "lock_member" /\ m \in Members /\ member_lock[m] = None
      /\ UNCHANGED <<tables, registrations, registration_open, apply>>
  BY DEF CheckCancel, RegistrationRequestsOK, CancelFilled
<1>2. CASE CancelDenial(m) # Permitted /\ AnswerCancel(r, CancelDenial(m)) /\ UNCHANGED locks
  <2>1. ReleaseLocks(r)
    BY <1>1, <1>2, Kinds DEF ReleaseLocks, locks, LocksMatchSteps, LocksOK
  <2>2. CancelDenial(m) \in CancelAnswers
    BY <1>2, CancellationChecked
  <2> QED
    BY <1>1, <1>2, <2>1, <2>2, CancelEnds DEF CancelSteps
<1>3. CASE /\ CancelDenial(m) = Permitted /\ cancel' = [cancel EXCEPT ![r] = locals]
           /\ LockMemberRow(m, r) /\ UNCHANGED meeting_lock
  <2>1. m \in DOMAIN registration /\ member[m].active /\ registration[m] \in Meetings
    BY <1>3, CancellationChecked DEF RowsOK, TablesOK
  <2>2. cancel[r] \in CancelRecord
    BY DEF RegistrationRequestsOK
  <2>3. locals \in CancelRecord
    BY <2>1, <2>2 DEF CancelRecord, CancelSteps
  <2>4. locals.pc = "commit" /\ locals.member_id = m /\ locals.meeting_id = registration[m]
    BY <2>2 DEF CancelRecord
  <2>5. cancel' = [cancel EXCEPT ![r] = locals]
    BY <1>3
  <2> HIDE DEF locals
  <2>6. /\ RegistrationRequestsOK'
        /\ cancel'[r] = locals
        /\ \A q \in CancelRequests \ {r} : cancel'[q] = cancel[q]
    BY <1>1, <2>3, <2>4, <2>5, CancelUpdated
  <2>7. RowsOK' /\ FormsOK' /\ LocksOK'
    BY <1>1, <1>3, SameRows, SameForms DEF LocksOK, LockMemberRow
  <2>8. LocksMatchSteps'
    BY <1>1, <1>3, <2>4, <2>6, Kinds DEF LocksMatchSteps, LocksOK, HoldsMember, HoldsMeeting,
       MeetingRowChanged, LockMemberRow, forms
  <2>9. DecisionsStillHold'
    BY <1>1 DEF DecisionsStillHold, HoldsMember, HoldsMeeting, Applicants, tables, registrations
  <2>10. CancellationsStillHold'
    BY <1>1, <2>1, <2>4, <2>6 DEF CancellationsStillHold, tables, registrations
  <2> QED
    BY <2>6, <2>7, <2>8, <2>9, <2>10
<1> QED
  BY <1>2, <1>3 DEF CheckCancel

LEMMA AbortCancelPreserves ==
  ASSUME Inv, NEW r \in CancelRequests, AbortCancel(r), UNCHANGED forms
  PROVE  Inv'
BY CancelEnds DEF AbortCancel, CancelAnswers

LEMMA TellCancelledPreserves ==
  ASSUME Inv, NEW r \in CancelRequests, TellCancelled(r), UNCHANGED forms
  PROVE  Inv'
<1>1. /\ cancel[r].pc = "answer" /\ AnswerCancel(r, "CANCELLED")
      /\ UNCHANGED <<tables, registrations, registration_open, locks, apply>>
  BY DEF TellCancelled
<1>2. ReleaseLocks(r)
  BY <1>1, Kinds DEF Inv, TypeOK, ReleaseLocks, locks, LocksMatchSteps, LocksOK
<1> QED
  BY <1>1, <1>2, CancelEnds DEF CancelSteps, CancelAnswers

\* The meeting is not locked by an application, so no decision counted the applicant
\* who leaves.
LEMMA CommitCancelPreserves ==
  ASSUME Inv, NEW r \in CancelRequests, CommitCancel(r), UNCHANGED forms
  PROVE  Inv'
<1> USE DEF Inv, TypeOK
<1> DEFINE m == cancel[r].member_id
           g == cancel[r].meeting_id
<1>1. /\ cancel[r].pc = "commit" /\ m \in Members /\ meeting_lock[g] \notin ApplyRequests
      /\ registration' = Delete(registration, m)
      /\ registration_history' = [registration_history EXCEPT
           ![m] = Append(@, [action |-> "CANCEL", meeting_id |-> g])]
      /\ cancel' = [cancel EXCEPT ![r] = [cancel[r] EXCEPT !.pc = "answer"]]
      /\ ReleaseLocks(r) /\ UNCHANGED <<tables, registration_open, apply>>
  BY DEF CommitCancel, RecordHistory, LockedForUpdate, RegistrationRequestsOK, CancelFilled
<1>2. m \in DOMAIN registration /\ registration[m] = g /\ g \in Meetings /\ member[m].active
  BY <1>1 DEF CancellationsStillHold, RowsOK, TablesOK
<1>3. /\ RegistrationRequestsOK'
      /\ cancel'[r].pc = "answer"
      /\ \A q \in CancelRequests \ {r} : cancel'[q] = cancel[q]
  <2> DEFINE locals == [cancel[r] EXCEPT !.pc = "answer"]
  <2>1. locals \in CancelRecord /\ locals.pc = "answer" /\ locals.member_id = m
    BY DEF RegistrationRequestsOK, CancelRecord, CancelSteps
  <2>2. cancel' = [cancel EXCEPT ![r] = locals] /\ UNCHANGED apply
    BY <1>1
  <2> HIDE DEF locals
  <2> QED
    BY <1>1, <2>1, <2>2, CancelUpdated
<1>4. /\ DOMAIN registration' = DOMAIN registration \ {m}
      /\ \A x \in DOMAIN registration' : registration'[x] = registration[x]
      /\ registration' \in [DOMAIN registration' -> DOMAIN meeting]
  BY <1>1 DEF Delete, Restrict, RowsOK
<1>5. RowsOK'
  <2>1. registration_history' \in [Members -> Seq(HistoryRow)]
    <3>1. [action |-> "CANCEL", meeting_id |-> g] \in HistoryRow
      BY <1>2 DEF HistoryRow
    <3>2. Append(registration_history[m], [action |-> "CANCEL", meeting_id |-> g])
            \in Seq(HistoryRow)
      BY <1>1, <3>1 DEF RowsOK
    <3> QED
      BY <1>1, <3>2 DEF RowsOK
  <2> QED
    BY <1>1, <1>4, <2>1 DEF RowsOK, TablesOK, tables
<1>6. FormsOK' /\ LocksOK'
  BY <1>1, SameForms DEF LocksOK, ReleaseLocks
<1>7. LocksMatchSteps'
  BY <1>1, <1>3, Kinds DEF LocksMatchSteps, LocksOK, HoldsMember, HoldsMeeting,
     MeetingRowChanged, ReleaseLocks, forms
<1>8. DecisionsStillHold'
  <2>1. \A q \in ApplyRequests : HoldsMeeting(q) => apply[q].meeting_id # g
    BY <1>1, <1>2 DEF LocksMatchSteps
  <2>2. \A h : h # g => Applicants(h)' = Applicants(h)
    BY <1>2, <1>4 DEF Applicants
  <2> QED
    BY <1>1, <1>4, <2>1, <2>2 DEF DecisionsStillHold, HoldsMember, HoldsMeeting, tables
<1>9. CancellationsStillHold'
  <2>1. ASSUME NEW q \in CancelRequests \ {r}, cancel[q].pc = "commit"
        PROVE  cancel[q].member_id # m
    <3>1. member_lock[m] = r
      BY <1>1 DEF LocksMatchSteps
    <3>2. member_lock[m] = q <=> cancel[q].pc = "commit" /\ cancel[q].member_id = m
      BY <1>1 DEF LocksMatchSteps
    <3> QED
      BY <2>1, <3>1, <3>2
  <2> QED
    BY <1>1, <1>3, <1>4, <2>1 DEF CancellationsStillHold, tables
<1> QED
  BY <1>3, <1>5, <1>6, <1>7, <1>8, <1>9

-----------------------------------------------------------------------------
\* The console never deletes a row, so what a form names stays there.
RowsStay == DOMAIN member \subseteq DOMAIN member' /\ DOMAIN meeting \subseteq DOMAIN meeting'

LEMMA MeetingFormUpdated ==
  ASSUME FormsOK, RowsStay, NEW r \in MeetingRequests, NEW locals \in MeetingFormRecord,
         MeetingFormFilled(r, locals),
         meeting_form' = [meeting_form EXCEPT ![r] = locals], UNCHANGED member_form
  PROVE  /\ FormsOK'
         /\ meeting_form'[r] = locals
         /\ \A q \in MeetingRequests \ {r} : meeting_form'[q] = meeting_form[q]
<1>1. /\ meeting_form' \in [MeetingRequests -> MeetingFormRecord]
      /\ meeting_form'[r] = locals
      /\ \A q \in MeetingRequests \ {r} : meeting_form'[q] = meeting_form[q]
  BY DEF FormsOK
<1>2. ASSUME NEW q \in MeetingRequests PROVE MeetingFormFilled(q, meeting_form[q])'
  <2>1. MeetingFormFilled(q, meeting_form'[q])
    BY <1>1 DEF FormsOK
  <2> QED
    BY <2>1 DEF MeetingFormFilled, RowsStay
<1>3. ASSUME NEW q \in MemberEdits PROVE MemberFormFilled(member_form[q])'
  BY DEF FormsOK, MemberFormFilled, RowsStay
<1> QED
  BY <1>1, <1>2, <1>3 DEF FormsOK

LEMMA MeetingFormAnswered ==
  ASSUME FormsOK, RowsStay, NEW r \in MeetingRequests, NEW answer \in FormAnswers,
         AnswerMeetingForm(r, answer), UNCHANGED member_form
  PROVE  /\ FormsOK'
         /\ meeting_form'[r].pc = "done"
         /\ \A q \in MeetingRequests \ {r} : meeting_form'[q] = meeting_form[q]
<1> DEFINE locals == [IdleMeetingForm EXCEPT !.pc = "done", !.answer = answer]
<1>1. IdleMeetingForm \in MeetingFormRecord
  BY DEF IdleMeetingForm, MeetingFormRecord
<1>2. meeting_form' = [meeting_form EXCEPT ![r] = locals]
  BY DEF AnswerMeetingForm
<1>3. locals \in MeetingFormRecord /\ locals.pc = "done"
  BY <1>1 DEF MeetingFormRecord
<1> HIDE DEF locals
<1>4. MeetingFormFilled(r, locals)
  BY <1>3 DEF MeetingFormFilled, MeetingSteps
<1> QED
  BY <1>2, <1>3, <1>4, MeetingFormUpdated

LEMMA MemberFormUpdated ==
  ASSUME FormsOK, RowsStay, NEW r \in MemberEdits, NEW locals \in MemberFormRecord,
         MemberFormFilled(locals),
         member_form' = [member_form EXCEPT ![r] = locals], UNCHANGED meeting_form
  PROVE  FormsOK'
<1>1. /\ member_form' \in [MemberEdits -> MemberFormRecord]
      /\ member_form'[r] = locals
      /\ \A q \in MemberEdits \ {r} : member_form'[q] = member_form[q]
  BY DEF FormsOK
<1>2. ASSUME NEW q \in MemberEdits PROVE MemberFormFilled(member_form[q])'
  <2>1. MemberFormFilled(member_form'[q])
    BY <1>1 DEF FormsOK
  <2> QED
    BY <2>1 DEF MemberFormFilled, RowsStay
<1>3. ASSUME NEW q \in MeetingRequests PROVE MeetingFormFilled(q, meeting_form[q])'
  BY DEF FormsOK, MeetingFormFilled, RowsStay
<1> QED
  BY <1>1, <1>2, <1>3 DEF FormsOK

LEMMA MemberFormAnswered ==
  ASSUME FormsOK, RowsStay, NEW r \in MemberEdits, NEW answer \in FormAnswers,
         AnswerMemberForm(r, answer), UNCHANGED meeting_form
  PROVE  FormsOK'
<1> DEFINE locals == [IdleMemberForm EXCEPT !.pc = "done", !.answer = answer]
<1>1. IdleMemberForm \in MemberFormRecord
  BY DEF IdleMemberForm, MemberFormRecord
<1>2. member_form' = [member_form EXCEPT ![r] = locals]
  BY DEF AnswerMemberForm
<1>3. locals \in MemberFormRecord /\ locals.pc = "done"
  BY <1>1 DEF MemberFormRecord
<1> HIDE DEF locals
<1>4. MemberFormFilled(locals)
  BY <1>3 DEF MemberFormFilled, MemberSteps
<1> QED
  BY <1>2, <1>3, <1>4, MemberFormUpdated

\* A step that only fills in a form: no row, no lock, no meeting edit that has
\* locked its meeting or is about to.
LEMMA FormStep ==
  ASSUME Inv, FormsOK',
         UNCHANGED <<tables, registrations, registration_open, locks, apply, cancel>>,
         \A q \in MeetingEdits :
           \/ UNCHANGED meeting_form[q]
           \/ meeting_form[q].pc # "commit" /\ meeting_form'[q].pc # "commit"
  PROVE  Inv'
<1> USE DEF Inv, TypeOK
<1>1. RowsOK' /\ LocksOK' /\ RegistrationRequestsOK'
  BY SameRows DEF LocksOK, locks, RegistrationRequestsOK, ApplyFilled, CancelFilled
<1>2. LocksMatchSteps'
  <2>1. ASSUME NEW g \in Meetings, NEW q \in MeetingEdits
        PROVE  (meeting_lock[g] = q <=> /\ meeting_form[q].pc = "commit" /\ MeetingRowChanged(q)
                                       /\ meeting_form[q].meeting_id = g)'
    BY DEF LocksMatchSteps, MeetingRowChanged, locks
  <2> QED
    BY <2>1 DEF LocksMatchSteps, HoldsMember, HoldsMeeting, locks
<1>3. DecisionsStillHold'
  BY DEF DecisionsStillHold, HoldsMember, HoldsMeeting, Applicants, tables, registrations
<1>4. CancellationsStillHold'
  BY DEF CancellationsStillHold, tables, registrations
<1> QED
  BY <1>1, <1>2, <1>3, <1>4

\* A form answered before its meeting was locked, or filled in one step further.
LEMMA MeetingFormStep ==
  ASSUME Inv, NEW r \in MeetingRequests, meeting_form[r].pc # "commit",
         UNCHANGED <<tables, registrations, registration_open, locks, apply, cancel, member_form>>,
         \/ \E answer \in FormAnswers : AnswerMeetingForm(r, answer)
         \/ \E locals \in MeetingFormRecord :
              /\ MeetingFormFilled(r, locals) /\ locals.pc # "commit"
              /\ meeting_form' = [meeting_form EXCEPT ![r] = locals]
  PROVE  Inv'
<1>1. FormsOK /\ RowsStay
  BY DEF Inv, TypeOK, RowsStay, tables
<1>2. /\ FormsOK'
      /\ meeting_form'[r].pc # "commit"
      /\ \A q \in MeetingRequests \ {r} : meeting_form'[q] = meeting_form[q]
  <2>1. CASE \E answer \in FormAnswers : AnswerMeetingForm(r, answer)
    BY <1>1, <2>1, MeetingFormAnswered
  <2>2. ASSUME NEW locals \in MeetingFormRecord,
               MeetingFormFilled(r, locals), locals.pc # "commit",
               meeting_form' = [meeting_form EXCEPT ![r] = locals]
        PROVE  <1>2!1 /\ <1>2!2 /\ <1>2!3
    BY <1>1, <2>2, MeetingFormUpdated
  <2> QED
    BY <2>1, <2>2
<1> QED
  BY <1>2, FormStep, Kinds

LEMMA ReceiveAdminMeetingEditPreserves ==
  ASSUME Inv, NEW r \in AdminMeetingEdits, NEW g \in Meetings, NEW form \in MeetingForms,
         ReceiveAdminMeetingEdit(r, g, form)
  PROVE  Inv'
<1> USE DEF Inv, TypeOK
<1> DEFINE locals == [meeting_form[r] EXCEPT !.pc = "check_host", !.form = form,
                                             !.meeting_id = g, !.loaded = meeting[g]]
<1>1. /\ r \in MeetingEdits /\ r \in MeetingRequests /\ meeting_form[r].pc = "idle"
      /\ UNCHANGED <<tables, registrations, registration_open, locks, apply, cancel, member_form>>
  BY DEF ReceiveAdminMeetingEdit, MeetingEdits, MeetingRequests
<1>2. CASE AnswerMeetingForm(r, "NOT_FOUND") \/ AnswerMeetingForm(r, "INVALID")
  BY <1>1, <1>2, MeetingFormStep DEF FormAnswers
<1>3. CASE /\ g \in DOMAIN meeting /\ form.capacity >= 1
           /\ meeting_form' = [meeting_form EXCEPT ![r] = locals]
  <2>1. meeting_form[r] \in MeetingFormRecord /\ meeting[g] \in MeetingRow
    BY <1>1, <1>3 DEF FormsOK, RowsOK, TablesOK
  <2>2. locals \in MeetingFormRecord
    BY <2>1 DEF MeetingFormRecord, MeetingSteps
  <2>3. locals.pc = "check_host" /\ locals.form = form /\ locals.meeting_id = g
        /\ locals.loaded = meeting[g]
    BY <2>1 DEF MeetingFormRecord
  <2>4. meeting_form' = [meeting_form EXCEPT ![r] = locals]
    BY <1>3
  <2> HIDE DEF locals
  <2>5. MeetingFormFilled(r, locals)
    BY <1>1, <1>3, <2>1, <2>3 DEF MeetingFormFilled, MeetingSteps
  <2> QED
    BY <1>1, <2>2, <2>3, <2>4, <2>5, MeetingFormStep
<1> QED
  BY <1>2, <1>3 DEF ReceiveAdminMeetingEdit

LEMMA ReceiveHostMeetingEditPreserves ==
  ASSUME Inv, NEW r \in HostMeetingEdits, NEW m \in Members, NEW g \in Meetings,
         NEW form \in MeetingForms, ReceiveHostMeetingEdit(r, m, g, form)
  PROVE  Inv'
<1> USE DEF Inv, TypeOK
<1> DEFINE locals == [meeting_form[r] EXCEPT !.pc = "count", !.form = form,
                                             !.meeting_id = g, !.loaded = meeting[g]]
<1>1. /\ r \in MeetingEdits /\ r \in MeetingRequests /\ meeting_form[r].pc = "idle"
      /\ m \in DOMAIN member
      /\ UNCHANGED <<tables, registrations, registration_open, locks, apply, cancel, member_form>>
  BY DEF ReceiveHostMeetingEdit, MeetingEdits, MeetingRequests
<1>2. CASE AnswerMeetingForm(r, "FORBIDDEN") \/ AnswerMeetingForm(r, "INVALID")
  BY <1>1, <1>2, MeetingFormStep DEF FormAnswers
<1>3. CASE /\ g \in DOMAIN meeting /\ form.host_id = m /\ ~(form.capacity < 1)
           /\ meeting_form' = [meeting_form EXCEPT ![r] = locals]
  <2>1. /\ meeting_form[r] \in MeetingFormRecord /\ meeting[g] \in MeetingRow
        /\ form.capacity \in Nat
    BY <1>1, <1>3, AdministrationAssumption DEF FormsOK, RowsOK, TablesOK
  <2>2. locals \in MeetingFormRecord
    BY <2>1 DEF MeetingFormRecord, MeetingSteps
  <2>3. locals.pc = "count" /\ locals.form = form /\ locals.meeting_id = g
        /\ locals.loaded = meeting[g]
    BY <2>1 DEF MeetingFormRecord
  <2>4. meeting_form' = [meeting_form EXCEPT ![r] = locals]
    BY <1>3
  <2> HIDE DEF locals
  <2>5. MeetingFormFilled(r, locals)
    BY <1>1, <1>3, <2>1, <2>3 DEF MeetingFormFilled, MeetingSteps
  <2> QED
    BY <1>1, <2>2, <2>3, <2>4, <2>5, MeetingFormStep
<1> QED
  BY <1>2, <1>3 DEF ReceiveHostMeetingEdit

LEMMA ReceiveMeetingCreationPreserves ==
  ASSUME Inv, NEW r \in MeetingCreations, NEW form \in MeetingForms,
         ReceiveMeetingCreation(r, form)
  PROVE  Inv'
<1> USE DEF Inv, TypeOK
<1> DEFINE locals == [meeting_form[r] EXCEPT !.pc = "insert", !.form = form]
<1>1. /\ r \in MeetingRequests /\ meeting_form[r].pc = "idle"
      /\ UNCHANGED <<tables, registrations, registration_open, locks, apply, cancel, member_form>>
  BY Kinds DEF ReceiveMeetingCreation
<1>2. CASE AnswerMeetingForm(r, "INVALID")
  BY <1>1, <1>2, MeetingFormStep DEF FormAnswers
<1>3. CASE /\ form.capacity >= 1 /\ form.host_id \in DOMAIN member
           /\ meeting_form' = [meeting_form EXCEPT ![r] = locals]
  <2>1. meeting_form[r] \in MeetingFormRecord
    BY <1>1 DEF FormsOK
  <2>2. locals \in MeetingFormRecord
    BY <2>1 DEF MeetingFormRecord, MeetingSteps
  <2>3. locals.pc = "insert" /\ locals.form = form
    BY <2>1 DEF MeetingFormRecord
  <2>4. meeting_form' = [meeting_form EXCEPT ![r] = locals]
    BY <1>3
  <2> HIDE DEF locals
  <2>5. MeetingFormFilled(r, locals)
    BY <1>3, <2>3 DEF MeetingFormFilled
  <2> QED
    BY <1>1, <2>2, <2>3, <2>4, <2>5, MeetingFormStep
<1> QED
  BY <1>2, <1>3 DEF ReceiveMeetingCreation, HostEligible

LEMMA CheckHostPreserves ==
  ASSUME Inv, NEW r \in MeetingEdits, CheckHost(r)
  PROVE  Inv'
<1> USE DEF Inv, TypeOK
<1> DEFINE locals == [meeting_form[r] EXCEPT !.pc = "count"]
<1>1. /\ r \in MeetingRequests /\ meeting_form[r].pc = "check_host"
      /\ UNCHANGED <<tables, registrations, registration_open, locks, apply, cancel, member_form>>
  BY Kinds DEF CheckHost
<1>2. CASE AnswerMeetingForm(r, "INVALID")
  BY <1>1, <1>2, MeetingFormStep DEF FormAnswers
<1>3. CASE /\ meeting_form[r].form.host_id \in DOMAIN member
           /\ meeting_form' = [meeting_form EXCEPT ![r] = locals]
  <2>1. meeting_form[r] \in MeetingFormRecord /\ MeetingFormFilled(r, meeting_form[r])
    BY <1>1 DEF FormsOK
  <2>2. locals \in MeetingFormRecord /\ locals.pc = "count"
    BY <2>1 DEF MeetingFormRecord, MeetingSteps
  <2>3. MeetingFormFilled(r, locals)
    BY <1>1, <1>3, <2>1 DEF MeetingFormFilled, MeetingFormRecord, MeetingSteps
  <2> QED
    BY <1>1, <1>3, <2>2, <2>3, MeetingFormStep
<1> QED
  BY <1>2, <1>3 DEF CheckHost, HostEligible

LEMMA CountApplicantsPreserves ==
  ASSUME Inv, NEW r \in MeetingEdits, CountApplicants(r)
  PROVE  Inv'
<1> USE DEF Inv, TypeOK
<1> DEFINE locals == [meeting_form[r] EXCEPT !.pc = "flush"]
<1>1. /\ r \in MeetingRequests /\ meeting_form[r].pc = "count"
      /\ UNCHANGED <<tables, registrations, registration_open, locks, apply, cancel, member_form>>
  BY Kinds DEF CountApplicants
<1>2. CASE AnswerMeetingForm(r, "INVALID")
  BY <1>1, <1>2, MeetingFormStep DEF FormAnswers
<1>3. CASE meeting_form' = [meeting_form EXCEPT ![r] = locals]
  <2>1. meeting_form[r] \in MeetingFormRecord /\ MeetingFormFilled(r, meeting_form[r])
    BY <1>1 DEF FormsOK
  <2>2. locals \in MeetingFormRecord /\ locals.pc = "flush"
    BY <2>1 DEF MeetingFormRecord, MeetingSteps
  <2>3. MeetingFormFilled(r, locals)
    BY <1>1, <2>1 DEF MeetingFormFilled, MeetingFormRecord, MeetingSteps
  <2> QED
    BY <1>1, <1>3, <2>2, <2>3, MeetingFormStep
<1> QED
  BY <1>2, <1>3 DEF CountApplicants

\* A meeting edit that the database rolls back.
LEMMA AbortMeetingFormPreserves ==
  ASSUME Inv, NEW r \in MeetingRequests, AbortMeetingForm(r)
  PROVE  Inv'
<1> USE DEF Inv, TypeOK
<1>1. /\ AnswerMeetingForm(r, "ERROR") /\ ReleaseLocks(r)
      /\ UNCHANGED <<tables, registrations, registration_open, apply, cancel, member_form>>
  BY DEF AbortMeetingForm
<1>2. RowsStay
  BY <1>1 DEF RowsStay, tables
<1>3. /\ FormsOK'
      /\ meeting_form'[r].pc = "done"
      /\ \A q \in MeetingRequests \ {r} : meeting_form'[q] = meeting_form[q]
  BY <1>1, <1>2, MeetingFormAnswered DEF FormAnswers
<1>4. RowsOK' /\ LocksOK' /\ RegistrationRequestsOK'
  BY <1>1, SameRows DEF LocksOK, ReleaseLocks, RegistrationRequestsOK, ApplyFilled, CancelFilled
<1>5. LocksMatchSteps'
  BY <1>1, <1>3, Kinds DEF LocksMatchSteps, LocksOK, HoldsMember, HoldsMeeting,
     MeetingRowChanged, ReleaseLocks
<1>6. DecisionsStillHold' /\ CancellationsStillHold'
  BY <1>1 DEF DecisionsStillHold, CancellationsStillHold, HoldsMember, HoldsMeeting, Applicants,
     tables, registrations
<1> QED
  BY <1>3, <1>4, <1>5, <1>6

\* The UPDATE waits for the row's lock, so no application is deciding on the row.
LEMMA FlushMeetingPreserves ==
  ASSUME Inv, NEW r \in MeetingEdits, FlushMeeting(r)
  PROVE  Inv'
<1> USE DEF Inv, TypeOK
<1> DEFINE g == meeting_form[r].meeting_id
           locals == [meeting_form[r] EXCEPT !.pc = "commit", !.loaded_host = meeting_host[g]]
<1>1. /\ r \in MeetingRequests /\ meeting_form[r].pc = "flush"
      /\ IF MeetingRowChanged(r)
         THEN meeting_lock[g] = None /\ meeting_lock' = [meeting_lock EXCEPT ![g] = r]
         ELSE UNCHANGED meeting_lock
      /\ meeting_form' = [meeting_form EXCEPT ![r] = locals]
      /\ UNCHANGED <<tables, registrations, registration_open, member_lock, apply, cancel,
                     member_form>>
  BY Kinds DEF FlushMeeting
<1>2. meeting_form[r] \in MeetingFormRecord /\ MeetingFormFilled(r, meeting_form[r])
  BY <1>1 DEF FormsOK
<1>3. g \in DOMAIN meeting /\ g \in Meetings /\ meeting_host[g] \in Members
  BY <1>1, <1>2 DEF MeetingFormFilled, MeetingSteps, RowsOK, TablesOK
<1>4. locals \in MeetingFormRecord
  BY <1>2, <1>3 DEF MeetingFormRecord, MeetingSteps
<1>5. /\ locals.pc = "commit" /\ locals.meeting_id = g /\ locals.form = meeting_form[r].form
      /\ locals.loaded = meeting_form[r].loaded
  BY <1>2 DEF MeetingFormRecord
<1> HIDE DEF locals
<1>6. MeetingFormFilled(r, locals)
  BY <1>1, <1>2, <1>5 DEF MeetingFormFilled, MeetingSteps
<1>7. /\ FormsOK'
      /\ meeting_form'[r] = locals
      /\ \A q \in MeetingRequests \ {r} : meeting_form'[q] = meeting_form[q]
  BY <1>1, <1>4, <1>6, MeetingFormUpdated DEF RowsStay, tables
<1>8. RowsOK' /\ LocksOK' /\ RegistrationRequestsOK'
  BY <1>1, <1>3, SameRows
     DEF LocksOK, RegistrationRequestsOK, ApplyFilled, CancelFilled
<1>9. LocksMatchSteps'
  <2>1. MeetingRowChanged(r)' <=> MeetingRowChanged(r)
    BY <1>5, <1>7 DEF MeetingRowChanged
  <2>2. ASSUME NEW h \in Meetings, NEW q \in MeetingEdits
        PROVE  meeting_lock'[h] = q <=> /\ meeting_form'[q].pc = "commit"
                                        /\ MeetingRowChanged(q)'
                                        /\ meeting_form'[q].meeting_id = h
    <3>1. meeting_lock[h] = q <=> /\ meeting_form[q].pc = "commit" /\ MeetingRowChanged(q)
                                  /\ meeting_form[q].meeting_id = h
      BY DEF LocksMatchSteps
    <3>2. CASE q = r
      BY <1>1, <1>3, <1>5, <1>7, <2>1, <3>1, <3>2, Kinds DEF LocksOK
    <3>3. CASE q # r
      <4>1. meeting_form'[q] = meeting_form[q] /\ (MeetingRowChanged(q)' <=> MeetingRowChanged(q))
        BY <1>7, <3>3, Kinds DEF MeetingRowChanged
      <4>2. meeting_lock'[h] = q <=> meeting_lock[h] = q
        BY <1>1, <1>3, <3>3, Kinds DEF LocksOK
      <4> QED
        BY <3>1, <4>1, <4>2
    <3> QED
      BY <3>2, <3>3
  <2>3. \A h \in Meetings, q \in ApplyRequests : meeting_lock'[h] = q <=> meeting_lock[h] = q
    BY <1>1, <1>3, Kinds DEF LocksOK
  <2> QED
    BY <1>1, <2>2, <2>3 DEF LocksMatchSteps, HoldsMember, HoldsMeeting
<1>10. DecisionsStillHold' /\ CancellationsStillHold'
  BY <1>1 DEF DecisionsStillHold, CancellationsStillHold, HoldsMember, HoldsMeeting, Applicants,
     tables, registrations
<1> QED
  BY <1>7, <1>8, <1>9, <1>10

\* An edit that changes the row holds its lock; one that does not leaves it as it is.
LEMMA CommitMeetingPreserves ==
  ASSUME Inv, NEW r \in MeetingEdits, CommitMeeting(r)
  PROVE  Inv'
<1> USE DEF Inv, TypeOK
<1> DEFINE g == meeting_form[r].meeting_id
           form == meeting_form[r].form
           row == MeetingUpdate(meeting[g], form, meeting_form[r].loaded)
<1>1. /\ r \in MeetingRequests /\ meeting_form[r].pc = "commit"
      /\ meeting' = [meeting EXCEPT ![g] = row]
      /\ meeting_host' = IF HostChanged(r)
                         THEN [meeting_host EXCEPT ![g] = form.host_id]
                         ELSE meeting_host
      /\ AnswerMeetingForm(r, "SAVED") /\ ReleaseLocks(r)
      /\ UNCHANGED <<member, registrations, registration_open, apply, cancel, member_form>>
  BY Kinds DEF CommitMeeting
<1>2. /\ g \in DOMAIN meeting /\ g \in Meetings /\ form.host_id \in DOMAIN member
      /\ form.status \in Statuses /\ form.capacity \in Nat \ {0}
  BY <1>1, AdministrationAssumption
     DEF FormsOK, MeetingFormFilled, MeetingSteps, RowsOK, TablesOK
<1>3. row \in MeetingRow
  BY <1>2 DEF MeetingUpdate, MeetingRow, RowsOK, TablesOK
<1>4. /\ DOMAIN meeting' = DOMAIN meeting
      /\ meeting'[g] = row /\ \A h \in DOMAIN meeting \ {g} : meeting'[h] = meeting[h]
  BY <1>1, <1>2
<1>5. RowsOK'
  <2>1. /\ DOMAIN meeting' \subseteq Meetings /\ meeting' \in [DOMAIN meeting' -> MeetingRow]
    BY <1>1, <1>3, <1>4 DEF RowsOK, TablesOK
  <2>2. meeting_host' \in [DOMAIN meeting' -> DOMAIN member]
    BY <1>1, <1>2, <1>4 DEF RowsOK, TablesOK
  <2> QED
    BY <1>1, <1>4, <2>1, <2>2 DEF RowsOK, TablesOK, registrations
<1>6. /\ FormsOK'
      /\ meeting_form'[r].pc = "done"
      /\ \A q \in MeetingRequests \ {r} : meeting_form'[q] = meeting_form[q]
  BY <1>1, <1>4, MeetingFormAnswered DEF FormAnswers, RowsStay
<1>7. LocksOK' /\ RegistrationRequestsOK'
  BY <1>1 DEF LocksOK, ReleaseLocks, RegistrationRequestsOK, ApplyFilled, CancelFilled
<1>8. LocksMatchSteps'
  BY <1>1, <1>6, Kinds DEF LocksMatchSteps, LocksOK, HoldsMember, HoldsMeeting,
     MeetingRowChanged, ReleaseLocks
<1>9. DecisionsStillHold'
  <2>1. CASE MeetingRowChanged(r)
    <3>1. meeting_lock[g] = r
      BY <1>1, <1>2, <2>1 DEF LocksMatchSteps
    <3>2. \A q \in ApplyRequests : HoldsMeeting(q) => apply[q].meeting_id # g
      BY <1>2, <3>1, Kinds DEF LocksMatchSteps
    <3> QED
      BY <1>1, <1>4, <3>2 DEF DecisionsStillHold, HoldsMember, HoldsMeeting, Applicants,
         registrations
  <2>2. CASE ~MeetingRowChanged(r)
    <3>1. row.status = meeting[g].status /\ row.capacity = meeting[g].capacity
      BY <2>2 DEF MeetingRowChanged, MeetingUpdate
    <3> QED
      BY <1>1, <1>4, <3>1 DEF DecisionsStillHold, HoldsMember, HoldsMeeting, Applicants,
         registrations
  <2> QED
    BY <2>1, <2>2
<1>10. CancellationsStillHold'
  BY <1>1 DEF CancellationsStillHold, registrations
<1> QED
  BY <1>5, <1>6, <1>7, <1>8, <1>9, <1>10

LEMMA InsertMeetingPreserves ==
  ASSUME Inv, NEW r \in MeetingCreations, NEW g \in Meetings, InsertMeeting(r, g)
  PROVE  Inv'
<1> USE DEF Inv, TypeOK
<1> DEFINE form == meeting_form[r].form
           row == [status |-> form.status, capacity |-> form.capacity]
<1>1. /\ r \in MeetingRequests /\ meeting_form[r].pc = "insert" /\ g \notin DOMAIN meeting
      /\ meeting' = Upsert(meeting, g, row)
      /\ meeting_host' = Upsert(meeting_host, g, form.host_id)
      /\ AnswerMeetingForm(r, "SAVED")
      /\ UNCHANGED <<member, registrations, registration_open, locks, apply, cancel, member_form>>
  BY Kinds DEF InsertMeeting
<1>2. /\ form.host_id \in DOMAIN member
      /\ form.status \in Statuses /\ form.capacity \in Nat \ {0}
  BY <1>1, AdministrationAssumption DEF FormsOK, MeetingFormFilled, MeetingSteps
<1>3. row \in MeetingRow
  BY <1>2 DEF MeetingRow
<1>4. /\ DOMAIN meeting' = DOMAIN meeting \cup {g}
      /\ \A h \in DOMAIN meeting : meeting'[h] = meeting[h]
  BY <1>1 DEF Upsert
<1>5. RowsOK'
  <2> HIDE DEF row
  <2>1. /\ DOMAIN meeting' \subseteq Meetings /\ meeting' \in [DOMAIN meeting' -> MeetingRow]
    BY <1>1, <1>3, <1>4 DEF RowsOK, TablesOK, Upsert
  <2>2. meeting_host' \in [DOMAIN meeting' -> DOMAIN member]
    BY <1>1, <1>2, <1>4 DEF RowsOK, TablesOK, Upsert
  <2> QED
    BY <1>1, <1>4, <2>1, <2>2 DEF RowsOK, TablesOK, registrations
<1>6. /\ FormsOK'
      /\ meeting_form'[r].pc = "done"
      /\ \A q \in MeetingRequests \ {r} : meeting_form'[q] = meeting_form[q]
  BY <1>1, <1>4, MeetingFormAnswered DEF FormAnswers, RowsStay
<1>7. LocksOK' /\ RegistrationRequestsOK'
  BY <1>1 DEF LocksOK, locks, RegistrationRequestsOK, ApplyFilled, CancelFilled
<1>8. LocksMatchSteps'
  <2>1. \A q \in MeetingEdits : meeting_form'[q] = meeting_form[q]
    BY <1>6, Kinds
  <2> QED
    BY <1>1, <2>1 DEF LocksMatchSteps, HoldsMember, HoldsMeeting, MeetingRowChanged, locks
<1>9. DecisionsStillHold'
  <2>1. \A h : Applicants(h)' = Applicants(h)
    BY <1>1 DEF Applicants, registrations
  <2>2. \A q \in ApplyRequests : apply[q].pc = "commit" => HoldsMeeting(q)
    BY DEF HoldsMeeting
  <2> QED
    BY <1>1, <1>4, <2>1, <2>2 DEF DecisionsStillHold, HoldsMember, HoldsMeeting, registrations
<1>10. CancellationsStillHold'
  BY <1>1 DEF CancellationsStillHold, registrations
<1> QED
  BY <1>5, <1>6, <1>7, <1>8, <1>9, <1>10

-----------------------------------------------------------------------------
\* Member forms take no lock before their UPDATE.
LEMMA MemberFormStep ==
  ASSUME Inv, NEW r \in MemberEdits,
         UNCHANGED <<tables, registrations, registration_open, locks, apply, cancel, meeting_form>>,
         \/ \E answer \in FormAnswers : AnswerMemberForm(r, answer)
         \/ \E locals \in MemberFormRecord :
              MemberFormFilled(locals) /\ member_form' = [member_form EXCEPT ![r] = locals]
  PROVE  Inv'
<1>1. FormsOK /\ RowsStay
  BY DEF Inv, TypeOK, RowsStay, tables
<1>2. FormsOK'
  BY <1>1, MemberFormAnswered, MemberFormUpdated
<1> QED
  BY <1>2, FormStep

LEMMA ReceiveMemberEditPreserves ==
  ASSUME Inv, NEW r \in MemberEdits, NEW m \in Members, NEW form \in MemberForms,
         ReceiveMemberEdit(r, m, form)
  PROVE  Inv'
<1> USE DEF Inv, TypeOK
<1> DEFINE step == IF form.active /\ form.apply_enabled THEN "save" ELSE "count_registrations"
           locals == [member_form[r] EXCEPT !.member_id = m, !.form = form,
                                            !.loaded = member[m], !.pc = step]
<1>1. UNCHANGED <<tables, registrations, registration_open, locks, apply, cancel, meeting_form>>
  BY DEF ReceiveMemberEdit
<1>2. CASE AnswerMemberForm(r, "INVALID") \/ AnswerMemberForm(r, "NOT_FOUND")
  BY <1>1, <1>2, MemberFormStep DEF FormAnswers
<1>3. CASE m \in DOMAIN member /\ member_form' = [member_form EXCEPT ![r] = locals]
  <2>1. member_form[r] \in MemberFormRecord /\ member[m] \in MemberRow /\ step \in MemberSteps
    BY <1>3 DEF FormsOK, RowsOK, TablesOK, MemberSteps
  <2> HIDE DEF step
  <2>2. locals \in MemberFormRecord
    BY <2>1 DEF MemberFormRecord
  <2>3. locals.form = form /\ locals.member_id = m /\ locals.loaded = member[m]
    BY <2>1 DEF MemberFormRecord
  <2>4. member_form' = [member_form EXCEPT ![r] = locals]
    BY <1>3
  <2> HIDE DEF locals
  <2>5. MemberFormFilled(locals)
    BY <1>3, <2>1, <2>3 DEF MemberFormFilled
  <2> QED
    BY <1>1, <2>2, <2>4, <2>5, MemberFormStep
<1> QED
  BY <1>2, <1>3 DEF ReceiveMemberEdit

LEMMA ContinueMemberFormPreserves ==
  ASSUME Inv, NEW r \in MemberEdits, NEW step \in MemberSteps,
         member_form[r].pc \in MemberSteps, ContinueMemberForm(r, step),
         UNCHANGED <<tables, registrations, registration_open, locks, apply, cancel, meeting_form>>
  PROVE  Inv'
<1> DEFINE locals == [member_form[r] EXCEPT !.pc = step]
<1>1. member_form[r] \in MemberFormRecord /\ MemberFormFilled(member_form[r])
  BY DEF Inv, TypeOK, FormsOK
<1>2. locals \in MemberFormRecord
  BY <1>1 DEF MemberFormRecord
<1>3. MemberFormFilled(locals)
  BY <1>1 DEF MemberFormFilled, MemberFormRecord
<1>4. member_form' = [member_form EXCEPT ![r] = locals]
  BY DEF ContinueMemberForm
<1> HIDE DEF locals
<1> QED
  BY <1>2, <1>3, <1>4, MemberFormStep

LEMMA CheckMemberPreserves ==
  ASSUME Inv, NEW r \in MemberEdits,
         CountRegistrations(r) \/ CountHosted(r) \/ AbortMemberForm(r)
  PROVE  Inv'
<1>1. CASE CountRegistrations(r)
  BY <1>1, MemberFormStep, ContinueMemberFormPreserves
     DEF CountRegistrations, FormAnswers, MemberSteps
<1>2. CASE CountHosted(r)
  BY <1>2, MemberFormStep, ContinueMemberFormPreserves DEF CountHosted, FormAnswers, MemberSteps
<1>3. CASE AbortMemberForm(r)
  BY <1>3, MemberFormStep DEF AbortMemberForm, FormAnswers
<1> QED
  BY <1>1, <1>2, <1>3

\* The merged row is a row, and the row it was when the form changes nothing.
LEMMA MemberUpdateType ==
  ASSUME NEW row \in MemberRow, NEW form \in MemberRow, NEW loaded \in MemberRow
  PROVE  /\ MemberUpdate(row, form, loaded) \in MemberRow
         /\ form = loaded => /\ MemberUpdate(row, form, loaded).active = row.active
                            /\ MemberUpdate(row, form, loaded).apply_enabled = row.apply_enabled
<1> DEFINE merged == MemberUpdate(row, form, loaded)
<1>1. DOMAIN row = {"active", "apply_enabled", "host_enabled", "part_id"}
  BY DEF MemberRow
<1>2. merged = [active |-> merged.active, apply_enabled |-> merged.apply_enabled,
                host_enabled |-> merged.host_enabled, part_id |-> merged.part_id]
  BY <1>1 DEF MemberUpdate
<1>3. /\ merged.active = IF form.active # loaded.active THEN form.active ELSE row.active
      /\ merged.apply_enabled = IF form.apply_enabled # loaded.apply_enabled
                                THEN form.apply_enabled ELSE row.apply_enabled
      /\ merged.host_enabled = IF form.host_enabled # loaded.host_enabled
                               THEN form.host_enabled ELSE row.host_enabled
      /\ merged.part_id = IF form.part_id # loaded.part_id THEN form.part_id ELSE row.part_id
  BY <1>1 DEF MemberUpdate
<1> HIDE DEF merged
<1>4. /\ merged.active \in BOOLEAN /\ merged.apply_enabled \in BOOLEAN
      /\ merged.host_enabled \in BOOLEAN /\ merged.part_id \in Parts
  BY <1>3 DEF MemberRow
<1>5. merged \in MemberRow
  BY <1>2, <1>4 DEF MemberRow
<1> QED
  BY <1>3, <1>5 DEF merged

\* What a change of member rows must leave alone for Inv to hold after it.
LEMMA MemberRowsChange ==
  ASSUME Inv, RowsOK', FormsOK', DOMAIN member \subseteq DOMAIN member',
         UNCHANGED <<meeting, registrations, locks, apply, cancel, meeting_form>>,
         \A m \in DOMAIN member :
           \/ member'[m].active = member[m].active
              /\ member'[m].apply_enabled = member[m].apply_enabled
           \/ member_lock[m] = None
  PROVE  Inv'
<1> USE DEF Inv, TypeOK
<1>1. LocksOK' /\ RegistrationRequestsOK'
  BY DEF LocksOK, locks, RegistrationRequestsOK, ApplyFilled, CancelFilled
<1>2. LocksMatchSteps'
  BY DEF LocksMatchSteps, HoldsMember, HoldsMeeting, MeetingRowChanged, locks
<1>3. DecisionsStillHold'
  <2>1. ASSUME NEW r \in ApplyRequests, HoldsMember(r)
        PROVE  /\ apply[r].member_id \in DOMAIN member
               /\ member_lock[apply[r].member_id] # None
    BY <2>1, Kinds DEF DecisionsStillHold, LocksMatchSteps, RowsOK, TablesOK
  <2>2. \A g : Applicants(g)' = Applicants(g)
    BY DEF Applicants, registrations
  <2> QED
    BY <2>1, <2>2 DEF DecisionsStillHold, HoldsMember, HoldsMeeting, registrations
<1>4. CancellationsStillHold'
  <2>1. ASSUME NEW r \in CancelRequests, cancel[r].pc = "commit"
        PROVE  /\ cancel[r].member_id \in DOMAIN member
               /\ member_lock[cancel[r].member_id] # None
    <3>1. cancel[r].member_id \in DOMAIN member /\ cancel[r].member_id \in Members
      BY <2>1 DEF CancellationsStillHold, RowsOK, TablesOK
    <3> QED
      BY <2>1, <3>1, Kinds DEF LocksMatchSteps
  <2> QED
    BY <2>1 DEF CancellationsStillHold, registrations
<1> QED
  BY <1>1, <1>2, <1>3, <1>4

LEMMA SaveMemberPreserves ==
  ASSUME Inv, NEW r \in MemberEdits, SaveMember(r)
  PROVE  Inv'
<1> USE DEF Inv, TypeOK
<1> DEFINE m == member_form[r].member_id
           form == member_form[r].form
           loaded == member_form[r].loaded
           row == MemberUpdate(member[m], form, loaded)
<1>1. /\ member_form[r].pc = "save" /\ (form # loaded => member_lock[m] = None)
      /\ \/ AnswerMemberForm(r, "CONFLICT") /\ UNCHANGED member
         \/ /\ RolesCompatible(row) /\ AnswerMemberForm(r, "SAVED")
            /\ member' = [member EXCEPT ![m] = row]
      /\ UNCHANGED <<meeting, meeting_host, registrations, registration_open, locks, apply,
                     cancel, meeting_form>>
  BY DEF SaveMember
<1>2. CASE AnswerMemberForm(r, "CONFLICT") /\ UNCHANGED member
  BY <1>1, <1>2, MemberFormStep DEF FormAnswers, tables
<1>3. CASE /\ RolesCompatible(row) /\ AnswerMemberForm(r, "SAVED")
           /\ member' = [member EXCEPT ![m] = row]
  <2>1. m \in DOMAIN member /\ form \in MemberRow /\ loaded \in MemberRow
    BY <1>1, AdministrationAssumption DEF FormsOK, MemberFormFilled, MemberSteps
  <2>2. member[m] \in MemberRow
    BY <2>1 DEF RowsOK, TablesOK
  <2>3. /\ row \in MemberRow
        /\ form = loaded => row.active = member[m].active
                           /\ row.apply_enabled = member[m].apply_enabled
    BY <2>1, <2>2, MemberUpdateType
  <2> HIDE DEF row
  <2>4. /\ DOMAIN member' = DOMAIN member /\ member'[m] = row
        /\ \A x \in DOMAIN member \ {m} : member'[x] = member[x]
        /\ member' \in [DOMAIN member' -> MemberRow]
    BY <1>3, <2>1, <2>3 DEF RowsOK, TablesOK
  <2>5. RowsOK'
    BY <1>1, <1>3, <2>4 DEF RowsOK, TablesOK, RolesCompatible, registrations
  <2>6. FormsOK'
    BY <1>1, <1>3, <2>4, MemberFormAnswered DEF FormAnswers, RowsStay
  <2> QED
    BY <1>1, <2>3, <2>4, <2>5, <2>6, MemberRowsChange
<1> QED
  BY <1>1, <1>2, <1>3

LEMMA CreateMemberPreserves ==
  ASSUME Inv, NEW m \in Members, NEW form \in MemberForms, CreateMember(m, form)
  PROVE  Inv'
<1> USE DEF Inv, TypeOK
<1>1. /\ m \notin DOMAIN member /\ RolesCompatible(form)
      /\ member' = Upsert(member, m, form)
      /\ UNCHANGED <<meeting, meeting_host, registrations, registration_open, locks, apply,
                     cancel, forms>>
  BY DEF CreateMember
<1>2. /\ DOMAIN member' = DOMAIN member \cup {m} /\ member'[m] = form
      /\ \A x \in DOMAIN member : member'[x] = member[x]
  BY <1>1 DEF Upsert
<1>3. member' \in [DOMAIN member' -> MemberRow]
  BY <1>1, AdministrationAssumption DEF Upsert, RowsOK, TablesOK
<1>4. RowsOK'
  BY <1>1, <1>2, <1>3 DEF RowsOK, TablesOK, RolesCompatible, registrations
<1>5. FormsOK'
  BY <1>1, <1>2 DEF FormsOK, MeetingFormFilled, MemberFormFilled, forms
<1> QED
  BY <1>1, <1>2, <1>4, <1>5, MemberRowsChange DEF forms

-----------------------------------------------------------------------------
LEMMA WindowPreserves ==
  ASSUME Inv, ChangeRegistrationWindow \/ UNCHANGED vars, UNCHANGED forms
  PROVE  Inv'
<1> USE DEF Inv, TypeOK
<1>1. /\ UNCHANGED <<tables, registrations, locks, apply, cancel>>
      /\ registration_open' \in BOOLEAN
  BY DEF ChangeRegistrationWindow, vars, RowsOK
<1>2. RowsOK' /\ FormsOK'
  BY <1>1, SameForms DEF RowsOK, TablesOK, tables, registrations
<1>3. LocksOK' /\ RegistrationRequestsOK'
  BY <1>1 DEF LocksOK, locks, RegistrationRequestsOK, ApplyFilled, CancelFilled
<1>4. LocksMatchSteps'
  BY <1>1 DEF LocksMatchSteps, HoldsMember, HoldsMeeting, MeetingRowChanged, locks, forms
<1>5. DecisionsStillHold' /\ CancellationsStillHold'
  BY <1>1 DEF DecisionsStillHold, CancellationsStillHold, HoldsMember, HoldsMeeting, Applicants,
     tables, registrations
<1> QED
  BY <1>2, <1>3, <1>4, <1>5

LEMMA RegistrationStepPreserves ==
  ASSUME Inv, RegistrationStep, UNCHANGED forms
  PROVE  Inv'
<1>1. CASE \E r \in ApplyRequests, m \in Members, g \in Meetings : ReceiveApply(r, m, g)
  BY <1>1, ReceiveApplyPreserves
<1>2. ASSUME NEW r \in ApplyRequests,
             LockMember(r) \/ LockMeeting(r) \/ CountDistribution(r) \/ Decide(r)
               \/ CommitApply(r) \/ TellApplied(r) \/ AbortApply(r)
      PROVE  Inv'
  BY <1>2, LockMemberPreserves, LockMeetingPreserves, CountDistributionPreserves,
     DecidePreserves, CommitApplyPreserves, TellAppliedPreserves, AbortApplyPreserves
<1>3. CASE \E r \in CancelRequests, m \in Members : ReceiveCancel(r, m)
  BY <1>3, ReceiveCancelPreserves
<1>4. ASSUME NEW r \in CancelRequests,
             CheckCancel(r) \/ CommitCancel(r) \/ TellCancelled(r) \/ AbortCancel(r)
      PROVE  Inv'
  BY <1>4, CheckCancelPreserves, CommitCancelPreserves, TellCancelledPreserves,
     AbortCancelPreserves
<1>5. CASE ChangeRegistrationWindow
  BY <1>5, WindowPreserves
<1> QED
  BY <1>1, <1>2, <1>3, <1>4, <1>5 DEF RegistrationStep

LEMMA AdministrationStepPreserves ==
  ASSUME Inv, AdministrationStep
  PROVE  Inv'
<1>1. CASE \E r \in AdminMeetingEdits, g \in Meetings, form \in MeetingForms :
             ReceiveAdminMeetingEdit(r, g, form)
  BY <1>1, ReceiveAdminMeetingEditPreserves
<1>2. CASE \E r \in HostMeetingEdits, m \in Members, g \in Meetings, form \in MeetingForms :
             ReceiveHostMeetingEdit(r, m, g, form)
  BY <1>2, ReceiveHostMeetingEditPreserves
<1>3. ASSUME NEW r \in MeetingEdits,
             CheckHost(r) \/ CountApplicants(r) \/ FlushMeeting(r) \/ CommitMeeting(r)
      PROVE  Inv'
  BY <1>3, CheckHostPreserves, CountApplicantsPreserves, FlushMeetingPreserves,
     CommitMeetingPreserves
<1>4. CASE \E r \in MeetingCreations, form \in MeetingForms : ReceiveMeetingCreation(r, form)
  BY <1>4, ReceiveMeetingCreationPreserves
<1>5. CASE \E r \in MeetingCreations, g \in Meetings : InsertMeeting(r, g)
  BY <1>5, InsertMeetingPreserves
<1>6. CASE \E r \in MeetingRequests : AbortMeetingForm(r)
  BY <1>6, AbortMeetingFormPreserves
<1>7. CASE \E r \in MemberEdits, m \in Members, form \in MemberForms : ReceiveMemberEdit(r, m, form)
  BY <1>7, ReceiveMemberEditPreserves
<1>8. ASSUME NEW r \in MemberEdits,
             CountRegistrations(r) \/ CountHosted(r) \/ SaveMember(r) \/ AbortMemberForm(r)
      PROVE  Inv'
  BY <1>8, CheckMemberPreserves, SaveMemberPreserves
<1>9. CASE \E m \in Members, form \in MemberForms : CreateMember(m, form)
  BY <1>9, CreateMemberPreserves
<1> QED
  BY <1>1, <1>2, <1>3, <1>4, <1>5, <1>6, <1>7, <1>8, <1>9 DEF AdministrationStep

\* A deadlock ends with one transaction aborted.
LEMMA BreakDeadlockPreserves ==
  ASSUME Inv, BreakDeadlock
  PROVE  Inv'
BY AbortApplyPreserves, AbortCancelPreserves, AbortMeetingFormPreserves DEF BreakDeadlock

LEMMA NextPreserves == Inv /\ [Next]_vars => Inv'
<1> SUFFICES ASSUME Inv, [Next]_vars PROVE Inv'
  OBVIOUS
<1>1. CASE RegistrationStep /\ UNCHANGED forms
  BY <1>1, RegistrationStepPreserves
<1>2. CASE AdministrationStep
  BY <1>2, AdministrationStepPreserves
<1>3. CASE BreakDeadlock
  BY <1>3, BreakDeadlockPreserves
<1>4. CASE UNCHANGED vars
  BY <1>4, WindowPreserves DEF vars
<1> QED
  BY <1>1, <1>2, <1>3, <1>4 DEF Next

-----------------------------------------------------------------------------
THEOREM RegistrationInvariant == Spec => []Inv
  BY RegistrationInitial, NextPreserves, PTL DEF Spec

\* Every variable keeps its type: CHECK constraints, foreign keys, and the locals of
\* every handler, however requests interleave, abort or are chosen as deadlock victims.
THEOREM RegistrationTypes == Spec => []TypeOK
  BY RegistrationInvariant, PTL DEF Inv

\* A row lock is held by exactly the transaction whose step needs it.
THEOREM RegistrationLocks == Spec => []LocksMatchSteps
  BY RegistrationInvariant, PTL DEF Inv

\* What apply_to_meeting checked still holds when it commits.
THEOREM RegistrationDecisions == Spec => []DecisionsStillHold
  BY RegistrationInvariant, PTL DEF Inv

\* What cancel_registration found is still there when it commits.
THEOREM RegistrationCancellations == Spec => []CancellationsStillHold
  BY RegistrationInvariant, PTL DEF Inv

-----------------------------------------------------------------------------
\* The instance counts with a Cardinality of its own.
LEMMA RosterCardinality == \A S : R!Cardinality(S) = Cardinality(S)
BY DEF R!Cardinality, Cardinality

\* Every step is a step of the roster: the two commits enter and leave, and no other
\* step touches the roster or deletes a row.
LEMMA CommitApplyEnters ==
  ASSUME Inv, NEW r \in ApplyRequests, CommitApply(r)
  PROVE  R!Next
<1> DEFINE m == apply[r].member_id
           g == apply[r].meeting_id
<1>1. apply[r].pc = "commit" /\ m \in Members /\ g \in Meetings /\ UNCHANGED tables
  BY DEF CommitApply, Inv, TypeOK, RegistrationRequestsOK, ApplyFilled
<1>2. /\ m \in DOMAIN member \ DOMAIN registration
      /\ member[m].active /\ member[m].apply_enabled
      /\ g \in DOMAIN meeting /\ meeting[g].status = "OPEN"
      /\ Cardinality(Applicants(g)) < meeting[g].capacity
  BY <1>1 DEF Inv, DecisionsStillHold, HoldsMember, HoldsMeeting
<1>3. /\ registration' = Upsert(registration, m, g)
      /\ RecordHistory(m, "APPLY", g)
  BY <1>2 DEF CommitApply
<1>4. R!Enter(m, g)
  <2>1. R!Record(m, "APPLY", g)
    BY <1>3 DEF R!Record, RecordHistory
  <2>2. R!Applicants(g) = Applicants(g)
    BY DEF R!Applicants, Applicants
  <2>3. registration' = [x \in DOMAIN registration \cup {m} |->
                           IF x = m THEN g ELSE registration[x]]
    BY <1>3 DEF Upsert
  <2> QED
    BY <1>1, <1>2, <2>1, <2>2, <2>3, RosterCardinality DEF R!Enter, tables
<1> QED
  BY <1>1, <1>4 DEF R!Next

LEMMA CommitCancelLeaves ==
  ASSUME Inv, NEW r \in CancelRequests, CommitCancel(r)
  PROVE  R!Next
<1> DEFINE m == cancel[r].member_id
           g == cancel[r].meeting_id
<1>1. cancel[r].pc = "commit" /\ m \in Members /\ UNCHANGED tables
  BY DEF CommitCancel, Inv, TypeOK, RegistrationRequestsOK, CancelFilled
<1>2. m \in DOMAIN registration /\ registration[m] = g /\ m \in DOMAIN member /\ member[m].active
  BY <1>1 DEF Inv, TypeOK, RowsOK, CancellationsStillHold
<1>3. registration' = Delete(registration, m) /\ RecordHistory(m, "CANCEL", g)
  BY DEF CommitCancel
<1>4. R!Leave(m)
  <2>1. R!Record(m, "CANCEL", registration[m])
    BY <1>2, <1>3 DEF R!Record, RecordHistory
  <2>2. registration' = R!Restrict(registration, DOMAIN registration \ {m})
    BY <1>3 DEF Delete, Restrict, R!Restrict
  <2> QED
    BY <1>1, <1>2, <2>1, <2>2 DEF R!Leave, tables
<1> QED
  BY <1>1, <1>4 DEF R!Next

\* The steps of Next other than the two commits.
LEMMA OtherStepsAdminister ==
  ASSUME Inv, RowsStay, UNCHANGED registrations
  PROVE  R!Next
BY DEF R!Next, R!Administer, R!roster, RowsStay, registrations

LEMMA AbortsAdminister ==
  ASSUME \/ \E r \in ApplyRequests : AbortApply(r)
         \/ \E r \in CancelRequests : AbortCancel(r)
         \/ \E r \in MeetingRequests : AbortMeetingForm(r)
  PROVE  RowsStay /\ UNCHANGED registrations
BY DEF AbortApply, AbortCancel, AbortMeetingForm, RowsStay, tables

LEMMA RegistrationStepRefines ==
  ASSUME Inv, RegistrationStep
  PROVE  R!Next
<1>1. CASE \E r \in ApplyRequests : CommitApply(r)
  BY <1>1, CommitApplyEnters
<1>2. CASE \E r \in CancelRequests : CommitCancel(r)
  BY <1>2, CommitCancelLeaves
<1>3. CASE \/ \E r \in ApplyRequests, m \in Members, g \in Meetings : ReceiveApply(r, m, g)
           \/ \E r \in ApplyRequests : LockMember(r) \/ LockMeeting(r)
                                         \/ CountDistribution(r) \/ Decide(r)
                                         \/ TellApplied(r) \/ AbortApply(r)
           \/ \E r \in CancelRequests, m \in Members : ReceiveCancel(r, m)
           \/ \E r \in CancelRequests : CheckCancel(r) \/ TellCancelled(r) \/ AbortCancel(r)
           \/ ChangeRegistrationWindow
  <2>1. UNCHANGED <<tables, registrations>>
    BY <1>3 DEF ReceiveApply, LockMember, LockMeeting, CountDistribution, Decide, TellApplied,
       AbortApply, ReceiveCancel, CheckCancel, TellCancelled, AbortCancel,
       ChangeRegistrationWindow
  <2> QED
    BY <2>1, OtherStepsAdminister DEF RowsStay, tables
<1> QED
  BY <1>1, <1>2, <1>3 DEF RegistrationStep

LEMMA AdministrationStepRefines ==
  ASSUME Inv, AdministrationStep
  PROVE  R!Next
<1>1. RowsStay /\ UNCHANGED registrations
  <2>1. ASSUME NEW r \in MeetingEdits, CommitMeeting(r)
        PROVE  RowsStay /\ UNCHANGED registrations
    BY <2>1 DEF CommitMeeting, RowsStay
  <2>2. ASSUME NEW r \in MeetingCreations, NEW g \in Meetings, InsertMeeting(r, g)
        PROVE  RowsStay /\ UNCHANGED registrations
    BY <2>2 DEF InsertMeeting, Upsert, RowsStay
  <2>3. ASSUME NEW r \in MemberEdits, SaveMember(r)
        PROVE  RowsStay /\ UNCHANGED registrations
    BY <2>3 DEF SaveMember, RowsStay
  <2>4. ASSUME NEW m \in Members, NEW form \in MemberForms, CreateMember(m, form)
        PROVE  RowsStay /\ UNCHANGED registrations
    BY <2>4 DEF CreateMember, Upsert, RowsStay
  <2>5. CASE \/ \E r \in AdminMeetingEdits, g \in Meetings, form \in MeetingForms :
                  ReceiveAdminMeetingEdit(r, g, form)
             \/ \E r \in HostMeetingEdits, m \in Members, g \in Meetings, form \in MeetingForms :
                  ReceiveHostMeetingEdit(r, m, g, form)
             \/ \E r \in MeetingEdits : CheckHost(r) \/ CountApplicants(r) \/ FlushMeeting(r)
             \/ \E r \in MeetingCreations, form \in MeetingForms : ReceiveMeetingCreation(r, form)
             \/ \E r \in MeetingRequests : AbortMeetingForm(r)
             \/ \E r \in MemberEdits, m \in Members, form \in MemberForms :
                  ReceiveMemberEdit(r, m, form)
             \/ \E r \in MemberEdits : CountRegistrations(r) \/ CountHosted(r)
                                         \/ AbortMemberForm(r)
    <3>1. UNCHANGED <<tables, registrations>>
      BY <2>5 DEF ReceiveAdminMeetingEdit, ReceiveHostMeetingEdit, CheckHost, CountApplicants,
         FlushMeeting, ReceiveMeetingCreation, AbortMeetingForm, ReceiveMemberEdit,
         CountRegistrations, CountHosted, AbortMemberForm
    <3> QED
      BY <3>1 DEF RowsStay, tables
  <2> QED
    BY <2>1, <2>2, <2>3, <2>4, <2>5 DEF AdministrationStep
<1> QED
  BY <1>1, OtherStepsAdminister

LEMMA RosterStep == Inv /\ [Next]_vars => [R!Next]_<<member, meeting, R!roster>>
<1> SUFFICES ASSUME Inv, [Next]_vars PROVE [R!Next]_<<member, meeting, R!roster>>
  OBVIOUS
<1>1. CASE RegistrationStep
  BY <1>1, RegistrationStepRefines
<1>2. CASE AdministrationStep
  BY <1>2, AdministrationStepRefines
<1>3. CASE BreakDeadlock
  <2>1. RowsStay /\ UNCHANGED registrations
    BY <1>3, AbortsAdminister DEF BreakDeadlock
  <2> QED
    BY <2>1, OtherStepsAdminister
<1>4. CASE UNCHANGED vars
  BY <1>4 DEF vars, tables, registrations, R!roster
<1> QED
  BY <1>1, <1>2, <1>3, <1>4 DEF Next

\* The transactions implement the roster: whatever they read and whenever they read it,
\* each commit is an Enter or a Leave that the rows allow at the moment of the commit.
THEOREM RegistrationRefinesRoster == Spec => ImplementsRoster
<1>1. Init => R!Init
  BY DEF Init, RegistrationInit, TablesInit, R!Init
<1> QED
  BY <1>1, RegistrationInvariant, RosterStep, PTL DEF Spec, ImplementsRoster, R!Spec
=============================================================================
