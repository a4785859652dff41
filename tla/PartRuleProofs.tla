--------------------------- MODULE PartRuleProofs ---------------------------
(***************************************************************************)
(* The part rule under concurrency, for every set of members, meetings and *)
(* requests.  apply_to_meeting takes its decision from three statements:   *)
(* the applicants under the meeting's lock, the two counts before.  What   *)
(* must not change between these reads and the commit is said as a         *)
(* condition on the steps, and PartsSpread proved of every behaviour that  *)
(* meets it; everything else may be edited meanwhile.                      *)
(***************************************************************************)
EXTENDS RegistrationProofs

\* No edit moves a member to another part.
NobodyMoves == \A m \in DOMAIN member : member'[m].part_id = member[m].part_id

\* Nor deactivates a member, nor adds to the meetings over which a part is spread.
\* Meetings may still be closed, cancelled, resized or given another host, drafts
\* created, members created, activated or given other rights.
PartsStayLarge ==
  /\ NobodyMoves
  /\ \A m \in DOMAIN member : member[m].active => member'[m].active
  /\ DistributionMeetings' \subseteq DistributionMeetings

\* The part rule without its counts: at most one part has two applicants, none three.
PartsBalanced ==
  \A g \in DOMAIN meeting :
    /\ \A p \in Parts : PartCount(p, Applicants(g), PartOf) <= 2
    /\ \A p, q \in Parts :
         PartCount(p, Applicants(g), PartOf) = 2 /\ PartCount(q, Applicants(g), PartOf) = 2
           => p = q

\* Only a part larger than the number of meetings has two applicants in one.
PartsOutnumber ==
  \A g \in DOMAIN meeting, p \in Parts :
    PartCount(p, Applicants(g), PartOf) >= 2 =>
      Cardinality(ActivePartMembers(p)) > Cardinality(DistributionMeetings)

\* What part_registration_allowed answered is what it would answer at the commit, on
\* the applicants of that moment and the two counts taken before.
PartStillAllowed ==
  \A r \in ApplyRequests :
    apply[r].pc = "commit" =>
      PartRegistrationAllowed(
        PartOf[apply[r].member_id], Applicants(apply[r].meeting_id), PartOf,
        apply[r].active_part_member_count, apply[r].distribution_meeting_count)

\* The two counts may be old, but only on the safe side.
CountsOnSafeSide ==
  \A r \in ApplyRequests :
    /\ HoldsMeeting(r) =>
         apply[r].active_part_member_count
           <= Cardinality(ActivePartMembers(member[apply[r].member_id].part_id))
    /\ apply[r].pc \in {"decide", "commit"} =>
         apply[r].distribution_meeting_count >= Cardinality(DistributionMeetings)

-----------------------------------------------------------------------------
\* How a step moves the locals of an application to the steps that hold the meeting:
\* they are kept, or one of the three statements was executed.
ApplyKept(r) == apply'[r] = apply[r]

MeetingLocked(r) ==
  /\ apply[r].pc = "lock_meeting"
  /\ apply'[r] = [apply[r] EXCEPT !.pc = "count_distribution",
       !.active_part_member_count =
          Cardinality(ActivePartMembers(member[apply[r].member_id].part_id))]
  /\ UNCHANGED <<tables, registrations>>

DistributionCounted(r) ==
  /\ apply[r].pc = "count_distribution"
  /\ apply'[r] = [apply[r] EXCEPT !.pc = "decide",
       !.distribution_meeting_count = Cardinality(DistributionMeetings)]
  /\ UNCHANGED <<tables, registrations>>

Decided(r) ==
  /\ apply[r].pc = "decide"
  /\ MeetingDenial(apply[r].member_id, apply[r].meeting_id, apply[r].active_part_member_count,
                   apply[r].distribution_meeting_count) = Permitted
  /\ apply'[r] = [apply[r] EXCEPT !.pc = "commit"]
  /\ UNCHANGED <<tables, registrations>>

ApplyMoved(r) == ApplyKept(r) \/ MeetingLocked(r) \/ DistributionCounted(r) \/ Decided(r)

\* A step of one application leaves the others' locals alone.
LEMMA OneApplyMoves ==
  ASSUME Inv, NEW r \in ApplyRequests, NEW q \in ApplyRequests,
         \/ LockMember(q) \/ LockMeeting(q) \/ CountDistribution(q) \/ Decide(q)
         \/ CommitApply(q) \/ TellApplied(q) \/ AbortApply(q)
         \/ \E m \in Members, g \in Meetings : ReceiveApply(q, m, g)
  PROVE  HoldsMeeting(r)' => ApplyMoved(r)
<1>1. apply \in [ApplyRequests -> ApplyRecord]
  BY DEF Inv, TypeOK, RegistrationRequestsOK
<1>2. CASE r # q
  BY <1>1, <1>2 DEF ApplyMoved, ApplyKept, LockMember, LockMeeting, CountDistribution, Decide,
     CommitApply, TellApplied, AbortApply, ReceiveApply, AnswerApply, EndApply
<1>3. CASE r = q
  <2>1. CASE LockMember(r)
    BY <1>1, <2>1 DEF LockMember, AnswerApply, EndApply, HoldsMeeting, ApplyRecord
  <2>2. CASE LockMeeting(r)
    <3> DEFINE n == Cardinality(ActivePartMembers(member[apply[r].member_id].part_id))
    <3>1. /\ apply[r].pc = "lock_meeting" /\ UNCHANGED <<tables, registrations>>
          /\ \/ AnswerApply(r, "MEETING_NOT_OPEN")
             \/ apply' = [apply EXCEPT ![r] =
                  [@ EXCEPT !.pc = "count_distribution", !.active_part_member_count = n]]
      BY <2>2 DEF LockMeeting
    <3> HIDE DEF n
    <3>2. CASE AnswerApply(r, "MEETING_NOT_OPEN")
      BY <1>1, <3>2 DEF AnswerApply, EndApply, HoldsMeeting, ApplyRecord
    <3>3. CASE apply' = [apply EXCEPT ![r] =
                  [@ EXCEPT !.pc = "count_distribution", !.active_part_member_count = n]]
      BY <1>1, <3>1, <3>3 DEF ApplyMoved, MeetingLocked, n
    <3> QED
      BY <3>1, <3>2, <3>3
  <2>3. CASE CountDistribution(r)
    BY <1>1, <2>3 DEF CountDistribution, ApplyRecord, ApplyMoved, DistributionCounted
  <2>4. CASE Decide(r)
    <3> DEFINE denial ==
          MeetingDenial(apply[r].member_id, apply[r].meeting_id,
                        apply[r].active_part_member_count, apply[r].distribution_meeting_count)
    <3>1. /\ apply[r].pc = "decide" /\ UNCHANGED <<tables, registrations>>
          /\ \/ AnswerApply(r, denial)
             \/ denial = Permitted /\ apply' = [apply EXCEPT ![r] = [@ EXCEPT !.pc = "commit"]]
      BY <2>4 DEF Decide
    <3> HIDE DEF denial
    <3>2. CASE AnswerApply(r, denial)
      BY <1>1, <3>2 DEF AnswerApply, EndApply, HoldsMeeting, ApplyRecord
    <3>3. CASE denial = Permitted /\ apply' = [apply EXCEPT ![r] = [@ EXCEPT !.pc = "commit"]]
      BY <1>1, <3>1, <3>3 DEF ApplyMoved, Decided, denial
    <3> QED
      BY <3>1, <3>2, <3>3
  <2>5. CASE CommitApply(r) \/ TellApplied(r) \/ AbortApply(r)
    <3>1. \E pc \in {"answer", "done"} : \E answer : EndApply(r, pc, answer)
      BY <2>5 DEF CommitApply, TellApplied, AbortApply, AnswerApply
    <3> QED
      BY <1>1, <3>1 DEF EndApply, HoldsMeeting, ApplyRecord
  <2>6. CASE \E m \in Members, g \in Meetings : ReceiveApply(r, m, g)
    <3>1. PICK m \in Members, g \in Meetings : ReceiveApply(r, m, g)
      BY <2>6
    <3> DEFINE locals == [apply[r] EXCEPT
              !.member_id = m, !.meeting_id = g,
              !.pc = IF registration_open THEN "lock_member" ELSE "done",
              !.answer = IF registration_open THEN "NONE" ELSE "REGISTRATION_NOT_STARTED"]
    <3>2. apply[r] \in ApplyRecord /\ apply' = [apply EXCEPT ![r] = locals]
      BY <1>1, <3>1 DEF ReceiveApply
    <3>3. locals.pc \in {"lock_member", "done"}
      BY <3>2 DEF ApplyRecord
    <3> HIDE DEF locals
    <3> QED
      BY <1>1, <3>2, <3>3 DEF HoldsMeeting
  <2> QED
    BY <1>3, <2>1, <2>2, <2>3, <2>4, <2>5, <2>6
<1> QED
  BY <1>2, <1>3

LEMMA ApplyMoves ==
  ASSUME Inv, [Next]_vars, NEW r \in ApplyRequests
  PROVE  HoldsMeeting(r)' => ApplyMoved(r)
<1>1. CASE RegistrationStep
  <2>1. CASE \/ \E q \in ApplyRequests, m \in Members, g \in Meetings : ReceiveApply(q, m, g)
             \/ \E q \in ApplyRequests : LockMember(q) \/ LockMeeting(q) \/ CountDistribution(q)
                                           \/ Decide(q) \/ CommitApply(q) \/ TellApplied(q)
                                           \/ AbortApply(q)
    BY <2>1, OneApplyMoves
  <2>2. CASE \/ \E q \in CancelRequests, m \in Members : ReceiveCancel(q, m)
             \/ \E q \in CancelRequests : CheckCancel(q) \/ CommitCancel(q) \/ TellCancelled(q)
                                            \/ AbortCancel(q)
             \/ ChangeRegistrationWindow
    BY <2>2 DEF ApplyMoved, ApplyKept, ReceiveCancel, CheckCancel, CommitCancel, TellCancelled,
       AbortCancel, ChangeRegistrationWindow
  <2> QED
    BY <1>1, <2>1, <2>2 DEF RegistrationStep
<1>2. CASE AdministrationStep
  BY <1>2 DEF AdministrationStep, ApplyMoved, ApplyKept, ReceiveAdminMeetingEdit,
     ReceiveHostMeetingEdit, CheckHost, CountApplicants, FlushMeeting, CommitMeeting,
     ReceiveMeetingCreation, InsertMeeting, AbortMeetingForm, ReceiveMemberEdit,
     CountRegistrations, CountHosted, SaveMember, AbortMemberForm, CreateMember
<1>3. CASE BreakDeadlock
  <2>1. \/ \E q \in ApplyRequests : AbortApply(q)
        \/ \E q \in CancelRequests : AbortCancel(q)
        \/ \E q \in MeetingRequests : AbortMeetingForm(q)
    BY <1>3 DEF BreakDeadlock
  <2> QED
    BY <2>1, OneApplyMoves DEF AbortCancel, AbortMeetingForm, ApplyMoved, ApplyKept
<1>4. CASE UNCHANGED vars
  BY <1>4 DEF vars, ApplyMoved, ApplyKept
<1> QED
  BY <1>1, <1>2, <1>3, <1>4 DEF Next

-----------------------------------------------------------------------------
\* How a step changes the registrations: an application enters, a cancellation
\* leaves, every other step leaves the table alone.
Entered(r) ==
  /\ apply[r].pc = "commit" /\ apply'[r].pc = "answer"
  /\ registration' = Upsert(registration, apply[r].member_id, apply[r].meeting_id)
  /\ UNCHANGED tables

Left(r) ==
  /\ cancel[r].pc = "commit" /\ ~LockedForUpdate(cancel[r].meeting_id)
  /\ registration' = Delete(registration, cancel[r].member_id)
  /\ UNCHANGED tables

LEMMA RegistrationMoves ==
  ASSUME Inv, [Next]_vars
  PROVE  \/ \E r \in ApplyRequests : Entered(r)
         \/ \E r \in CancelRequests : Left(r)
         \/ UNCHANGED registration
<1>1. ASSUME NEW r \in ApplyRequests, CommitApply(r)
      PROVE  Entered(r)
  <2>1. apply[r] \in ApplyRecord /\ apply \in [ApplyRequests -> ApplyRecord]
    BY DEF Inv, TypeOK, RegistrationRequestsOK
  <2>2. apply[r].pc = "commit" /\ apply[r].member_id \notin DOMAIN registration
    BY <1>1 DEF CommitApply, Inv, DecisionsStillHold, HoldsMember
  <2>3. /\ registration' = Upsert(registration, apply[r].member_id, apply[r].meeting_id)
        /\ EndApply(r, "answer", "NONE") /\ UNCHANGED tables
    BY <1>1, <2>2 DEF CommitApply
  <2> QED
    BY <2>1, <2>2, <2>3 DEF Entered, EndApply, ApplyRecord
<1>2. ASSUME NEW r \in CancelRequests, CommitCancel(r)
      PROVE  Left(r)
  BY <1>2 DEF CommitCancel, Left
<1>3. CASE RegistrationStep
  <2>1. CASE \/ \E r \in ApplyRequests, m \in Members, g \in Meetings : ReceiveApply(r, m, g)
             \/ \E r \in ApplyRequests : LockMember(r) \/ LockMeeting(r)
                                           \/ CountDistribution(r) \/ Decide(r)
                                           \/ TellApplied(r) \/ AbortApply(r)
             \/ \E r \in CancelRequests, m \in Members : ReceiveCancel(r, m)
             \/ \E r \in CancelRequests : CheckCancel(r) \/ TellCancelled(r) \/ AbortCancel(r)
             \/ ChangeRegistrationWindow
    BY <2>1 DEF ReceiveApply, LockMember, LockMeeting, CountDistribution, Decide, TellApplied,
       AbortApply, ReceiveCancel, CheckCancel, TellCancelled, AbortCancel,
       ChangeRegistrationWindow, registrations
  <2> QED
    BY <1>1, <1>2, <1>3, <2>1 DEF RegistrationStep
<1>4. CASE AdministrationStep
  BY <1>4 DEF AdministrationStep, registrations, ReceiveAdminMeetingEdit,
     ReceiveHostMeetingEdit, CheckHost, CountApplicants, FlushMeeting, CommitMeeting,
     ReceiveMeetingCreation, InsertMeeting, AbortMeetingForm, ReceiveMemberEdit,
     CountRegistrations, CountHosted, SaveMember, AbortMemberForm, CreateMember
<1>5. CASE BreakDeadlock
  BY <1>5, AbortsAdminister DEF BreakDeadlock, registrations
<1>6. CASE UNCHANGED vars
  BY <1>6 DEF vars, registrations
<1> QED
  BY <1>3, <1>4, <1>5, <1>6 DEF Next

\* No step deletes a row.
LEMMA RowsRemain ==
  ASSUME Inv, [Next]_vars
  PROVE  DOMAIN member \subseteq DOMAIN member' /\ DOMAIN meeting \subseteq DOMAIN meeting'
<1>1. [R!Next]_<<member, meeting, R!roster>>
  BY RosterStep
<1> QED
  BY <1>1 DEF R!Next, R!Enter, R!Leave, R!Administer

-----------------------------------------------------------------------------
OfPart(p, g) == {m \in Applicants(g) : member[m].part_id = p}

\* The policy's count of a part is the number of its applicants in the table.
LEMMA PartCounted ==
  ASSUME RowsOK, NEW p, NEW g
  PROVE  /\ PartCount(p, Applicants(g), PartOf) = Cardinality(OfPart(p, g))
         /\ IsFiniteSet(OfPart(p, g))
         /\ Cardinality(OfPart(p, g)) \in Nat
         /\ \A m \in Applicants(g) : m \in DOMAIN member /\ member[m].part_id \in Parts
                                     /\ PartOf[m] = member[m].part_id
<1>1. \A m \in Applicants(g) : m \in DOMAIN member /\ m \in Members
  BY DEF Applicants, RowsOK, TablesOK
<1>2. \A m \in Applicants(g) : PartOf[m] = member[m].part_id /\ member[m].part_id \in Parts
  BY <1>1 DEF PartOf, RowsOK, TablesOK, MemberRow
<1>3. {m \in Applicants(g) : PartOf[m] = p} = OfPart(p, g)
  BY <1>2 DEF OfPart
<1>4. OfPart(p, g) \subseteq Members
  BY <1>1 DEF OfPart
<1>5. IsFiniteSet(OfPart(p, g)) /\ Cardinality(OfPart(p, g)) \in Nat
  BY <1>4, FiniteAssumption, FS_Subset, FS_CardinalityType
<1> QED
  BY <1>1, <1>2, <1>3, <1>5 DEF PartCount

LEMMA PartCountIs ==
  RowsOK => \A p, g : PartCount(p, Applicants(g), PartOf) = Cardinality(OfPart(p, g))
BY PartCounted

LEMMA PartCountIsNext ==
  RowsOK' => (\A p, g : PartCount(p, Applicants(g), PartOf) = Cardinality(OfPart(p, g)))'
BY PartCountIs, PTL

\* Where nobody entered and nobody moved, no part's count has grown.
LEMMA CountsShrink ==
  ASSUME RowsOK, RowsOK', NobodyMoves, NEW p, NEW g, Applicants(g)' \subseteq Applicants(g)
  PROVE  PartCount(p, Applicants(g), PartOf)' <= PartCount(p, Applicants(g), PartOf)
<1>1. OfPart(p, g)' \subseteq OfPart(p, g)
  <2>1. \A m \in Applicants(g) : m \in DOMAIN member
    BY PartCounted
  <2> QED
    BY <2>1 DEF OfPart, NobodyMoves
<1>2. IsFiniteSet(OfPart(p, g)) /\ IsFiniteSet(OfPart(p, g)')
  <2>1. IsFiniteSet(OfPart(p, g))
    BY PartCounted
  <2> QED
    BY <1>1, <2>1, FS_Subset
<1>3. Cardinality(OfPart(p, g)') <= Cardinality(OfPart(p, g))
  BY <1>1, <1>2, FS_Subset
<1> QED
  BY <1>3, PartCountIs, PartCountIsNext

\* Entering adds one applicant of the member's part to the meeting, and nobody else.
LEMMA EnteredCounts ==
  ASSUME Inv, Inv', NEW r \in ApplyRequests, Entered(r)
  PROVE  LET m == apply[r].member_id
             g == apply[r].meeting_id
         IN /\ m \in DOMAIN member /\ g \in DOMAIN meeting /\ member[m].part_id \in Parts
            /\ PartOf[m] = member[m].part_id
            /\ \A p, h :
                 PartCount(p, Applicants(h), PartOf)'
                   = IF h = g /\ p = member[m].part_id
                     THEN PartCount(p, Applicants(h), PartOf) + 1
                     ELSE PartCount(p, Applicants(h), PartOf)
<1> DEFINE m == apply[r].member_id
           g == apply[r].meeting_id
<1>1. /\ registration' = Upsert(registration, m, g) /\ UNCHANGED tables
      /\ apply[r].pc = "commit"
  BY DEF Entered
<1>2. m \in DOMAIN member \ DOMAIN registration /\ g \in DOMAIN meeting
  BY <1>1 DEF Inv, DecisionsStillHold, HoldsMember, HoldsMeeting
<1>3. member[m].part_id \in Parts /\ PartOf[m] = member[m].part_id
  BY <1>2 DEF Inv, TypeOK, RowsOK, TablesOK, MemberRow, PartOf
<1>4. \A h : Applicants(h)' = IF h = g THEN Applicants(h) \cup {m} ELSE Applicants(h)
  BY <1>1, <1>2 DEF Applicants, Upsert
<1>5. RowsOK /\ RowsOK'
  BY DEF Inv, TypeOK
<1>6. ASSUME NEW p, NEW h
      PROVE  Cardinality(OfPart(p, h))'
               = IF h = g /\ p = member[m].part_id
                 THEN Cardinality(OfPart(p, h)) + 1 ELSE Cardinality(OfPart(p, h))
  <2>1. OfPart(p, h)' = IF h = g /\ p = member[m].part_id
                        THEN OfPart(p, h) \cup {m} ELSE OfPart(p, h)
    BY <1>1, <1>4 DEF OfPart, tables
  <2>2. m \notin OfPart(p, h)
    BY <1>2 DEF OfPart, Applicants
  <2>3. IsFiniteSet(OfPart(p, h))
    BY <1>5, PartCounted
  <2>4. Cardinality(OfPart(p, h) \cup {m}) = Cardinality(OfPart(p, h)) + 1
    BY <2>2, <2>3, FS_AddElement
  <2> QED
    BY <2>1, <2>4
<1>7. \A p, h : PartCount(p, Applicants(h), PartOf)' = Cardinality(OfPart(p, h))'
  BY <1>5, PartCountIsNext
<1>8. \A p, h : PartCount(p, Applicants(h), PartOf) = Cardinality(OfPart(p, h))
  BY <1>5, PartCountIs
<1> QED
  BY <1>2, <1>3, <1>6, <1>7, <1>8

\* Where nobody enters, no meeting gains an applicant, and the registrations at a meeting
\* that an application has locked stay what they are.
LEMMA OthersOnlyLeave ==
  ASSUME Inv, (\E r \in CancelRequests : Left(r)) \/ UNCHANGED registration
  PROVE  \A g : Applicants(g)' \subseteq Applicants(g)
<1>1. ASSUME NEW r \in CancelRequests, Left(r)
      PROVE  \A g : Applicants(g)' \subseteq Applicants(g)
  BY <1>1 DEF Left, Delete, Restrict, Applicants
<1> QED
  BY <1>1 DEF Applicants

LEMMA HeldApplicants ==
  ASSUME Inv, [Next]_vars, NEW r \in ApplyRequests, HoldsMeeting(r), HoldsMeeting(r)',
         NEW g, g = apply[r].meeting_id
  PROVE  Applicants(g)' = Applicants(g)
<1>1. g \in Meetings /\ meeting_lock[g] = r
  BY DEF Inv, TypeOK, RegistrationRequestsOK, ApplyFilled, LocksMatchSteps, HoldsMeeting
<1>2. ASSUME NEW q \in ApplyRequests, Entered(q)
      PROVE  Applicants(g)' = Applicants(g)
  <2>1. q # r /\ HoldsMeeting(q)
    BY <1>2 DEF Entered, HoldsMeeting
  <2>2. apply[q].meeting_id # g
    BY <1>1, <2>1 DEF Inv, LocksMatchSteps
  <2>3. apply[q].member_id \notin DOMAIN registration
    BY <1>2 DEF Entered, Inv, DecisionsStillHold, HoldsMember
  <2> QED
    BY <1>2, <2>2, <2>3 DEF Entered, Upsert, Applicants
<1>3. ASSUME NEW q \in CancelRequests, Left(q)
      PROVE  Applicants(g)' = Applicants(g)
  <2>1. cancel[q].meeting_id # g
    BY <1>1, <1>3 DEF Left, LockedForUpdate
  <2>2. registration[cancel[q].member_id] # g
    BY <1>3, <2>1 DEF Left, Inv, CancellationsStillHold
  <2> QED
    BY <1>3, <2>2 DEF Left, Delete, Restrict, Applicants
<1>4. CASE UNCHANGED registration
  BY <1>4 DEF Applicants
<1> QED
  BY <1>2, <1>3, <1>4, RegistrationMoves

-----------------------------------------------------------------------------
\* The decision was taken on rows that the locks and the hypothesis keep as they were.
LEMMA PartAllowedSame ==
  ASSUME RowsOK, RowsOK', NobodyMoves, DOMAIN member \subseteq DOMAIN member',
         NEW m \in DOMAIN member, NEW g, Applicants(g)' = Applicants(g), NEW n, NEW k
  PROVE  PartRegistrationAllowed(PartOf'[m], Applicants(g)', PartOf', n, k)
           = PartRegistrationAllowed(PartOf[m], Applicants(g), PartOf, n, k)
<1>1. \A a \in Applicants(g) \cup {m} : PartOf'[a] = PartOf[a]
  <2>1. \A a \in Applicants(g) \cup {m} : a \in DOMAIN member
    BY PartCounted
  <2> QED
    BY <2>1 DEF PartOf, NobodyMoves
<1>2. \A p : PartCount(p, Applicants(g)', PartOf') = PartCount(p, Applicants(g), PartOf)
  BY <1>1 DEF PartCount
<1>3. AtMostOnePerPart(Applicants(g)', PartOf') <=> AtMostOnePerPart(Applicants(g), PartOf)
  BY <1>1, <1>2 DEF AtMostOnePerPart
<1> QED
  BY <1>1, <1>2, <1>3 DEF PartRegistrationAllowed

LEMMA PartStillAllowedPreserved ==
  ASSUME Inv, Inv', [Next]_vars, NobodyMoves, PartStillAllowed
  PROVE  PartStillAllowed'
<1> SUFFICES ASSUME NEW r \in ApplyRequests, apply'[r].pc = "commit",
                    NEW m, NEW g, NEW n, NEW k,
                    apply'[r].member_id = m, apply'[r].meeting_id = g,
                    apply'[r].active_part_member_count = n,
                    apply'[r].distribution_meeting_count = k
             PROVE  PartRegistrationAllowed(PartOf'[m], Applicants(g)', PartOf', n, k)
  BY DEF PartStillAllowed
<1>1. apply[r] \in ApplyRecord
  BY DEF Inv, TypeOK, RegistrationRequestsOK
<1>2. ApplyKept(r) \/ Decided(r)
  BY <1>1, ApplyMoves DEF HoldsMeeting, ApplyMoved, MeetingLocked, DistributionCounted, ApplyRecord
<1>3. /\ HoldsMeeting(r) /\ HoldsMember(r) /\ HoldsMeeting(r)'
      /\ apply[r].member_id = m /\ apply[r].meeting_id = g
      /\ apply[r].active_part_member_count = n /\ apply[r].distribution_meeting_count = k
  BY <1>1, <1>2 DEF ApplyKept, Decided, HoldsMeeting, HoldsMember, ApplyRecord
<1>4. m \in DOMAIN member /\ g \in DOMAIN meeting
  BY <1>3 DEF Inv, DecisionsStillHold
<1>5. PartRegistrationAllowed(PartOf[m], Applicants(g), PartOf, n, k)
  <2>1. CASE ApplyKept(r)
    BY <1>3, <2>1 DEF ApplyKept, PartStillAllowed
  <2>2. CASE Decided(r)
    <3> DEFINE allowed == PartRegistrationAllowed(PartOf[m], Applicants(g), PartOf, n, k)
               applied == Cardinality(Applicants(g))
    <3>1. MeetingDenialReason(meeting[g].status, applied, meeting[g].capacity, allowed)
            = Permitted
      BY <1>3, <2>2 DEF Decided, MeetingDenial
    <3>2. applied \in Nat /\ meeting[g].capacity \in Nat
      BY <1>4, CountsAreNaturals DEF Inv, TypeOK, RowsOK, TablesOK, MeetingRow
    <3> HIDE DEF allowed, applied
    <3>3. allowed
      BY <3>1, <3>2 DEF MeetingDenialReason, Permitted
    <3> QED
      BY <3>3 DEF allowed
  <2> QED
    BY <1>2, <2>1, <2>2
<1>6. Applicants(g)' = Applicants(g) /\ DOMAIN member \subseteq DOMAIN member'
  BY <1>3, HeldApplicants, RowsRemain
<1> QED
  BY <1>4, <1>5, <1>6, PartAllowedSame DEF Inv, TypeOK

-----------------------------------------------------------------------------
\* A meeting that nobody entered stays balanced; one that has just been created has no
\* applicants.
LEMMA BalancedWithoutEntry ==
  ASSUME Inv, Inv', NobodyMoves, PartsBalanced, \A g : Applicants(g)' \subseteq Applicants(g)
  PROVE  PartsBalanced'
<1> SUFFICES ASSUME NEW g \in DOMAIN meeting'
             PROVE  /\ \A p \in Parts : PartCount(p, Applicants(g), PartOf)' <= 2
                    /\ \A p, q \in Parts :
                         PartCount(p, Applicants(g), PartOf)' = 2
                         /\ PartCount(q, Applicants(g), PartOf)' = 2 => p = q
  BY DEF PartsBalanced
<1>1. RowsOK /\ RowsOK'
  BY DEF Inv, TypeOK
<1>2. \A p : PartCount(p, Applicants(g), PartOf)' <= PartCount(p, Applicants(g), PartOf)
  BY <1>1, CountsShrink
<1>3. \A p : PartCount(p, Applicants(g), PartOf) \in Nat
             /\ PartCount(p, Applicants(g), PartOf)' \in Nat
  <2>1. \A p : Cardinality(OfPart(p, g)) \in Nat
    BY <1>1, PartCounted
  <2>2. \A p : Cardinality(OfPart(p, g))' \in Nat
    <3>1. \A p : IsFiniteSet(OfPart(p, g)')
      <4>1. Applicants(g)' \subseteq Members
        BY <1>1 DEF Applicants, RowsOK, TablesOK
      <4> QED
        BY <4>1, FiniteAssumption, FS_Subset DEF OfPart
    <3> QED
      BY <3>1, FS_CardinalityType
  <2> QED
    BY <1>1, <2>1, <2>2, PartCountIs, PartCountIsNext
<1>4. CASE g \in DOMAIN meeting
  BY <1>2, <1>3, <1>4 DEF PartsBalanced
<1>5. CASE g \notin DOMAIN meeting
  <2>1. Applicants(g) = {}
    BY <1>1, <1>5 DEF Applicants, RowsOK
  <2>2. \A p : OfPart(p, g) = {}
    BY <2>1 DEF OfPart
  <2>3. \A p : PartCount(p, Applicants(g), PartOf) = 0
    BY <1>1, <2>2, PartCountIs, FS_EmptySet
  <2> QED
    BY <1>2, <1>3, <2>3
<1> QED
  BY <1>4, <1>5

\* What part_registration_allowed says of the counts as they are.
LEMMA AllowedCounts ==
  ASSUME RowsOK, NEW p \in Parts, NEW g, NEW n, NEW k,
         PartRegistrationAllowed(p, Applicants(g), PartOf, n, k)
  PROVE  \/ PartCount(p, Applicants(g), PartOf) = 0
         \/ /\ PartCount(p, Applicants(g), PartOf) = 1 /\ n > k
            /\ \A q \in Parts : PartCount(q, Applicants(g), PartOf) # 2
<1>1. SUFFICES ASSUME PartCount(p, Applicants(g), PartOf) # 0
               PROVE  \A q \in Parts : PartCount(q, Applicants(g), PartOf) # 2
  BY DEF PartRegistrationAllowed
<1>2. AtMostOnePerPart(Applicants(g), PartOf)
  BY <1>1 DEF PartRegistrationAllowed
<1>3. ASSUME NEW q \in Parts, PartCount(q, Applicants(g), PartOf) = 2
      PROVE  FALSE
  <2>1. OfPart(q, g) # {}
    BY <1>3, PartCountIs, FS_EmptySet
  <2>2. PICK a \in Applicants(g) : member[a].part_id = q
    BY <2>1 DEF OfPart
  <2>3. PartOf[a] = q
    BY <2>2, PartCounted
  <2>4. PartCount(q, Applicants(g), PartOf) < 2
    BY <1>2, <2>3 DEF AtMostOnePerPart
  <2> QED
    BY <1>3, <2>4
<1> QED
  BY <1>3

LEMMA BalancedWithEntry ==
  ASSUME Inv, Inv', PartsBalanced, PartStillAllowed, NEW r \in ApplyRequests, Entered(r)
  PROVE  PartsBalanced'
<1> PICK m, g, n, k : /\ m = apply[r].member_id /\ g = apply[r].meeting_id
                      /\ n = apply[r].active_part_member_count
                      /\ k = apply[r].distribution_meeting_count
  OBVIOUS
<1>1. RowsOK /\ UNCHANGED meeting
  BY DEF Inv, TypeOK, Entered, tables
<1> DEFINE count(p, h) == PartCount(p, Applicants(h), PartOf)
<1>2. /\ g \in DOMAIN meeting /\ member[m].part_id \in Parts /\ PartOf[m] = member[m].part_id
      /\ \A p, h : count(p, h)' = IF h = g /\ p = member[m].part_id
                                  THEN count(p, h) + 1 ELSE count(p, h)
  BY EnteredCounts
<1> PICK p0 \in Parts : p0 = member[m].part_id
  BY <1>2
<1>3. PartRegistrationAllowed(p0, Applicants(g), PartOf, n, k)
  BY <1>2 DEF PartStillAllowed, Entered
<1>4. \/ count(p0, g) = 0
      \/ count(p0, g) = 1 /\ \A q \in Parts : count(q, g) # 2
  BY <1>1, <1>3, AllowedCounts
<1>5. \A p, h : count(p, h)' = IF h = g /\ p = p0 THEN count(p, h) + 1 ELSE count(p, h)
  BY <1>2
<1>6. \A h \in DOMAIN meeting :
        /\ \A p \in Parts : count(p, h) <= 2
        /\ \A p, q \in Parts : count(p, h) = 2 /\ count(q, h) = 2 => p = q
  BY DEF PartsBalanced
<1>7. \A p, h : count(p, h) \in Nat
  BY <1>1, PartCounted
<1> HIDE DEF count
<1>8. \A h \in DOMAIN meeting :
        /\ \A p \in Parts : count(p, h)' <= 2
        /\ \A p, q \in Parts : count(p, h)' = 2 /\ count(q, h)' = 2 => p = q
  BY <1>2, <1>4, <1>5, <1>6, <1>7
<1> QED
  BY <1>1, <1>8 DEF PartsBalanced, count

LEMMA BalancedPreserved ==
  ASSUME Inv, Inv', [Next]_vars, NobodyMoves, PartsBalanced, PartStillAllowed
  PROVE  PartsBalanced'
<1>1. CASE \E r \in ApplyRequests : Entered(r)
  BY <1>1, BalancedWithEntry
<1>2. CASE (\E r \in CancelRequests : Left(r)) \/ UNCHANGED registration
  BY <1>2, OthersOnlyLeave, BalancedWithoutEntry
<1> QED
  BY <1>1, <1>2, RegistrationMoves

LEMMA PartsInitially == Init => PartsBalanced /\ PartStillAllowed
<1> SUFFICES ASSUME Init PROVE PartsBalanced /\ PartStillAllowed
  OBVIOUS
<1>1. RowsOK /\ \A g, p : OfPart(p, g) = {}
  BY RegistrationInitial DEF Inv, TypeOK, Init, RegistrationInit, TablesInit, OfPart, Applicants
<1>2. \A p, g : PartCount(p, Applicants(g), PartOf) = 0
  BY <1>1, PartCountIs, FS_EmptySet
<1> QED
  BY <1>2 DEF PartsBalanced, PartStillAllowed, Init, RegistrationInit, IdleApply

\* README: at most two applicants of one part in a meeting, and at most one part with
\* two, however applications, cancellations and edits overlap, as long as no edit moves
\* a member to another part (the rule is not checked again for a registered member).
THEOREM RegistrationPartsBalanced == Spec /\ [][NobodyMoves]_vars => []PartsBalanced
<1>1. /\ Inv /\ Inv' /\ PartsBalanced /\ PartStillAllowed
      /\ [Next]_vars /\ [NobodyMoves]_vars
      => PartsBalanced' /\ PartStillAllowed'
  <2> SUFFICES ASSUME Inv, Inv', PartsBalanced, PartStillAllowed, [Next]_vars,
                      [NobodyMoves]_vars
               PROVE  PartsBalanced' /\ PartStillAllowed'
    OBVIOUS
  <2>1. NobodyMoves
    BY DEF NobodyMoves, vars, tables
  <2> QED
    BY <2>1, BalancedPreserved, PartStillAllowedPreserved
<1> QED
  BY <1>1, PartsInitially, RegistrationInvariant, PTL DEF Spec

-----------------------------------------------------------------------------
\* Both sides of the comparison move to the safe side only.
LEMMA SidesMove ==
  ASSUME RowsOK, RowsOK', DOMAIN member \subseteq DOMAIN member', PartsStayLarge
  PROVE  /\ \A p : Cardinality(ActivePartMembers(p)) <= Cardinality(ActivePartMembers(p))'
         /\ Cardinality(DistributionMeetings)' <= Cardinality(DistributionMeetings)
<1>1. ASSUME NEW p
      PROVE  Cardinality(ActivePartMembers(p)) <= Cardinality(ActivePartMembers(p)')
  <2>1. ActivePartMembers(p) \subseteq ActivePartMembers(p)'
    BY DEF ActivePartMembers, PartsStayLarge, NobodyMoves
  <2>2. ActivePartMembers(p)' \subseteq Members
    BY DEF ActivePartMembers, RowsOK, TablesOK
  <2> QED
    BY <2>1, <2>2, FiniteAssumption, FS_Subset
<1>2. Cardinality(DistributionMeetings') <= Cardinality(DistributionMeetings)
  <2>1. DistributionMeetings \subseteq Meetings /\ DistributionMeetings' \subseteq DistributionMeetings
    BY DEF DistributionMeetings, RowsOK, TablesOK, PartsStayLarge
  <2> QED
    BY <2>1, FiniteAssumption, FS_Subset
<1> QED
  BY <1>1, <1>2

LEMMA CountsAreNaturalsNext ==
  RowsOK' => (/\ \A p : Cardinality(ActivePartMembers(p)) \in Nat
              /\ Cardinality(DistributionMeetings) \in Nat)'
<1>1. RowsOK => /\ \A p : Cardinality(ActivePartMembers(p)) \in Nat
                /\ Cardinality(DistributionMeetings) \in Nat
  BY CountsAreNaturals
<1> QED
  BY <1>1, PTL

LEMMA CountsOnSafeSidePreserved ==
  ASSUME Inv, Inv', [Next]_vars, PartsStayLarge, CountsOnSafeSide
  PROVE  CountsOnSafeSide'
<1> SUFFICES ASSUME NEW r \in ApplyRequests, HoldsMeeting(r)', NEW m, NEW n, NEW k,
                    m = apply[r].member_id,
                    n = apply'[r].active_part_member_count,
                    k = apply'[r].distribution_meeting_count
             PROVE  /\ apply'[r].member_id = m
                    /\ n <= Cardinality(ActivePartMembers(member[m].part_id))'
                    /\ apply'[r].pc \in {"decide", "commit"} =>
                         k >= Cardinality(DistributionMeetings)'
  BY DEF CountsOnSafeSide, HoldsMeeting
<1>1. apply[r] \in ApplyRecord /\ RowsOK /\ RowsOK'
  BY DEF Inv, TypeOK, RegistrationRequestsOK
<1>2. ApplyMoved(r)
  BY ApplyMoves
<1>3. apply'[r].member_id = m /\ HoldsMember(r)
  BY <1>1, <1>2 DEF ApplyMoved, ApplyKept, MeetingLocked, DistributionCounted, Decided,
     ApplyRecord, HoldsMember, HoldsMeeting
<1>4. m \in DOMAIN member /\ DOMAIN member \subseteq DOMAIN member'
  BY <1>3, RowsRemain DEF Inv, DecisionsStillHold
<1> PICK p : p = member[m].part_id
  OBVIOUS
<1>5. member'[m].part_id = p
  BY <1>4 DEF PartsStayLarge, NobodyMoves
<1>6. /\ Cardinality(ActivePartMembers(p)) <= Cardinality(ActivePartMembers(p))'
      /\ Cardinality(DistributionMeetings)' <= Cardinality(DistributionMeetings)
  BY <1>1, <1>4, SidesMove
<1>7. /\ Cardinality(ActivePartMembers(p)) \in Nat /\ Cardinality(DistributionMeetings) \in Nat
      /\ Cardinality(ActivePartMembers(p))' \in Nat /\ Cardinality(DistributionMeetings)' \in Nat
  BY <1>1, CountsAreNaturals, CountsAreNaturalsNext
<1>8. n \in Nat /\ k \in Nat
  BY DEF Inv, TypeOK, RegistrationRequestsOK, ApplyRecord
<1>9. /\ n <= Cardinality(ActivePartMembers(p))
      /\ apply'[r].pc \in {"decide", "commit"} => k >= Cardinality(DistributionMeetings)
  <2> PICK a, d : a = Cardinality(ActivePartMembers(p)) /\ d = Cardinality(DistributionMeetings)
    OBVIOUS
  <2>1. /\ HoldsMeeting(r) => apply[r].active_part_member_count <= a
        /\ apply[r].pc \in {"decide", "commit"} => apply[r].distribution_meeting_count >= d
    BY DEF CountsOnSafeSide
  <2>2. a \in Nat /\ d \in Nat
    BY <1>7
  <2>3. CASE ApplyKept(r)
    BY <2>1, <2>3 DEF ApplyKept, HoldsMeeting
  <2>4. CASE MeetingLocked(r)
    <3>1. apply'[r] = [apply[r] EXCEPT !.pc = "count_distribution",
                                       !.active_part_member_count = a]
      BY <2>4 DEF MeetingLocked
    <3> QED
      BY <1>1, <2>2, <3>1 DEF ApplyRecord
  <2>5. CASE DistributionCounted(r)
    <3>1. /\ apply[r].pc = "count_distribution"
          /\ apply'[r] = [apply[r] EXCEPT !.pc = "decide", !.distribution_meeting_count = d]
      BY <2>5 DEF DistributionCounted
    <3> QED
      BY <1>1, <2>1, <2>2, <3>1 DEF ApplyRecord, HoldsMeeting
  <2>6. CASE Decided(r)
    BY <1>1, <2>1, <2>6 DEF Decided, ApplyRecord, HoldsMeeting
  <2> QED
    BY <1>2, <2>3, <2>4, <2>5, <2>6 DEF ApplyMoved
<1> QED
  BY <1>3, <1>5, <1>6, <1>7, <1>8, <1>9

LEMMA OutnumberWithEntry ==
  ASSUME Inv, Inv', PartsOutnumber, PartStillAllowed, CountsOnSafeSide,
         NEW r \in ApplyRequests, Entered(r)
  PROVE  PartsOutnumber'
<1> PICK m, g, n, k : /\ m = apply[r].member_id /\ g = apply[r].meeting_id
                      /\ n = apply[r].active_part_member_count
                      /\ k = apply[r].distribution_meeting_count
  OBVIOUS
<1> DEFINE count(p, h) == PartCount(p, Applicants(h), PartOf)
           large(p) == Cardinality(ActivePartMembers(p)) > Cardinality(DistributionMeetings)
<1>1. RowsOK /\ UNCHANGED <<member, meeting>> /\ n \in Nat /\ k \in Nat
  BY DEF Inv, TypeOK, Entered, tables, RegistrationRequestsOK, ApplyRecord
<1>2. /\ g \in DOMAIN meeting /\ member[m].part_id \in Parts /\ PartOf[m] = member[m].part_id
      /\ \A p, h : count(p, h)' = IF h = g /\ p = member[m].part_id
                                  THEN count(p, h) + 1 ELSE count(p, h)
  BY EnteredCounts
<1> PICK p0 \in Parts : p0 = member[m].part_id
  BY <1>2
<1>3. PartRegistrationAllowed(p0, Applicants(g), PartOf, n, k)
  BY <1>2 DEF PartStillAllowed, Entered
<1>4. count(p0, g) = 0 \/ n > k
  BY <1>1, <1>3, AllowedCounts
<1>5. n > k => large(p0)
  <2>1. n <= Cardinality(ActivePartMembers(p0)) /\ k >= Cardinality(DistributionMeetings)
    BY DEF Entered, CountsOnSafeSide, HoldsMeeting
  <2>2. Cardinality(ActivePartMembers(p0)) \in Nat /\ Cardinality(DistributionMeetings) \in Nat
    BY <1>1, CountsAreNaturals
  <2> QED
    BY <1>1, <2>1, <2>2
<1>6. \A p : large(p)' = large(p)
  BY <1>1 DEF ActivePartMembers, DistributionMeetings
<1>7. \A p, h : count(p, h)' = IF h = g /\ p = p0 THEN count(p, h) + 1 ELSE count(p, h)
  BY <1>2
<1>8. \A h \in DOMAIN meeting, p \in Parts : count(p, h) >= 2 => large(p)
  BY DEF PartsOutnumber
<1>9. \A p, h : count(p, h) \in Nat
  BY <1>1, PartCounted
<1> HIDE DEF count, large
<1>10. \A h \in DOMAIN meeting, p \in Parts : count(p, h)' >= 2 => large(p)'
  BY <1>2, <1>4, <1>5, <1>6, <1>7, <1>8, <1>9
<1> QED
  BY <1>1, <1>10 DEF PartsOutnumber, count, large

LEMMA OutnumberWithoutEntry ==
  ASSUME Inv, Inv', DOMAIN member \subseteq DOMAIN member', PartsStayLarge, PartsOutnumber,
         \A g : Applicants(g)' \subseteq Applicants(g)
  PROVE  PartsOutnumber'
<1> SUFFICES ASSUME NEW g \in DOMAIN meeting', NEW p \in Parts,
                    PartCount(p, Applicants(g), PartOf)' >= 2
             PROVE  Cardinality(ActivePartMembers(p))' > Cardinality(DistributionMeetings)'
  BY DEF PartsOutnumber
<1>1. RowsOK /\ RowsOK'
  BY DEF Inv, TypeOK
<1>2. PartCount(p, Applicants(g), PartOf)' <= PartCount(p, Applicants(g), PartOf)
  BY <1>1, CountsShrink DEF PartsStayLarge
<1>3. /\ IsFiniteSet(OfPart(p, g)) /\ PartCount(p, Applicants(g), PartOf) \in Nat
      /\ PartCount(p, Applicants(g), PartOf)' \in Nat
  <2>1. Applicants(g)' \subseteq Members
    BY <1>1 DEF Applicants, RowsOK, TablesOK
  <2>2. IsFiniteSet(OfPart(p, g)')
    BY <2>1, FiniteAssumption, FS_Subset DEF OfPart
  <2>3. Cardinality(OfPart(p, g)') \in Nat
    BY <2>2, FS_CardinalityType
  <2> QED
    BY <1>1, <2>3, PartCounted, PartCountIsNext
<1>4. PartCount(p, Applicants(g), PartOf) >= 2
  BY <1>2, <1>3
<1>5. g \in DOMAIN meeting
  <2>1. SUFFICES ASSUME g \notin DOMAIN meeting PROVE FALSE
    OBVIOUS
  <2>2. OfPart(p, g) = {}
    BY <1>1, <2>1 DEF OfPart, Applicants, RowsOK
  <2> QED
    BY <1>1, <1>4, <2>2, PartCountIs, FS_EmptySet
<1>6. Cardinality(ActivePartMembers(p)) > Cardinality(DistributionMeetings)
  BY <1>4, <1>5 DEF PartsOutnumber
<1>7. /\ Cardinality(ActivePartMembers(p)) <= Cardinality(ActivePartMembers(p))'
      /\ Cardinality(DistributionMeetings)' <= Cardinality(DistributionMeetings)
  BY <1>1, SidesMove
<1>8. /\ Cardinality(ActivePartMembers(p)) \in Nat /\ Cardinality(DistributionMeetings) \in Nat
      /\ Cardinality(ActivePartMembers(p))' \in Nat /\ Cardinality(DistributionMeetings)' \in Nat
  BY <1>1, CountsAreNaturals, CountsAreNaturalsNext
<1> QED
  BY <1>6, <1>7, <1>8

LEMMA OutnumberPreserved ==
  ASSUME Inv, Inv', [Next]_vars, PartsStayLarge, PartsOutnumber, PartStillAllowed,
         CountsOnSafeSide
  PROVE  PartsOutnumber'
<1>1. CASE \E r \in ApplyRequests : Entered(r)
  BY <1>1, OutnumberWithEntry
<1>2. CASE (\E r \in CancelRequests : Left(r)) \/ UNCHANGED registration
  BY <1>2, OthersOnlyLeave, RowsRemain, OutnumberWithoutEntry
<1> QED
  BY <1>1, <1>2, RegistrationMoves

\* The two halves of PartsSpread.
LEMMA SpreadIsBalancedAndOutnumbering ==
  RowsOK /\ PartsBalanced /\ PartsOutnumber => PartsSpread
<1> SUFFICES ASSUME RowsOK, PartsBalanced, PartsOutnumber, NEW g \in DOMAIN meeting
             PROVE  LET doubled == {p \in Parts : PartCount(p, Applicants(g), PartOf) >= 2}
                    IN /\ Cardinality(doubled) <= 1
                       /\ \A p \in doubled :
                            /\ PartCount(p, Applicants(g), PartOf) = 2
                            /\ Cardinality(ActivePartMembers(p))
                                 > Cardinality(DistributionMeetings)
  BY DEF PartsSpread
<1> DEFINE count(p) == PartCount(p, Applicants(g), PartOf)
           doubled == {p \in Parts : count(p) >= 2}
<1>1. \A p : count(p) \in Nat
  BY PartCounted
<1>2. /\ \A p \in Parts : count(p) <= 2
      /\ \A p, q \in Parts : count(p) = 2 /\ count(q) = 2 => p = q
      /\ \A p \in Parts : count(p) >= 2 =>
           Cardinality(ActivePartMembers(p)) > Cardinality(DistributionMeetings)
  BY DEF PartsBalanced, PartsOutnumber
<1> HIDE DEF count
<1>3. \A p \in doubled : count(p) = 2
  BY <1>1, <1>2
<1>4. doubled = {} \/ \E p : doubled = {p}
  BY <1>2, <1>3
<1>5. Cardinality(doubled) <= 1
  <2> HIDE DEF doubled
  <2>1. CASE doubled = {}
    BY <2>1, FS_EmptySet
  <2>2. CASE \E p : doubled = {p}
    <3>1. Cardinality(doubled) = 1
      BY <2>2, FS_Singleton
    <3> QED
      BY <3>1
  <2> QED
    BY <1>4, <2>1, <2>2
<1>6. \A p \in doubled :
        count(p) = 2 /\ Cardinality(ActivePartMembers(p)) > Cardinality(DistributionMeetings)
  BY <1>1, <1>2, <1>3
<1> QED
  BY <1>5, <1>6, Zenon DEF count

LEMMA SpreadInitially == Init => PartsOutnumber /\ CountsOnSafeSide
<1> SUFFICES ASSUME Init PROVE PartsOutnumber /\ CountsOnSafeSide
  OBVIOUS
<1>1. RowsOK /\ \A g, p : OfPart(p, g) = {}
  BY RegistrationInitial DEF Inv, TypeOK, Init, RegistrationInit, TablesInit, OfPart, Applicants
<1>2. \A p, g : PartCount(p, Applicants(g), PartOf) = 0
  BY <1>1, PartCountIs, FS_EmptySet
<1> QED
  BY <1>2 DEF PartsOutnumber, CountsOnSafeSide, HoldsMeeting, Init, RegistrationInit, IdleApply

LEMMA SpreadStep ==
  /\ Inv /\ Inv' /\ PartsBalanced /\ PartStillAllowed /\ PartsOutnumber /\ CountsOnSafeSide
  /\ [Next]_vars /\ [PartsStayLarge]_vars
  => (PartsBalanced /\ PartStillAllowed /\ PartsOutnumber /\ CountsOnSafeSide)'
<1> SUFFICES ASSUME Inv, Inv', PartsBalanced, PartStillAllowed, PartsOutnumber,
                    CountsOnSafeSide, [Next]_vars, [PartsStayLarge]_vars
             PROVE  (PartsBalanced /\ PartStillAllowed /\ PartsOutnumber /\ CountsOnSafeSide)'
  OBVIOUS
<1>1. PartsStayLarge
  BY DEF PartsStayLarge, NobodyMoves, DistributionMeetings, vars, tables
<1>2. NobodyMoves
  BY <1>1 DEF PartsStayLarge
<1> QED
  BY <1>1, <1>2, BalancedPreserved, PartStillAllowedPreserved, OutnumberPreserved,
     CountsOnSafeSidePreserved

\* README's whole part rule: the three statements of apply_to_meeting that judge it see
\* different snapshots, and still the rule holds at every moment, as long as no edit
\* moves or deactivates a member or adds an OPEN or CLOSED meeting.
THEOREM RegistrationPartsSpread == Spec /\ [][PartsStayLarge]_vars => []PartsSpread
<1>1. Inv => RowsOK
  BY DEF Inv, TypeOK
<1> QED
  BY <1>1, PartsInitially, SpreadInitially, SpreadStep, SpreadIsBalancedAndOutnumbering,
     RegistrationInvariant, PTL DEF Spec

\* Without edits nothing is left of the condition: any number of applications and
\* cancellations, however they overlap, keep the part rule.
THEOREM RegistrationPartsSpreadWithoutEdits ==
  ASSUME MeetingRequests = {}, MemberEdits = {}, MemberForms = {}
  PROVE  Spec => []PartsSpread
<1>1. Inv /\ [Next]_vars => [PartsStayLarge]_vars
  <2> SUFFICES ASSUME Inv, Next PROVE PartsStayLarge
    BY DEF vars
  <2>1. MeetingEdits = {} /\ AdminMeetingEdits = {} /\ HostMeetingEdits = {} /\ MeetingCreations = {}
    BY DEF MeetingRequests, MeetingEdits
  <2>2. UNCHANGED tables
    <3>1. CASE RegistrationStep
      BY <3>1 DEF RegistrationStep, ReceiveApply, LockMember, LockMeeting, CountDistribution,
         Decide, CommitApply, TellApplied, AbortApply, ReceiveCancel, CheckCancel, CommitCancel,
         TellCancelled, AbortCancel, ChangeRegistrationWindow
    <3>2. CASE AdministrationStep
      BY <2>1, <3>2 DEF AdministrationStep
    <3>3. CASE BreakDeadlock
      BY <3>3 DEF BreakDeadlock, AbortApply, AbortCancel
    <3> QED
      BY <3>1, <3>2, <3>3 DEF Next
  <2> QED
    BY <2>2 DEF PartsStayLarge, NobodyMoves, DistributionMeetings, tables
<1> QED
  BY <1>1, RegistrationInvariant, RegistrationPartsSpread, PTL DEF Spec
=============================================================================
