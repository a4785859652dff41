------------------------- MODULE RegistrationPolicy -------------------------
(***************************************************************************)
(* The pure rules that decide whether a member may register for a meeting: *)
(* app/services/registration_policy.py, part_registration_policy.py and    *)
(* the validations of meeting_service.py and member_service.py.  No state; *)
(* the handlers that call them are in Registration and Administration.     *)
(***************************************************************************)
EXTENDS Integers, FiniteSets

\* What the two denial functions return when nothing forbids the registration
\* (Python's None).
Permitted == "PERMITTED"

\* The first applicant-level reason.  The conditions are ordered: a later
\* reason is given only when the earlier conditions are false.
ApplicantDenialReason(open, active, applyEnabled, isOpenHost, isRegistered) ==
  CASE ~open                    -> "REGISTRATION_NOT_STARTED"
    [] open /\ ~(active /\ applyEnabled) -> "NOT_ELIGIBLE"
    [] open /\ active /\ applyEnabled /\ isOpenHost -> "HOST_NOT_ALLOWED"
    [] open /\ active /\ applyEnabled /\ ~isOpenHost /\ isRegistered
                                -> "ALREADY_REGISTERED"
    [] OTHER                    -> Permitted

\* The first meeting-level reason; the meeting row exists.
MeetingDenialReason(status, appliedCount, capacity, partAllowed) ==
  CASE status # "OPEN" -> "MEETING_NOT_OPEN"
    [] status = "OPEN" /\ appliedCount >= capacity -> "MEETING_FULL"
    [] status = "OPEN" /\ appliedCount < capacity /\ ~partAllowed
                       -> "PART_LIMIT_REACHED"
    [] OTHER           -> Permitted

\* Counter(applicant_part_ids)[p], the applicants being members and partOf
\* the function that gives each its part.
PartCount(p, applicants, partOf) == Cardinality({a \in applicants : partOf[a] = p})

AtMostOnePerPart(applicants, partOf) ==
  \A a \in applicants : PartCount(partOf[a], applicants, partOf) < 2

\* Mutant: a second applicant of a part is let in beside another part's pair.
PartRegistrationAllowedBesidePair(candidatePart, applicants, partOf, activeMembers, meetings) ==
  \/ PartCount(candidatePart, applicants, partOf) = 0
  \/ PartCount(candidatePart, applicants, partOf) = 1 /\ activeMembers > meetings

\* part_registration_allowed: nobody of the part yet, or a second one when the
\* part has more active members than there are meetings and no part of this
\* meeting has two applicants already.
PartRegistrationAllowed(candidatePart, applicants, partOf, activeMembers, meetings) ==
  \/ PartCount(candidatePart, applicants, partOf) = 0
  \/ /\ PartCount(candidatePart, applicants, partOf) = 1
     /\ activeMembers > meetings
     /\ AtMostOnePerPart(applicants, partOf)

\* Mutant: validate_meeting_status_change is not called.
StatusChangeUnchecked(status, appliedCount) == TRUE

\* validate_meeting_status_change: a meeting that has applicants is not cancelled.
StatusChangeAllowed(status, appliedCount) == status = "CANCELLED" => appliedCount = 0

\* Mutant: off by one.
CapacityAllowedOffByOne(capacity, appliedCount) == capacity + 1 >= appliedCount

\* The check of update_meeting_details.
CapacityAllowed(capacity, appliedCount) == capacity >= appliedCount

\* The part of validate_member_permissions that needs no query; the member
\* table's CHECK constraint is the same condition.
RolesCompatible(row) == ~(row.host_enabled /\ row.apply_enabled)
=============================================================================
