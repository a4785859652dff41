---------------------------- MODULE MeetingView ----------------------------
(***************************************************************************)
(* What the list offers a member: load_public_meeting_views of             *)
(* app/services/meeting_view.py and the buttons of                         *)
(* app/templates/meetings/_groups.html.  The view repeats the decisions of *)
(* the registration service on queries of its own; on the same tables, as  *)
(* the handlers of Sequential leave them, the two must agree.              *)
(***************************************************************************)
EXTENDS Sequential

\* The rows of the first query, all but the drafts.
Listed == {g \in DOMAIN meeting : meeting[g].status \in {"OPEN", "CLOSED", "CANCELLED"}}

\* Mutant: every listed meeting counts for the part rule.
AllListed == Listed

\* distribution_meeting_count, taken from those rows.
ListedDistributionMeetings == {g \in Listed : meeting[g].status \in {"OPEN", "CLOSED"}}

PartAllowed(m, g) ==
  PartRegistrationAllowed(PartOf[m], Applicants(g), PartOf,
                          Cardinality(ActivePartMembers(PartOf[m])),
                          Cardinality(ListedDistributionMeetings))

\* can_apply.
CanApply(m, g) ==
  /\ ApplicantDenialReason(registration_open, member[m].active, member[m].apply_enabled,
                           HostsOpenMeeting(m), m \in DOMAIN registration) = Permitted
  /\ MeetingDenialReason(meeting[g].status, Cardinality(Applicants(g)), meeting[g].capacity,
                         PartAllowed(m, g)) = Permitted

IsRegistered(m, g) == m \in DOMAIN registration /\ registration[m] = g

\* The form that m finds on the card of g.
Button(m, g) ==
  IF g \notin Listed \/ HostsOpenMeeting(m) \/ meeting[g].status \in {"CANCELLED", "CLOSED"}
     \/ ~registration_open THEN "none"
  ELSE IF IsRegistered(m, g) THEN "cancel"
  ELSE IF CanApply(m, g) THEN "apply" ELSE "none"

\* show_availability_filter, as _meeting_list_context gathers it from the views.
ShowAvailabilityFilter(m) ==
  /\ registration_open
  /\ member[m].apply_enabled
  /\ ~HostsOpenMeeting(m)
  /\ ~\E g \in Listed : m \in DOMAIN registration

ServiceWouldApply(m, g) ==
  /\ registration_open
  /\ ApplicantDenial(m) = Permitted
  /\ MeetingDenial(m, g, Cardinality(ActivePartMembers(PartOf[m])),
                   Cardinality(DistributionMeetings)) = Permitted

ServiceWouldCancel(m, g) ==
  registration_open /\ CancelDenial(m) = Permitted /\ registration[m] = g

ActiveMembers == {m \in DOMAIN member : member[m].active}

\* IMPLEMENTATION_PLAN.md: view and transaction share one policy.  A member who looks
\* at the list, and so is active, finds the apply button on exactly the meetings that
\* the service would let the member into, and then the status chips as well.
ApplyOffered ==
  \A m \in ActiveMembers, g \in DOMAIN meeting :
    /\ Button(m, g) = "apply" <=> ServiceWouldApply(m, g)
    /\ Button(m, g) = "apply" => ShowAvailabilityFilter(m)

\* The cancel button is there exactly when the service would cancel: it is not hidden,
\* as all buttons of the host of an OPEN meeting are, from anybody who is registered.
CancelOffered ==
  \A m \in ActiveMembers, g \in DOMAIN meeting :
    Button(m, g) = "cancel" <=> ServiceWouldCancel(m, g)
=============================================================================
