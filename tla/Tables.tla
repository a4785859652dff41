------------------------------- MODULE Tables -------------------------------
(***************************************************************************)
(* The tables of app/models/core.py that registrations and edits share,    *)
(* the queries the handlers make of them, and what README.md promises      *)
(* about their contents.                                                   *)
(*                                                                         *)
(* A table is a function from primary key to row; a row that was never     *)
(* inserted is outside the function's domain.  registration has a unique   *)
(* member_id, so it maps a member to its meeting.                          *)
(***************************************************************************)
EXTENDS RegistrationPolicy, Sequences, Functions

CONSTANTS
  Members,        \* member_id values
  Meetings,       \* meeting_id values
  Parts,          \* part_id values
  InitialTables   \* the contents of member, meeting, meeting_host at start

Statuses == {"DRAFT", "OPEN", "CLOSED", "CANCELLED"}

\* The columns of member that a rule reads; part_id stands for the module's part.
MemberRow == [active : BOOLEAN, apply_enabled : BOOLEAN,
              host_enabled : BOOLEAN, part_id : Parts]

MeetingRow == [status : Statuses, capacity : Nat \ {0}]

\* Well-formed member, meeting and meeting_host tables, with the CHECK constraint
\* on member and the foreign keys of meeting_host.
TablesOK(mem, mtg, hosts) ==
  /\ DOMAIN mem \subseteq Members /\ mem \in [DOMAIN mem -> MemberRow]
  /\ \A m \in DOMAIN mem : RolesCompatible(mem[m])
  /\ DOMAIN mtg \subseteq Meetings /\ mtg \in [DOMAIN mtg -> MeetingRow]
  /\ hosts \in [DOMAIN mtg -> DOMAIN mem]

\* Hosts are assigned among the active members who may host.
HostsAssigned(mem, hosts) ==
  \A g \in DOMAIN hosts : mem[hosts[g]].active /\ mem[hosts[g]].host_enabled

ASSUME FiniteAssumption == IsFiniteSet(Members) /\ IsFiniteSet(Meetings)

ASSUME InitialAssumption ==
  \A t \in InitialTables :
    TablesOK(t.member, t.meeting, t.meeting_host) /\ HostsAssigned(t.member, t.meeting_host)

VARIABLES
  member,            \* table member
  meeting,           \* table meeting
  meeting_host,      \* table meeting_host: meeting_id -> member_id
  registration,      \* table registration: member_id -> meeting_id
  registration_open  \* what registration_is_open() answers now

tables == <<member, meeting, meeting_host>>

\* No registration yet, and a window that has not opened.
TablesInit ==
  /\ \E t \in InitialTables :
        member = t.member /\ meeting = t.meeting /\ meeting_host = t.meeting_host
  /\ registration = [m \in {} |-> m]
  /\ registration_open = FALSE

-----------------------------------------------------------------------------
Upsert(f, key, value) ==
  [k \in DOMAIN f \cup {key} |-> IF k = key THEN value ELSE f[k]]

Delete(f, key) == Restrict(f, DOMAIN f \ {key})

Applicants(g) == {m \in DOMAIN registration : registration[m] = g}

PartOf == [m \in DOMAIN member |-> member[m].part_id]

\* The active members of a part, able to apply or not.
ActivePartMembers(p) == {m \in DOMAIN member : member[m].active /\ member[m].part_id = p}

\* The meetings over which a part is to be spread.
DistributionMeetings == {g \in DOMAIN meeting : meeting[g].status \in {"OPEN", "CLOSED"}}

HostsOpenMeeting(m) ==
  \E g \in DOMAIN meeting_host : meeting_host[g] = m /\ meeting[g].status = "OPEN"

HostsMeeting(m) == \E g \in DOMAIN meeting_host : meeting_host[g] = m

\* The applicant-level checks of apply_to_meeting, which returns for the host of an
\* OPEN meeting before it asks for the policy's first reason.
ApplicantDenial(m) ==
  IF m \notin DOMAIN member THEN "NOT_ELIGIBLE"
  ELSE IF HostsOpenMeeting(m) THEN "HOST_NOT_ALLOWED"
  ELSE ApplicantDenialReason(TRUE, member[m].active, member[m].apply_enabled,
                             FALSE, m \in DOMAIN registration)

\* Its meeting-level checks, with the two counts of the part rule; g exists.
MeetingDenial(m, g, activePartMembers, distributionMeetings) ==
  MeetingDenialReason(
    meeting[g].status, Cardinality(Applicants(g)), meeting[g].capacity,
    PartRegistrationAllowed(PartOf[m], Applicants(g), PartOf,
                            activePartMembers, distributionMeetings))

\* The checks of cancel_registration.
CancelDenial(m) ==
  CASE m \notin DOMAIN member -> "NOT_ELIGIBLE"
    [] m \in DOMAIN member /\ ~member[m].active -> "NOT_ELIGIBLE"
    [] m \in DOMAIN member /\ member[m].active /\ m \notin DOMAIN registration
         -> "NOT_REGISTERED"
    [] OTHER -> IF meeting[registration[m]].status = "OPEN"
                THEN Permitted ELSE "MEETING_NOT_OPEN"

\* Mutant: any active member may be made host.
HostActive(m) == m \in DOMAIN member /\ member[m].active

\* validate_admin_meeting_fields on the member the form names.
HostEligible(m) == m \in DOMAIN member /\ member[m].active /\ member[m].host_enabled

-----------------------------------------------------------------------------
\* README: registrations never exceed a meeting's capacity.
CapacityRespected ==
  \A g \in DOMAIN meeting : Cardinality(Applicants(g)) <= meeting[g].capacity

\* README: at most two applicants of one part in a meeting, at most one part with
\* two, and only when the part outnumbers the OPEN and CLOSED meetings.
PartsSpread ==
  \A g \in DOMAIN meeting :
    LET count(p) == PartCount(p, Applicants(g), PartOf)
        doubled == {p \in Parts : count(p) >= 2}
    IN /\ Cardinality(doubled) <= 1
       /\ \A p \in doubled :
            count(p) = 2 /\ Cardinality(ActivePartMembers(p)) > Cardinality(DistributionMeetings)

\* README: a meeting with applicants is not CANCELLED.
CancelledMeetingsEmpty ==
  \A g \in DOMAIN meeting : meeting[g].status = "CANCELLED" => Applicants(g) = {}

\* README: whoever is registered is active and may apply, and hosts no OPEN meeting.
RegisteredMembersEligible ==
  \A m \in DOMAIN registration :
    member[m].active /\ member[m].apply_enabled /\ ~HostsOpenMeeting(m)

\* README: an inactive member hosts no meeting.
HostsActive == \A g \in DOMAIN meeting_host : member[meeting_host[g]].active
=============================================================================
