----------------------------- MODULE Sequential -----------------------------
(***************************************************************************)
(* The handlers of Registration and Administration when no two of them     *)
(* overlap: one action per handler, over the tables alone.  It separates   *)
(* what the handlers' rules guarantee by themselves, over any sequence of  *)
(* calls, from what depends on how their transactions interleave.          *)
(* A handler that refuses changes no table, so an action here is a handler *)
(* that succeeds.                                                          *)
(***************************************************************************)
EXTENDS Tables

CONSTANTS
  MeetingForms,   \* what a meeting form may submit
  MemberForms     \* what a member form may submit

ASSUME FormsAssumption ==
  /\ MeetingForms \subseteq [status : Statuses, capacity : Nat, host_id : Members]
  /\ MemberForms \subseteq MemberRow

vars == <<tables, registration, registration_open>>

Apply(m, g) ==
  /\ registration_open
  /\ ApplicantDenial(m) = Permitted
  /\ g \in DOMAIN meeting
  /\ MeetingDenial(m, g, Cardinality(ActivePartMembers(PartOf[m])),
                   Cardinality(DistributionMeetings)) = Permitted
  /\ registration' = Upsert(registration, m, g)
  /\ UNCHANGED <<tables, registration_open>>

Cancel(m) ==
  /\ registration_open
  /\ CancelDenial(m) = Permitted
  /\ registration' = Delete(registration, m)
  /\ UNCHANGED <<tables, registration_open>>

AdminMeetingNew(g, form) ==
  /\ g \notin DOMAIN meeting
  /\ form.capacity >= 1 /\ HostEligible(form.host_id)
  /\ meeting' = Upsert(meeting, g, [status |-> form.status, capacity |-> form.capacity])
  /\ meeting_host' = Upsert(meeting_host, g, form.host_id)
  /\ UNCHANGED <<member, registration, registration_open>>

AdminMeetingEdit(g, form) ==
  /\ g \in DOMAIN meeting
  /\ form.capacity >= 1 /\ HostEligible(form.host_id)
  /\ StatusChangeAllowed(form.status, Cardinality(Applicants(g)))
  /\ CapacityAllowed(form.capacity, Cardinality(Applicants(g)))
  /\ meeting' = [meeting EXCEPT ![g] = [status |-> form.status, capacity |-> form.capacity]]
  /\ meeting_host' = [meeting_host EXCEPT ![g] = form.host_id]
  /\ UNCHANGED <<member, registration, registration_open>>

\* A host edits the meeting it hosts, its status excepted.
HostMeetingEdit(g, form) ==
  /\ g \in DOMAIN meeting
  /\ member[meeting_host[g]].active
  /\ form.capacity >= 1
  /\ CapacityAllowed(form.capacity, Cardinality(Applicants(g)))
  /\ meeting' = [meeting EXCEPT ![g].capacity = form.capacity]
  /\ UNCHANGED <<member, meeting_host, registration, registration_open>>

AdminMemberNew(m, form) ==
  /\ m \notin DOMAIN member
  /\ RolesCompatible(form)
  /\ member' = Upsert(member, m, form)
  /\ UNCHANGED <<meeting, meeting_host, registration, registration_open>>

\* Mutant: the right to apply is taken from a registered member.
MemberEditAllowedIfActive(m, form) ==
  /\ RolesCompatible(form)
  /\ ~form.active => m \notin DOMAIN registration /\ ~HostsMeeting(m)

\* Mutant: only the OPEN meetings of a host are counted.
MemberEditAllowedUnlessOpenHost(m, form) ==
  /\ RolesCompatible(form)
  /\ ~(form.active /\ form.apply_enabled) => m \notin DOMAIN registration
  /\ ~form.active => ~HostsOpenMeeting(m)

\* validate_member_permissions for an existing member.
MemberEditAllowed(m, form) ==
  /\ RolesCompatible(form)
  /\ ~(form.active /\ form.apply_enabled) => m \notin DOMAIN registration
  /\ ~form.active => ~HostsMeeting(m)

AdminMemberEdit(m, form) ==
  /\ m \in DOMAIN member
  /\ MemberEditAllowed(m, form)
  /\ member' = [member EXCEPT ![m] = form]
  /\ UNCHANGED <<meeting, meeting_host, registration, registration_open>>

\* scripts/bootstrap_admin.py: the admin's row is inserted, or made active in part p;
\* a host loses the right to apply.
BootstrapRow(m, p) ==
  IF m \notin DOMAIN member
  THEN [active |-> TRUE, apply_enabled |-> TRUE, host_enabled |-> FALSE, part_id |-> p]
  ELSE [active |-> TRUE, apply_enabled |-> member[m].apply_enabled /\ ~member[m].host_enabled,
        host_enabled |-> member[m].host_enabled, part_id |-> p]

BootstrapAdmin(m, p) ==
  /\ member' = Upsert(member, m, BootstrapRow(m, p))
  /\ UNCHANGED <<meeting, meeting_host, registration, registration_open>>

ChangeRegistrationWindow ==
  /\ registration_open' = ~registration_open
  /\ UNCHANGED <<tables, registration>>

Init == TablesInit

Next ==
  \/ \E m \in Members, g \in Meetings : Apply(m, g)
  \/ \E m \in Members : Cancel(m)
  \/ \E g \in Meetings, form \in MeetingForms :
       AdminMeetingNew(g, form) \/ AdminMeetingEdit(g, form) \/ HostMeetingEdit(g, form)
  \/ \E m \in Members, form \in MemberForms : AdminMemberNew(m, form) \/ AdminMemberEdit(m, form)
  \/ \E m \in Members, p \in Parts : BootstrapAdmin(m, p)
  \/ ChangeRegistrationWindow

Spec == Init /\ [][Next]_vars
=============================================================================
