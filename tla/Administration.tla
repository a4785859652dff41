--------------------------- MODULE Administration ---------------------------
(***************************************************************************)
(* The console's edits of the tables the registration transactions read:   *)
(* admin_meeting_new, admin_meeting_edit, admin_member_new and             *)
(* admin_member_edit of app/routers/admin.py, host_meeting_edit of         *)
(* app/routers/host.py.  None of them locks what it validates; each writes *)
(* with UPDATE, which sets only the columns that differ from the row the   *)
(* handler loaded.  Next is the whole system: registrations and edits.     *)
(***************************************************************************)
EXTENDS Registration

CONSTANTS
  AdminMeetingEdits,  \* POST /admin/meetings/{id}/edit
  HostMeetingEdits,   \* POST /host/meetings/{id}/edit
  MeetingCreations,   \* POST /admin/meetings/new
  MemberEdits,        \* POST /admin/members/{id}/edit
  MeetingForms,       \* what a meeting form may submit
  MemberForms         \* what a member form may submit

MeetingEdits == AdminMeetingEdits \cup HostMeetingEdits
MeetingRequests == MeetingEdits \cup MeetingCreations

ASSUME AdministrationAssumption ==
  /\ OtherRequests = MeetingRequests \cup MemberEdits
  /\ AdminMeetingEdits \cap HostMeetingEdits = {}
  /\ MeetingEdits \cap MeetingCreations = {}
  /\ MeetingRequests \cap MemberEdits = {}
  /\ MeetingForms \subseteq [status : Statuses, capacity : Nat, host_id : Members]
  /\ MemberForms \subseteq MemberRow

VARIABLES
  meeting_form,  \* meeting edits and creations: locals of the handler
  member_form    \* member edits: locals of admin_member_edit

forms == <<meeting_form, member_form>>
vars == <<tables, registrations, registration_open, locks, apply, cancel, forms>>

-----------------------------------------------------------------------------
MeetingSteps == {"check_host", "count", "flush", "commit", "insert"}

\* How a form ends.  "SAVED": COMMIT took effect, whether or not the redirect then reached
\* the admin; "ERROR": rolled back.  No property reads what a form was told.
FormAnswers == {"SAVED", "INVALID", "NOT_FOUND", "FORBIDDEN", "CONFLICT", "ERROR"}

MeetingFormRecord ==
  [pc : {"idle", "done"} \cup MeetingSteps,
   meeting_id : Meetings \cup {None}, form : MeetingForms \cup {None},
   loaded : MeetingRow \cup {None}, loaded_host : Members \cup {None},
   answer : FormAnswers \cup {"NONE"}]

IdleMeetingForm == [pc |-> "idle", meeting_id |-> None, form |-> None, loaded |-> None,
                    loaded_host |-> None, answer |-> "NONE"]

AnswerMeetingForm(r, answer) ==
  meeting_form' = [meeting_form EXCEPT ![r] =
                     [IdleMeetingForm EXCEPT !.pc = "done", !.answer = answer]]

\* db.get(Meeting) and parse_meeting_details (capacity stands for its checks).
ReceiveAdminMeetingEdit(r, g, form) ==
  /\ meeting_form[r].pc = "idle"
  /\ \/ /\ g \notin DOMAIN meeting
        /\ AnswerMeetingForm(r, "NOT_FOUND")
     \/ /\ g \in DOMAIN meeting /\ form.capacity < 1
        /\ AnswerMeetingForm(r, "INVALID")
     \/ /\ g \in DOMAIN meeting /\ form.capacity >= 1
        /\ meeting_form' = [meeting_form EXCEPT ![r] =
                              [@ EXCEPT !.pc = "check_host", !.form = form,
                                        !.meeting_id = g, !.loaded = meeting[g]]]
  /\ UNCHANGED <<tables, registrations, registration_open, locks, apply, cancel, member_form>>

CheckHost(r) ==
  /\ meeting_form[r].pc = "check_host"
  /\ IF HostEligible(meeting_form[r].form.host_id)
     THEN meeting_form' = [meeting_form EXCEPT ![r].pc = "count"]
     ELSE AnswerMeetingForm(r, "INVALID")
  /\ UNCHANGED <<tables, registrations, registration_open, locks, apply, cancel, member_form>>

\* require_hosted_meeting for the meeting's host m; the form carries capacity only,
\* so status and host stay what they are.
ReceiveHostMeetingEdit(r, m, g, form) ==
  /\ meeting_form[r].pc = "idle"
  /\ m \in DOMAIN member
  /\ \/ /\ ~(member[m].active /\ g \in DOMAIN meeting /\ meeting_host[g] = m)
        /\ AnswerMeetingForm(r, "FORBIDDEN")
     \/ /\ member[m].active /\ g \in DOMAIN meeting /\ meeting_host[g] = m
        /\ form.host_id = m /\ form.status = meeting[g].status
        /\ IF form.capacity < 1
           THEN AnswerMeetingForm(r, "INVALID")
           ELSE meeting_form' = [meeting_form EXCEPT ![r] =
                                   [@ EXCEPT !.pc = "count", !.form = form,
                                             !.meeting_id = g, !.loaded = meeting[g]]]
  /\ UNCHANGED <<tables, registrations, registration_open, locks, apply, cancel, member_form>>

\* meeting_registration_count without a lock, and the two checks on it; a host
\* submits no status, so only an admin's status is checked.
MeetingEditAllowed(r, appliedCount) ==
  /\ r \in AdminMeetingEdits => StatusChangeAllowed(meeting_form[r].form.status, appliedCount)
  /\ CapacityAllowed(meeting_form[r].form.capacity, appliedCount)

CountApplicants(r) ==
  /\ meeting_form[r].pc = "count"
  /\ IF MeetingEditAllowed(r, Cardinality(Applicants(meeting_form[r].meeting_id)))
     THEN meeting_form' = [meeting_form EXCEPT ![r].pc = "flush"]
     ELSE AnswerMeetingForm(r, "INVALID")
  /\ UNCHANGED <<tables, registrations, registration_open, locks, apply, cancel, member_form>>

MeetingRowChanged(r) ==
  \/ meeting_form[r].form.status # meeting_form[r].loaded.status
  \/ meeting_form[r].form.capacity # meeting_form[r].loaded.capacity

\* The autoflush of db.get(MeetingHost): UPDATE meeting, which waits for the
\* row's lock and keeps it to the end of the transaction, then the read.
FlushMeeting(r) ==
  LET g == meeting_form[r].meeting_id IN
  /\ meeting_form[r].pc = "flush"
  /\ IF MeetingRowChanged(r)
     THEN meeting_lock[g] = None /\ meeting_lock' = [meeting_lock EXCEPT ![g] = r]
     ELSE UNCHANGED meeting_lock
  /\ meeting_form' = [meeting_form EXCEPT ![r] =
                        [@ EXCEPT !.pc = "commit", !.loaded_host = meeting_host[g]]]
  /\ UNCHANGED <<tables, registrations, registration_open, member_lock, apply, cancel,
                 member_form>>

\* Mutant: UPDATE meeting SET every column.
MeetingUpdateAllColumns(row, form, loaded) ==
  [status |-> form.status, capacity |-> form.capacity]

\* UPDATE meeting SET the columns that the form changed.
MeetingUpdate(row, form, loaded) ==
  [status |-> IF form.status # loaded.status THEN form.status ELSE row.status,
   capacity |-> IF form.capacity # loaded.capacity THEN form.capacity ELSE row.capacity]

\* Only an admin's form names a host.
HostChanged(r) ==
  r \in AdminMeetingEdits /\ meeting_form[r].form.host_id # meeting_form[r].loaded_host

\* A member row that a registration transaction locked FOR UPDATE cannot be
\* referenced by a new foreign key (KEY SHARE) until that transaction ends.
CommitMeeting(r) ==
  LET g == meeting_form[r].meeting_id
      form == meeting_form[r].form
  IN
  /\ meeting_form[r].pc = "commit"
  /\ HostChanged(r) => member_lock[form.host_id] = None
  /\ meeting' = [meeting EXCEPT ![g] = MeetingUpdate(@, form, meeting_form[r].loaded)]
  /\ meeting_host' = IF HostChanged(r)
                     THEN [meeting_host EXCEPT ![g] = form.host_id]
                     ELSE meeting_host
  /\ AnswerMeetingForm(r, "SAVED")
  /\ ReleaseLocks(r)
  /\ UNCHANGED <<member, registrations, registration_open, apply, cancel, member_form>>

\* admin_meeting_new: parse, then the host is read.
ReceiveMeetingCreation(r, form) ==
  /\ meeting_form[r].pc = "idle"
  /\ IF form.capacity >= 1 /\ HostEligible(form.host_id)
     THEN meeting_form' = [meeting_form EXCEPT ![r] = [@ EXCEPT !.pc = "insert", !.form = form]]
     ELSE AnswerMeetingForm(r, "INVALID")
  /\ UNCHANGED <<tables, registrations, registration_open, locks, apply, cancel, member_form>>

\* Mutant: the meeting commits without its host.
InsertMeetingOnly(r, g) ==
  LET form == meeting_form[r].form IN
  /\ meeting_form[r].pc = "insert"
  /\ g \notin DOMAIN meeting
  /\ meeting' = Upsert(meeting, g, [status |-> form.status, capacity |-> form.capacity])
  /\ AnswerMeetingForm(r, "SAVED")
  /\ UNCHANGED <<member, meeting_host, registrations, registration_open, locks, apply, cancel,
                 member_form>>

\* flush, MeetingHost and commit: the new meeting appears together with its host.
InsertMeeting(r, g) ==
  LET form == meeting_form[r].form IN
  /\ meeting_form[r].pc = "insert"
  /\ g \notin DOMAIN meeting
  /\ member_lock[form.host_id] = None
  /\ meeting' = Upsert(meeting, g, [status |-> form.status, capacity |-> form.capacity])
  /\ meeting_host' = Upsert(meeting_host, g, form.host_id)
  /\ AnswerMeetingForm(r, "SAVED")
  /\ UNCHANGED <<member, registrations, registration_open, locks, apply, cancel, member_form>>

AbortMeetingForm(r) ==
  /\ meeting_form[r].pc \in MeetingSteps
  /\ AnswerMeetingForm(r, "ERROR")
  /\ ReleaseLocks(r)
  /\ UNCHANGED <<tables, registrations, registration_open, apply, cancel, member_form>>

-----------------------------------------------------------------------------
MemberSteps == {"count_registrations", "count_hosted", "save"}

MemberFormRecord ==
  [pc : {"idle", "done"} \cup MemberSteps,
   member_id : Members \cup {None}, form : MemberForms \cup {None},
   loaded : MemberRow \cup {None}, answer : FormAnswers \cup {"NONE"}]

IdleMemberForm == [pc |-> "idle", member_id |-> None, form |-> None, loaded |-> None,
                   answer |-> "NONE"]

AnswerMemberForm(r, answer) ==
  member_form' = [member_form EXCEPT ![r] =
                    [IdleMemberForm EXCEPT !.pc = "done", !.answer = answer]]

ContinueMemberForm(r, step) == member_form' = [member_form EXCEPT ![r].pc = step]

\* load_member, then the check of validate_member_permissions that needs no
\* query; an active member who may apply needs none at all.
ReceiveMemberEdit(r, m, form) ==
  /\ member_form[r].pc = "idle"
  /\ \/ /\ m \notin DOMAIN member
        /\ AnswerMemberForm(r, "NOT_FOUND")
     \/ /\ m \in DOMAIN member /\ ~RolesCompatible(form)
        /\ AnswerMemberForm(r, "INVALID")
     \/ /\ m \in DOMAIN member /\ RolesCompatible(form)
        /\ member_form' = [member_form EXCEPT ![r] =
             [@ EXCEPT !.member_id = m, !.form = form, !.loaded = member[m],
                       !.pc = IF form.active /\ form.apply_enabled
                              THEN "save" ELSE "count_registrations"]]
  /\ UNCHANGED <<tables, registrations, registration_open, locks, apply, cancel, meeting_form>>

\* Whoever is registered stays active and keeps the right to apply.
CountRegistrations(r) ==
  /\ member_form[r].pc = "count_registrations"
  /\ IF member_form[r].member_id \in DOMAIN registration
     THEN AnswerMemberForm(r, "INVALID")
     ELSE ContinueMemberForm(r, IF member_form[r].form.active THEN "save" ELSE "count_hosted")
  /\ UNCHANGED <<tables, registrations, registration_open, locks, apply, cancel, meeting_form>>

\* Whoever hosts a meeting, whatever its status, stays active.
CountHosted(r) ==
  /\ member_form[r].pc = "count_hosted"
  /\ IF HostsMeeting(member_form[r].member_id)
     THEN AnswerMemberForm(r, "INVALID")
     ELSE ContinueMemberForm(r, "save")
  /\ UNCHANGED <<tables, registrations, registration_open, locks, apply, cancel, meeting_form>>

MemberUpdate(row, form, loaded) ==
  [c \in DOMAIN row |-> IF form[c] # loaded[c] THEN form[c] ELSE row[c]]

\* UPDATE member at commit: it waits for a registration transaction that holds
\* the row.  The CHECK constraint sees the merged row.
SaveMember(r) ==
  LET m == member_form[r].member_id
      row == MemberUpdate(member[m], member_form[r].form, member_form[r].loaded)
  IN
  /\ member_form[r].pc = "save"
  /\ member_form[r].form # member_form[r].loaded => member_lock[m] = None
  /\ \/ /\ ~RolesCompatible(row)
        /\ AnswerMemberForm(r, "CONFLICT")
        /\ UNCHANGED member
     \/ /\ RolesCompatible(row)
        /\ AnswerMemberForm(r, "SAVED")
        /\ member' = [member EXCEPT ![m] = row]
  /\ UNCHANGED <<meeting, meeting_host, registrations, registration_open, locks, apply, cancel,
                 meeting_form>>

AbortMemberForm(r) ==
  /\ member_form[r].pc \in MemberSteps
  /\ AnswerMemberForm(r, "ERROR")
  /\ UNCHANGED <<tables, registrations, registration_open, locks, apply, cancel, meeting_form>>

\* admin_member_new: one insert, validated without a query.
CreateMember(m, form) ==
  /\ m \notin DOMAIN member
  /\ RolesCompatible(form)
  /\ member' = Upsert(member, m, form)
  /\ UNCHANGED <<meeting, meeting_host, registrations, registration_open, locks, apply, cancel,
                 forms>>

-----------------------------------------------------------------------------
\* The transaction whose row lock request r waits for, None when r is not blocked: an
\* applicant waits for a meeting being edited or applied to, an edit for the member
\* it makes host or whose row it updates.
BlockedBy(r) ==
  CASE r \in ApplyRequests /\ apply[r].pc = "lock_member" -> member_lock[apply[r].member_id]
    [] r \in ApplyRequests /\ apply[r].pc = "lock_meeting" -> meeting_lock[apply[r].meeting_id]
    [] r \in CancelRequests /\ cancel[r].pc = "lock_member" -> member_lock[cancel[r].member_id]
    [] r \in CancelRequests /\ cancel[r].pc = "commit" /\ LockedForUpdate(cancel[r].meeting_id)
         -> meeting_lock[cancel[r].meeting_id]
    [] r \in MeetingEdits /\ meeting_form[r].pc = "flush" /\ MeetingRowChanged(r)
         -> meeting_lock[meeting_form[r].meeting_id]
    [] r \in MeetingEdits /\ meeting_form[r].pc = "commit" /\ HostChanged(r)
         -> member_lock[meeting_form[r].form.host_id]
    [] r \in MeetingCreations /\ meeting_form[r].pc = "insert"
         -> member_lock[meeting_form[r].form.host_id]
    [] r \in MemberEdits /\ member_form[r].pc = "save"
         /\ member_form[r].form # member_form[r].loaded -> member_lock[member_form[r].member_id]
    [] OTHER -> None

\* Transactions that wait for one another in a circle, and those that wait for them.
Deadlocked(S) == S # {} /\ \A r \in S : BlockedBy(r) \in S

\* PostgreSQL detects the cycle and rolls one of its transactions back.
BreakDeadlock ==
  \E S \in SUBSET {r \in Requests : BlockedBy(r) # None} :
    /\ Deadlocked(S)
    /\ \E r \in S :
         \/ r \in ApplyRequests /\ AbortApply(r) /\ UNCHANGED forms
         \/ r \in CancelRequests /\ AbortCancel(r) /\ UNCHANGED forms
         \/ r \in MeetingRequests /\ AbortMeetingForm(r)

Init ==
  /\ RegistrationInit
  /\ meeting_form = [r \in MeetingRequests |-> IdleMeetingForm]
  /\ member_form = [r \in MemberEdits |-> IdleMemberForm]

AdministrationStep ==
  \/ \E r \in AdminMeetingEdits, g \in Meetings, form \in MeetingForms :
       ReceiveAdminMeetingEdit(r, g, form)
  \/ \E r \in HostMeetingEdits, m \in Members, g \in Meetings, form \in MeetingForms :
       ReceiveHostMeetingEdit(r, m, g, form)
  \/ \E r \in MeetingEdits : CheckHost(r) \/ CountApplicants(r) \/ FlushMeeting(r)
                               \/ CommitMeeting(r)
  \/ \E r \in MeetingCreations, form \in MeetingForms : ReceiveMeetingCreation(r, form)
  \/ \E r \in MeetingCreations, g \in Meetings : InsertMeeting(r, g)
  \/ \E r \in MeetingRequests : AbortMeetingForm(r)
  \/ \E r \in MemberEdits, m \in Members, form \in MemberForms : ReceiveMemberEdit(r, m, form)
  \/ \E r \in MemberEdits : CountRegistrations(r) \/ CountHosted(r) \/ SaveMember(r)
                              \/ AbortMemberForm(r)
  \/ \E m \in Members, form \in MemberForms : CreateMember(m, form)

Next == (RegistrationStep /\ UNCHANGED forms) \/ AdministrationStep \/ BreakDeadlock

Spec == Init /\ [][Next]_vars

\* A received request keeps running: each of its statements is eventually executed
\* when nothing blocks it, and PostgreSQL's deadlock detector runs.
Fairness ==
  /\ \A r \in ApplyRequests :
       WF_vars((LockMember(r) \/ LockMeeting(r) \/ CountDistribution(r) \/ Decide(r)
                  \/ CommitApply(r) \/ TellApplied(r)) /\ UNCHANGED forms)
  /\ \A r \in CancelRequests :
       WF_vars((CheckCancel(r) \/ CommitCancel(r) \/ TellCancelled(r)) /\ UNCHANGED forms)
  /\ \A r \in MeetingEdits :
       WF_vars(CheckHost(r) \/ CountApplicants(r) \/ FlushMeeting(r) \/ CommitMeeting(r))
  /\ \A r \in MeetingCreations : WF_vars(\E g \in Meetings : InsertMeeting(r, g))
  /\ \A r \in MemberEdits : WF_vars(CountRegistrations(r) \/ CountHosted(r) \/ SaveMember(r))
  /\ WF_vars(BreakDeadlock)

FairSpec == Spec /\ Fairness
=============================================================================
