----------------------- MODULE RegistrationProperties -----------------------
(***************************************************************************)
(* What the registration system must guarantee, over the specification of  *)
(* Administration.                                                         *)
(***************************************************************************)
EXTENDS Administration

\* The locals of a request are those its handler has computed by its current step.
ApplyFilled(r) ==
  apply[r].pc # "idle" => apply[r].member_id \in Members /\ apply[r].meeting_id \in Meetings

CancelFilled(r) == cancel[r].pc # "idle" => cancel[r].member_id \in Members

MeetingFormFilled(r, f) ==
  /\ f.pc \in MeetingSteps => f.form \in MeetingForms /\ f.form.capacity >= 1
  /\ f.pc \in MeetingSteps \ {"insert"} =>
       r \in MeetingEdits /\ f.meeting_id \in DOMAIN meeting /\ f.loaded \in MeetingRow
  /\ f.pc = "insert" => r \in MeetingCreations
  /\ f.pc \in MeetingSteps \ {"check_host"} => f.form.host_id \in DOMAIN member

MemberFormFilled(f) ==
  f.pc \in MemberSteps =>
    f.member_id \in DOMAIN member /\ f.form \in MemberForms /\ f.loaded \in MemberRow

RowsOK ==
  /\ TablesOK(member, meeting, meeting_host)
  /\ DOMAIN registration \subseteq DOMAIN member
  /\ registration \in [DOMAIN registration -> DOMAIN meeting]
  /\ registration_history \in [Members -> Seq(HistoryRow)]
  /\ registration_open \in BOOLEAN

LocksOK ==
  /\ member_lock \in [Members -> ApplyRequests \cup CancelRequests \cup {None}]
  /\ meeting_lock \in [Meetings -> ApplyRequests \cup MeetingEdits \cup {None}]

RegistrationRequestsOK ==
  /\ apply \in [ApplyRequests -> ApplyRecord] /\ \A r \in ApplyRequests : ApplyFilled(r)
  /\ cancel \in [CancelRequests -> CancelRecord] /\ \A r \in CancelRequests : CancelFilled(r)

FormsOK ==
  /\ meeting_form \in [MeetingRequests -> MeetingFormRecord]
  /\ \A r \in MeetingRequests : MeetingFormFilled(r, meeting_form[r])
  /\ member_form \in [MemberEdits -> MemberFormRecord]
  /\ \A r \in MemberEdits : MemberFormFilled(member_form[r])

\* Every variable has its type: the tables satisfy their CHECK constraints and
\* foreign keys, and each handler's locals are filled as far as it has come.
TypeOK == RowsOK /\ LocksOK /\ RegistrationRequestsOK /\ FormsOK

\* The steps of an apply transaction at which it owns the member's row, and the
\* meeting's row.
HoldsMember(r) == apply[r].pc \in {"lock_meeting", "count_distribution", "decide", "commit"}
HoldsMeeting(r) == apply[r].pc \in {"count_distribution", "decide", "commit"}

\* A row lock is held by exactly the transaction whose step needs it: no lock
\* outlives its transaction, and no transaction goes on without its lock.
LocksMatchSteps ==
  /\ \A m \in Members, r \in ApplyRequests :
       member_lock[m] = r <=> HoldsMember(r) /\ apply[r].member_id = m
  /\ \A m \in Members, r \in CancelRequests :
       member_lock[m] = r <=> cancel[r].pc = "commit" /\ cancel[r].member_id = m
  /\ \A g \in Meetings, r \in ApplyRequests :
       meeting_lock[g] = r <=> HoldsMeeting(r) /\ apply[r].meeting_id = g
  /\ \A g \in Meetings, r \in MeetingEdits :
       meeting_lock[g] = r <=> /\ meeting_form[r].pc = "commit" /\ MeetingRowChanged(r)
                               /\ meeting_form[r].meeting_id = g

\* What apply_to_meeting checked still holds when it commits, whatever the console
\* and the other members committed since: the member may apply and is not
\* registered, the meeting is OPEN and has room.  (Two locks, not one, make it so.)
DecisionsStillHold ==
  \A r \in ApplyRequests :
    LET m == apply[r].member_id
        g == apply[r].meeting_id
    IN /\ HoldsMember(r) => /\ m \in DOMAIN member \ DOMAIN registration
                            /\ member[m].active /\ member[m].apply_enabled
       /\ HoldsMeeting(r) => g \in DOMAIN meeting
       /\ apply[r].pc = "commit" => /\ meeting[g].status = "OPEN"
                                    /\ Cardinality(Applicants(g)) < meeting[g].capacity

\* A cancellation deletes the registration it looked at: no other request of the
\* member gets between its check and its commit.
CancellationsStillHold ==
  \A r \in CancelRequests :
    cancel[r].pc = "commit" =>
      /\ cancel[r].member_id \in DOMAIN registration
      /\ registration[cancel[r].member_id] = cancel[r].meeting_id
      /\ member[cancel[r].member_id].active

LastEntry(m) == registration_history[m][Len(registration_history[m])]

\* registration_history tells what registration holds: a member's entries alternate
\* between APPLY and the CANCEL of the same meeting, and the last one is an APPLY
\* exactly while the member is registered, for that meeting.
HistoryExplainsRegistrations ==
  \A m \in Members :
    LET h == registration_history[m] IN
    /\ h # <<>> => h[1].action = "APPLY"
    /\ \A i \in 1 .. Len(h) - 1 :
         IF h[i].action = "APPLY"
         THEN h[i + 1] = [action |-> "CANCEL", meeting_id |-> h[i].meeting_id]
         ELSE h[i + 1].action = "APPLY"
    /\ IF m \in DOMAIN registration
       THEN h # <<>> /\ LastEntry(m) = [action |-> "APPLY", meeting_id |-> registration[m]]
       ELSE h # <<>> => LastEntry(m).action = "CANCEL"

\* The history rows of a member's changes of one kind for meeting g; the requests of the
\* member that made such a change and were, or still will be, told so; and those that
\* were answered with an error, whose COMMIT may have taken effect or not.
Entries(action, m, g) ==
  {i \in DOMAIN registration_history[m] :
     registration_history[m][i] = [action |-> action, meeting_id |-> g]}

Applied(m, g) ==
  {r \in ApplyRequests : /\ apply[r].member_id = m /\ apply[r].meeting_id = g
                         /\ apply[r].pc = "answer" \/ apply[r].answer = "APPLIED"}

FailedToApply(m, g) ==
  {r \in ApplyRequests : /\ apply[r].member_id = m /\ apply[r].meeting_id = g
                         /\ apply[r].answer = "ERROR"}

Cancelled(m, g) ==
  {r \in CancelRequests : /\ cancel[r].member_id = m /\ cancel[r].meeting_id = g
                          /\ cancel[r].pc = "answer" \/ cancel[r].answer = "CANCELLED"}

FailedToCancel(m, g) ==
  {r \in CancelRequests : /\ cancel[r].member_id = m /\ cancel[r].meeting_id = g
                          /\ cancel[r].answer = "ERROR"}

Accounted(entries, succeeded, failed) ==
  /\ Cardinality(succeeded) <= Cardinality(entries)
  /\ Cardinality(entries) <= Cardinality(succeeded \cup failed)

\* Every success told, or about to be told, has a row of its own in the history, and a row
\* beyond those is that of a request that failed after its COMMIT: no success without its
\* effect, no effect of a refusal, no request with two.
AnswersMatchHistory ==
  \A m \in Members, g \in Meetings :
    /\ Accounted(Entries("APPLY", m, g), Applied(m, g), FailedToApply(m, g))
    /\ Accounted(Entries("CANCEL", m, g), Cancelled(m, g), FailedToCancel(m, g))

\* An edit writes only the columns its form changed: the status of a meeting changes
\* only when an admin submitted that status, never because a host saved a form that
\* was loaded before the change.
StatusChangedOnlyByAdmin ==
  [][\A g \in DOMAIN meeting :
       meeting'[g].status # meeting[g].status =>
         \E r \in AdminMeetingEdits :
           /\ meeting_form[r].pc = "commit" /\ meeting_form'[r].pc = "done"
           /\ meeting_form[r].meeting_id = g
           /\ meeting_form[r].form.status = meeting'[g].status]_vars

\* README: a registration is cancelled only while its meeting is OPEN.
CancelledOnlyWhileOpen ==
  [][\A m \in DOMAIN registration :
       m \notin DOMAIN registration' => meeting[registration[m]].status = "OPEN"]_vars

\* The transactions implement the roster: each commit is one Enter or Leave that
\* the rows allow at that moment, and every other step leaves the roster alone.
R == INSTANCE Roster WITH
       Members <- Members, Meetings <- Meetings,
       member <- member, meeting <- meeting,
       registration <- registration, registration_history <- registration_history
ImplementsRoster == R!Spec

\* Every request received is answered: no lock wait lasts forever, deadlocks included.
RequestsAnswered ==
  /\ \A r \in ApplyRequests : apply[r].pc # "idle" ~> apply[r].pc = "done"
  /\ \A r \in CancelRequests : cancel[r].pc # "idle" ~> cancel[r].pc = "done"
  /\ \A r \in MeetingRequests : meeting_form[r].pc # "idle" ~> meeting_form[r].pc = "done"
  /\ \A r \in MemberEdits : member_form[r].pc # "idle" ~> member_form[r].pc = "done"

\* IMPLEMENTATION_PLAN.md section 8: every path takes its locks in one order, so that
\* transactions never wait for each other in a circle.
NoDeadlock == \A S \in SUBSET {r \in Requests : BlockedBy(r) # None} : ~Deadlocked(S)
=============================================================================
