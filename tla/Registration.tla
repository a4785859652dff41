---------------------------- MODULE Registration ----------------------------
(***************************************************************************)
(* The registration transactions of app/services/registration_service.py:  *)
(* apply_to_meeting and cancel_registration, statement by statement, over  *)
(* the tables of app/models/core.py and PostgreSQL's row locks at READ     *)
(* COMMITTED.  Administration adds the console's edits of the same tables  *)
(* and the next-state relation of the whole.                               *)
(*                                                                         *)
(* One action is one SQL statement whose result can still change before    *)
(* the next one.  A lock acquisition is merged with the reads it protects, *)
(* and an insert becomes visible when its transaction commits.             *)
(***************************************************************************)
EXTENDS Tables

CONSTANTS
  ApplyRequests,   \* POST /meetings/{id}/apply, each answered once
  CancelRequests,  \* POST /registrations/cancel
  OtherRequests,   \* requests of other modules that take row locks
  None             \* no owner of a lock, no member, no meeting

Requests == ApplyRequests \cup CancelRequests \cup OtherRequests

HistoryRow == [action : {"APPLY", "CANCEL"}, meeting_id : Meetings]

ASSUME RequestsAssumption ==
  /\ ApplyRequests \cap CancelRequests = {}
  /\ ApplyRequests \cap OtherRequests = {}
  /\ CancelRequests \cap OtherRequests = {}
  /\ None \notin Requests

VARIABLES
  registration_history, \* table registration_history, per member, oldest first
  member_lock,          \* owner of SELECT ... FOR UPDATE on a member row
  meeting_lock,         \* owner of the row lock on a meeting row
  apply,                \* apply requests: locals of apply_to_meeting
  cancel                \* cancel requests: locals of cancel_registration

registrations == <<registration, registration_history>>
locks == <<member_lock, meeting_lock>>

-----------------------------------------------------------------------------
\* Mutant: the member row is read without FOR UPDATE.
ReadMemberRow(m, r) == UNCHANGED member_lock

\* SELECT ... FOR UPDATE on a member row; the caller waits until nobody has locked it.
LockMemberRow(m, r) == member_lock' = [member_lock EXCEPT ![m] = r]

\* Mutant: the meeting row is read without FOR UPDATE.
ReadMeetingRow(g, r) == UNCHANGED meeting_lock

\* SELECT ... FOR UPDATE on a meeting row.
LockMeetingRow(g, r) ==
  meeting_lock[g] = None /\ meeting_lock' = [meeting_lock EXCEPT ![g] = r]

\* Mutant: the history row is not part of the transaction.
SkipHistory(m, action, g) == UNCHANGED registration_history

\* The history row inserted with the change it describes.
RecordHistory(m, action, g) ==
  registration_history' = [registration_history EXCEPT
    ![m] = Append(@, [action |-> action, meeting_id |-> g])]

\* Mutant: the lock on the meeting row survives the transaction.
ReleaseMemberLock(r) ==
  /\ member_lock' = [m \in Members |-> IF member_lock[m] = r THEN None ELSE member_lock[m]]
  /\ UNCHANGED meeting_lock

\* Mutant: the lock on the member row survives.
ReleaseMeetingLock(r) ==
  /\ meeting_lock' = [g \in Meetings |-> IF meeting_lock[g] = r THEN None ELSE meeting_lock[g]]
  /\ UNCHANGED member_lock

\* COMMIT and ROLLBACK release every row lock of the transaction.
ReleaseLocks(r) ==
  /\ member_lock' = [m \in Members |-> IF member_lock[m] = r THEN None ELSE member_lock[m]]
  /\ meeting_lock' = [g \in Meetings |-> IF meeting_lock[g] = r THEN None ELSE meeting_lock[g]]

-----------------------------------------------------------------------------
ApplySteps == {"lock_member", "lock_meeting", "count_distribution", "decide", "commit", "answer"}

ApplyAnswers == {"APPLIED", "REGISTRATION_NOT_STARTED", "NOT_ELIGIBLE", "HOST_NOT_ALLOWED",
                 "ALREADY_REGISTERED", "MEETING_NOT_OPEN", "MEETING_FULL",
                 "PART_LIMIT_REACHED", "ERROR"}

ApplyRecord ==
  [pc : {"idle", "done"} \cup ApplySteps,
   member_id : Members \cup {None}, meeting_id : Meetings \cup {None},
   active_part_member_count : Nat, distribution_meeting_count : Nat,
   answer : ApplyAnswers \cup {"NONE"}]

IdleApply == [pc |-> "idle", member_id |-> None, meeting_id |-> None,
              active_part_member_count |-> 0, distribution_meeting_count |-> 0,
              answer |-> "NONE"]

\* The transaction is over; its counts are no longer read.
EndApply(r, pc, answer) ==
  apply' = [apply EXCEPT ![r] = [@ EXCEPT !.pc = pc, !.answer = answer,
                                          !.active_part_member_count = 0,
                                          !.distribution_meeting_count = 0]]

AnswerApply(r, answer) == EndApply(r, "done", answer)

\* Line 66: the window is looked at before the transaction begins.
ReceiveApply(r, m, g) ==
  /\ apply[r].pc = "idle"
  /\ apply' = [apply EXCEPT ![r] =
                 [@ EXCEPT !.member_id = m, !.meeting_id = g,
                           !.pc = IF registration_open THEN "lock_member" ELSE "done",
                           !.answer = IF registration_open
                                      THEN "NONE" ELSE "REGISTRATION_NOT_STARTED"]]
  /\ UNCHANGED <<tables, registrations, registration_open, locks, cancel>>

\* Line 71: FOR UPDATE on the member row, then the applicant-level checks.
LockMember(r) ==
  LET m == apply[r].member_id IN
  /\ apply[r].pc = "lock_member"
  /\ member_lock[m] = None
  /\ \/ /\ ApplicantDenial(m) # Permitted
        /\ AnswerApply(r, ApplicantDenial(m))
        /\ UNCHANGED locks
     \/ /\ ApplicantDenial(m) = Permitted
        /\ apply' = [apply EXCEPT ![r].pc = "lock_meeting"]
        /\ LockMemberRow(m, r)
        /\ UNCHANGED meeting_lock
  /\ UNCHANGED <<tables, registrations, registration_open, cancel>>

\* Line 104: FOR UPDATE on the meeting row, then the count of the candidate's part.
LockMeeting(r) ==
  LET g == apply[r].meeting_id
      p == member[apply[r].member_id].part_id
  IN
  /\ apply[r].pc = "lock_meeting"
  /\ \/ /\ g \notin DOMAIN meeting
        /\ AnswerApply(r, "MEETING_NOT_OPEN")
        /\ ReleaseLocks(r)
     \/ /\ g \in DOMAIN meeting
        /\ LockMeetingRow(g, r)
        /\ apply' = [apply EXCEPT ![r] =
                       [@ EXCEPT !.pc = "count_distribution",
                                 !.active_part_member_count = Cardinality(ActivePartMembers(p))]]
        /\ UNCHANGED member_lock
  /\ UNCHANGED <<tables, registrations, registration_open, cancel>>

\* Line 41: another statement, which sees what was committed meanwhile.
CountDistribution(r) ==
  /\ apply[r].pc = "count_distribution"
  /\ apply' = [apply EXCEPT ![r] =
                 [@ EXCEPT !.pc = "decide",
                           !.distribution_meeting_count = Cardinality(DistributionMeetings)]]
  /\ UNCHANGED <<tables, registrations, registration_open, locks, cancel>>

\* Lines 112 to 127, with the counts taken before.
Decide(r) ==
  LET denial == MeetingDenial(apply[r].member_id, apply[r].meeting_id,
                              apply[r].active_part_member_count,
                              apply[r].distribution_meeting_count)
  IN
  /\ apply[r].pc = "decide"
  /\ \/ /\ denial # Permitted
        /\ AnswerApply(r, denial)
        /\ ReleaseLocks(r)
     \/ /\ denial = Permitted
        /\ apply' = [apply EXCEPT ![r].pc = "commit"]
        /\ UNCHANGED locks
  /\ UNCHANGED <<tables, registrations, registration_open, cancel>>

\* Lines 130 to 141: the two inserts at COMMIT, the exit of db.begin(); the answer is
\* still to be formed.  A second row of the member breaks the unique constraint and
\* the transaction is rolled back.
CommitApply(r) ==
  LET m == apply[r].member_id
      g == apply[r].meeting_id
  IN
  /\ apply[r].pc = "commit"
  /\ IF m \in DOMAIN registration
     THEN AnswerApply(r, "ALREADY_REGISTERED") /\ UNCHANGED registrations
     ELSE /\ registration' = Upsert(registration, m, g)
          /\ RecordHistory(m, "APPLY", g)
          /\ EndApply(r, "answer", "NONE")
  /\ ReleaseLocks(r)
  /\ UNCHANGED <<tables, registration_open, cancel>>

\* pages.py, lines 333 to 349: the success reaches the member.
TellApplied(r) ==
  /\ apply[r].pc = "answer"
  /\ AnswerApply(r, "APPLIED")
  /\ UNCHANGED <<tables, registrations, registration_open, locks, cancel>>

\* The request fails: the connection is lost, the process stops, or PostgreSQL chooses
\* it to break a deadlock.  Up to "commit" the transaction is rolled back; at "answer"
\* COMMIT took effect, whether or not it was confirmed, and only the success is lost.
AbortApply(r) ==
  /\ apply[r].pc \in ApplySteps
  /\ AnswerApply(r, "ERROR")
  /\ ReleaseLocks(r)
  /\ UNCHANGED <<tables, registrations, registration_open, cancel>>

-----------------------------------------------------------------------------
CancelSteps == {"lock_member", "commit", "answer"}

CancelAnswers == {"CANCELLED", "REGISTRATION_NOT_STARTED", "NOT_ELIGIBLE",
                  "NOT_REGISTERED", "MEETING_NOT_OPEN", "ERROR"}

CancelRecord ==
  [pc : {"idle", "done"} \cup CancelSteps,
   member_id : Members \cup {None}, meeting_id : Meetings \cup {None},
   answer : CancelAnswers \cup {"NONE"}]

IdleCancel == [pc |-> "idle", member_id |-> None, meeting_id |-> None, answer |-> "NONE"]

AnswerCancel(r, answer) ==
  cancel' = [cancel EXCEPT ![r] = [@ EXCEPT !.pc = "done", !.answer = answer]]

\* Line 145: the window check, before the transaction.
ReceiveCancel(r, m) ==
  /\ cancel[r].pc = "idle"
  /\ cancel' = [cancel EXCEPT ![r] =
                  [@ EXCEPT !.member_id = m,
                            !.pc = IF registration_open THEN "lock_member" ELSE "done",
                            !.answer = IF registration_open
                                       THEN "NONE" ELSE "REGISTRATION_NOT_STARTED"]]
  /\ UNCHANGED <<tables, registrations, registration_open, locks, apply>>

\* Lines 148 to 162: both FOR UPDATE locks (the registration row is only ever
\* locked under its member's lock) and the plain read of the meeting.
CheckCancel(r) ==
  LET m == cancel[r].member_id IN
  /\ cancel[r].pc = "lock_member"
  /\ member_lock[m] = None
  /\ \/ /\ CancelDenial(m) # Permitted
        /\ AnswerCancel(r, CancelDenial(m))
        /\ UNCHANGED locks
     \/ /\ CancelDenial(m) = Permitted
        /\ cancel' = [cancel EXCEPT ![r] =
                        [@ EXCEPT !.pc = "commit", !.meeting_id = registration[m]]]
        /\ LockMemberRow(m, r)
        /\ UNCHANGED meeting_lock
  /\ UNCHANGED <<tables, registrations, registration_open, apply>>

\* The history row's foreign key takes KEY SHARE on the meeting, which waits
\* for a FOR UPDATE but not for the lock of an UPDATE.
LockedForUpdate(g) == meeting_lock[g] \in ApplyRequests

\* Lines 163 to 172: the delete and the history row at COMMIT.
CommitCancel(r) ==
  LET m == cancel[r].member_id
      g == cancel[r].meeting_id
  IN
  /\ cancel[r].pc = "commit"
  /\ ~LockedForUpdate(g)
  /\ registration' = Delete(registration, m)
  /\ RecordHistory(m, "CANCEL", g)
  /\ cancel' = [cancel EXCEPT ![r].pc = "answer"]
  /\ ReleaseLocks(r)
  /\ UNCHANGED <<tables, registration_open, apply>>

\* pages.py, lines 363 to 372.
TellCancelled(r) ==
  /\ cancel[r].pc = "answer"
  /\ AnswerCancel(r, "CANCELLED")
  /\ UNCHANGED <<tables, registrations, registration_open, locks, apply>>

\* As AbortApply: rolled back, or committed and not told.
AbortCancel(r) ==
  /\ cancel[r].pc \in CancelSteps
  /\ AnswerCancel(r, "ERROR")
  /\ ReleaseLocks(r)
  /\ UNCHANGED <<tables, registrations, registration_open, apply>>

-----------------------------------------------------------------------------
\* opens_at arrives, or an admin moves it: registration_is_open() changes.
ChangeRegistrationWindow ==
  /\ registration_open' = ~registration_open
  /\ UNCHANGED <<tables, registrations, locks, apply, cancel>>

RegistrationInit ==
  /\ TablesInit
  /\ registration_history = [m \in Members |-> <<>>]
  /\ member_lock = [m \in Members |-> None]
  /\ meeting_lock = [g \in Meetings |-> None]
  /\ apply = [r \in ApplyRequests |-> IdleApply]
  /\ cancel = [r \in CancelRequests |-> IdleCancel]

RegistrationStep ==
  \/ \E r \in ApplyRequests, m \in Members, g \in Meetings : ReceiveApply(r, m, g)
  \/ \E r \in ApplyRequests : LockMember(r) \/ LockMeeting(r) \/ CountDistribution(r)
                                \/ Decide(r) \/ CommitApply(r) \/ TellApplied(r)
                                \/ AbortApply(r)
  \/ \E r \in CancelRequests, m \in Members : ReceiveCancel(r, m)
  \/ \E r \in CancelRequests : CheckCancel(r) \/ CommitCancel(r) \/ TellCancelled(r)
                                 \/ AbortCancel(r)
  \/ ChangeRegistrationWindow
=============================================================================
