--------------------------- MODULE MCRegistration ---------------------------
(***************************************************************************)
(* Instances of RegistrationProperties for TLC.  Each .cfg chooses its     *)
(* requests, forms and initial tables among these.                         *)
(***************************************************************************)
EXTENDS RegistrationProperties, TLC

CONSTANTS ann, ben, cho, dan, eve,  \* members
          g1, g2,               \* meetings
          p1, p2                \* parts

Applicant(part) == [active |-> TRUE, apply_enabled |-> TRUE, host_enabled |-> FALSE,
                    part_id |-> part]
HostRow(part) == [active |-> TRUE, apply_enabled |-> FALSE, host_enabled |-> TRUE,
                  part_id |-> part]

Open(capacity) == [status |-> "OPEN", capacity |-> capacity]

\* ---- registrations only ----

\* Two parts of two applicants and one meeting with room for all: the part rule decides.
TwoPartsOneMeeting ==
  [member |-> ann :> Applicant(p1) @@ ben :> Applicant(p1)
                @@ cho :> Applicant(p2) @@ dan :> Applicant(p2) @@ eve :> HostRow(p2),
   meeting |-> g1 :> Open(4),
   meeting_host |-> g1 :> eve]

\* One seat in g1, two in g2 that ann and ben (one part, no more than the meetings)
\* cannot share; cho and dan are inactive and eve hosts both.
TwoMeetings ==
  [member |-> ann :> Applicant(p1) @@ ben :> Applicant(p1)
                @@ cho :> [Applicant(p2) EXCEPT !.active = FALSE]
                @@ dan :> [Applicant(p2) EXCEPT !.active = FALSE] @@ eve :> HostRow(p2),
   meeting |-> g1 :> Open(1) @@ g2 :> Open(2),
   meeting_host |-> g1 :> eve @@ g2 :> eve]

RegistrationTables == {TwoPartsOneMeeting, TwoMeetings}

RegistrationSymmetry ==
  Permutations(ApplyRequests) \cup Permutations({ann, ben}) \cup Permutations({cho, dan})

\* ---- registrations and edits ----

\* ann and ben apply for the one seat of g1, dan is its host.
OneSeat ==
  [member |-> ann :> Applicant(p1) @@ ben :> Applicant(p1) @@ dan :> HostRow(p1),
   meeting |-> g1 :> Open(1),
   meeting_host |-> g1 :> dan]

EditTables == {OneSeat}

EditMeetingForms == {[status |-> "OPEN", capacity |-> 2, host_id |-> dan],
                     [status |-> "CANCELLED", capacity |-> 1, host_id |-> dan]}

ClosingForms == {[status |-> "CLOSED", capacity |-> 1, host_id |-> dan]}

Inactive(row) == [row EXCEPT !.active = FALSE]
NotApplying(row) == [row EXCEPT !.apply_enabled = FALSE]

EditMemberForms == {Inactive(Applicant(p1)), NotApplying(Applicant(p1))}

EditSymmetry == Permutations(ApplyRequests) \cup Permutations({ann, ben})

\* A form that is refused, and one that a host may send as well.
HostMeetingForms == EditMeetingForms \cup {[status |-> "OPEN", capacity |-> 0, host_id |-> dan]}

\* eve, who is not there yet, in another part.
NewMemberForms == {HostRow(p2)}

\* ---- every kind of request, every one answered ----

\* dan hosts g1; ben may apply until an edit makes him a host, or the other way round.
AnswerTables ==
  {[member |-> ben :> row @@ dan :> HostRow(p1),
    meeting |-> g1 :> Open(1),
    meeting_host |-> g1 :> dan] : row \in {Applicant(p1), HostRow(p1)}}

\* Meetings that ben is to host.
AnswerMeetingForms == {[status |-> "CLOSED", capacity |-> 2, host_id |-> ben]}

\* ben turns host or applicant, or is deactivated.
AnswerMemberForms == {HostRow(p1), Applicant(p1), Inactive(Applicant(p1))}

\* ---- a circle of lock waits ----

\* ben has neither role yet.
DeadlockTables ==
  {[t EXCEPT !.member[ben] = NotApplying(Applicant(p1))] : t \in AnswerTables}

DeadlockMeetingForms == {[status |-> "OPEN", capacity |-> 2, host_id |-> ben]}

DeadlockMemberForms == {Applicant(p1), HostRow(p1)}
=============================================================================
