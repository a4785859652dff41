---------------------------- MODULE MCSequential ----------------------------
(***************************************************************************)
(* Instances of MeetingView for TLC.  Requests are not counted: the state  *)
(* space holds every sequence of calls, however long.                      *)
(***************************************************************************)
EXTENDS MeetingView, TLC

CONSTANTS ann, ben, cho,   \* members
          g1, g2,          \* meetings
          p1, p2           \* parts

Applicant(part) == [active |-> TRUE, apply_enabled |-> TRUE, host_enabled |-> FALSE,
                    part_id |-> part]
HostRow(part) == [active |-> TRUE, apply_enabled |-> FALSE, host_enabled |-> TRUE,
                  part_id |-> part]

Tables1 == {[member |-> ann :> Applicant(p1) @@ ben :> HostRow(p1),
             meeting |-> g1 :> [status |-> "OPEN", capacity |-> 1],
             meeting_host |-> g1 :> ben]}

\* Every kind of member: with and without each permission, active or not.
AllMemberForms == [active : BOOLEAN, apply_enabled : BOOLEAN, host_enabled : BOOLEAN,
                   part_id : {p1}]

\* One of two members is the host.
AllMeetingForms == [status : Statuses, capacity : 0 .. 2, host_id : {ann, ben}]
=============================================================================
