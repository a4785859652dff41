------------------------------- MODULE Roster -------------------------------
(***************************************************************************)
(* What registration promises, without transactions, locks or requests: a  *)
(* member enters or leaves a meeting in one step, on what the tables hold  *)
(* at that moment, while the console edits members and meetings freely.    *)
(* Administration implements this (see RegistrationProperties).            *)
(***************************************************************************)
EXTENDS Integers, FiniteSets, Sequences, Functions

CONSTANTS Members, Meetings

VARIABLES member, meeting, registration, registration_history

roster == <<registration, registration_history>>

Applicants(g) == {m \in DOMAIN registration : registration[m] = g}

Record(m, action, g) ==
  registration_history' = [registration_history EXCEPT
    ![m] = Append(@, [action |-> action, meeting_id |-> g])]

\* The rules of README.md, judged by the rows as they are, not as they were read.
Enter(m, g) ==
  /\ m \in DOMAIN member /\ member[m].active /\ member[m].apply_enabled
  /\ m \notin DOMAIN registration
  /\ g \in DOMAIN meeting /\ meeting[g].status = "OPEN"
  /\ Cardinality(Applicants(g)) < meeting[g].capacity
  /\ registration' = [x \in DOMAIN registration \cup {m} |->
                        IF x = m THEN g ELSE registration[x]]
  /\ Record(m, "APPLY", g)
  /\ UNCHANGED <<member, meeting>>

Leave(m) ==
  /\ m \in DOMAIN member /\ member[m].active
  /\ m \in DOMAIN registration
  /\ registration' = Restrict(registration, DOMAIN registration \ {m})
  /\ Record(m, "CANCEL", registration[m])
  /\ UNCHANGED <<member, meeting>>

\* The console never deletes a row, and never touches the roster.
Administer ==
  /\ DOMAIN member \subseteq DOMAIN member'
  /\ DOMAIN meeting \subseteq DOMAIN meeting'
  /\ UNCHANGED roster

Init ==
  /\ registration = [m \in {} |-> m]
  /\ registration_history = [m \in Members |-> <<>>]

Next ==
  \/ \E m \in Members, g \in Meetings : Enter(m, g)
  \/ \E m \in Members : Leave(m)
  \/ Administer

Spec == Init /\ [][Next]_<<member, meeting, roster>>
=============================================================================
