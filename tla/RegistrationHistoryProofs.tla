---------------------- MODULE RegistrationHistoryProofs ----------------------
(***************************************************************************)
(* What the registrations leave behind, for every set of members, meetings *)
(* and requests: the history explains the registrations, the answers given *)
(* match the history, and only an admin's form changes a status.           *)
(*                                                                         *)
(* The first follows from the refinement alone: only Enter and Leave of    *)
(* Roster write the history, each with the registration it describes.      *)
(***************************************************************************)
EXTENDS RegistrationProofs

LEMMA Appended ==
  ASSUME NEW S, NEW h \in Seq(S), NEW e \in S
  PROVE  /\ Append(h, e) \in Seq(S) /\ Append(h, e) # <<>>
         /\ Len(h) \in Nat /\ Len(Append(h, e)) = Len(h) + 1
         /\ Append(h, e)[Len(h) + 1] = e
         /\ \A i \in 1 .. Len(h) : Append(h, e)[i] = h[i]
  OBVIOUS

\* A member's history h tells that the member is registered for g, or for no meeting.
Alternates(h) ==
  /\ h # <<>> => h[1].action = "APPLY"
  /\ \A i \in 1 .. Len(h) - 1 :
       IF h[i].action = "APPLY"
       THEN h[i + 1] = [action |-> "CANCEL", meeting_id |-> h[i].meeting_id]
       ELSE h[i + 1].action = "APPLY"

EndsWithApply(h, g) == h # <<>> /\ h[Len(h)] = [action |-> "APPLY", meeting_id |-> g]
EndsWithCancel(h) == h # <<>> => h[Len(h)].action = "CANCEL"

LEMMA HistoryParts ==
  HistoryExplainsRegistrations <=>
    \A m \in Members :
      /\ Alternates(registration_history[m])
      /\ m \in DOMAIN registration => EndsWithApply(registration_history[m], registration[m])
      /\ m \notin DOMAIN registration => EndsWithCancel(registration_history[m])
  BY DEF HistoryExplainsRegistrations, LastEntry, Alternates, EndsWithApply, EndsWithCancel

LEMMA EnteredHistory ==
  ASSUME NEW h \in Seq(HistoryRow), NEW g \in Meetings, Alternates(h), EndsWithCancel(h)
  PROVE  LET k == Append(h, [action |-> "APPLY", meeting_id |-> g]) IN
         Alternates(k) /\ EndsWithApply(k, g)
<1> DEFINE e == [action |-> "APPLY", meeting_id |-> g]
           k == Append(h, e)
<1>1. e \in HistoryRow /\ e.action = "APPLY"
  BY DEF HistoryRow
<1> HIDE DEF e
<1>2. /\ k \in Seq(HistoryRow) /\ k # <<>> /\ Len(h) \in Nat /\ Len(k) = Len(h) + 1
      /\ k[Len(h) + 1] = e /\ \A i \in 1 .. Len(h) : k[i] = h[i]
  BY <1>1, Appended
<1> HIDE DEF k
<1>3. k[1].action = "APPLY"
  BY <1>1, <1>2 DEF Alternates
<1>4. ASSUME NEW i \in 1 .. Len(k) - 1
      PROVE  IF k[i].action = "APPLY"
             THEN k[i + 1] = [action |-> "CANCEL", meeting_id |-> k[i].meeting_id]
             ELSE k[i + 1].action = "APPLY"
  <2>1. CASE i = Len(h)
    <3>1. h # <<>> /\ k[i] = h[Len(h)] /\ k[i + 1] = e
      BY <1>2, <2>1
    <3>2. k[i].action = "CANCEL"
      BY <3>1 DEF EndsWithCancel
    <3> QED
      BY <1>1, <3>1, <3>2
  <2>2. CASE i # Len(h)
    <3>1. i \in 1 .. Len(h) - 1 /\ k[i] = h[i] /\ k[i + 1] = h[i + 1]
      BY <1>2, <2>2
    <3> QED
      BY <3>1 DEF Alternates
  <2> QED
    BY <2>1, <2>2
<1>5. Alternates(k)
  BY <1>3, <1>4 DEF Alternates
<1>6. EndsWithApply(k, g)
  BY <1>2 DEF EndsWithApply, e
<1> QED
  BY <1>5, <1>6 DEF k, e

LEMMA LeftHistory ==
  ASSUME NEW h \in Seq(HistoryRow), NEW g \in Meetings, Alternates(h), EndsWithApply(h, g)
  PROVE  LET k == Append(h, [action |-> "CANCEL", meeting_id |-> g]) IN
         Alternates(k) /\ EndsWithCancel(k)
<1> DEFINE e == [action |-> "CANCEL", meeting_id |-> g]
           k == Append(h, e)
<1>1. e \in HistoryRow /\ e.action = "CANCEL"
  BY DEF HistoryRow
<1>a. h[Len(h)].action = "APPLY" /\ h[Len(h)].meeting_id = g
  BY DEF EndsWithApply
<1> HIDE DEF e
<1>2. /\ k \in Seq(HistoryRow) /\ k # <<>> /\ Len(h) \in Nat /\ Len(k) = Len(h) + 1
      /\ k[Len(h) + 1] = e /\ \A i \in 1 .. Len(h) : k[i] = h[i]
  BY <1>1, Appended
<1> HIDE DEF k
<1>3. k[1].action = "APPLY"
  BY <1>2 DEF Alternates, EndsWithApply
<1>4. ASSUME NEW i \in 1 .. Len(k) - 1
      PROVE  IF k[i].action = "APPLY"
             THEN k[i + 1] = [action |-> "CANCEL", meeting_id |-> k[i].meeting_id]
             ELSE k[i + 1].action = "APPLY"
  <2>1. CASE i = Len(h)
    BY <1>a, <1>2, <2>1 DEF e
  <2>2. CASE i # Len(h)
    <3>1. i \in 1 .. Len(h) - 1 /\ k[i] = h[i] /\ k[i + 1] = h[i + 1]
      BY <1>2, <2>2
    <3> QED
      BY <3>1 DEF Alternates
  <2> QED
    BY <2>1, <2>2
<1>5. Alternates(k)
  BY <1>3, <1>4 DEF Alternates
<1>6. EndsWithCancel(k)
  BY <1>1, <1>2 DEF EndsWithCancel
<1> QED
  BY <1>5, <1>6 DEF k, e

LEMMA EnterExplained ==
  ASSUME RowsOK, HistoryExplainsRegistrations,
         NEW m \in Members, NEW g \in Meetings, R!Enter(m, g)
  PROVE  HistoryExplainsRegistrations'
<1> DEFINE h == registration_history[m]
           k == Append(h, [action |-> "APPLY", meeting_id |-> g])
<1>1. /\ m \notin DOMAIN registration
      /\ registration' = [x \in DOMAIN registration \cup {m} |-> IF x = m THEN g ELSE registration[x]]
      /\ registration_history' = [registration_history EXCEPT ![m] = k]
  BY DEF R!Enter, R!Record
<1>2. h \in Seq(HistoryRow) /\ Alternates(h) /\ EndsWithCancel(h)
  BY <1>1, HistoryParts DEF RowsOK
<1>3. Alternates(k) /\ EndsWithApply(k, g)
  BY <1>2, EnteredHistory
<1>4. registration_history'[m] = k /\ \A x \in Members \ {m} :
        registration_history'[x] = registration_history[x]
  BY <1>1 DEF RowsOK
<1> HIDE DEF h, k
<1>5. ASSUME NEW x \in Members
      PROVE  /\ Alternates(registration_history'[x])
             /\ x \in DOMAIN registration' =>
                  EndsWithApply(registration_history'[x], registration'[x])
             /\ x \notin DOMAIN registration' => EndsWithCancel(registration_history'[x])
  <2>1. CASE x = m
    BY <1>1, <1>3, <1>4, <2>1
  <2>2. CASE x # m
    BY <1>1, <1>4, <2>2, HistoryParts
  <2> QED
    BY <2>1, <2>2
<1> QED
  BY <1>5 DEF HistoryExplainsRegistrations, LastEntry, Alternates, EndsWithApply, EndsWithCancel

LEMMA LeaveExplained ==
  ASSUME RowsOK, HistoryExplainsRegistrations, NEW m \in Members, R!Leave(m)
  PROVE  HistoryExplainsRegistrations'
<1> DEFINE h == registration_history[m]
           g == registration[m]
           k == Append(h, [action |-> "CANCEL", meeting_id |-> g])
<1>1. /\ m \in DOMAIN registration
      /\ registration' = [x \in DOMAIN registration \ {m} |-> registration[x]]
      /\ registration_history' = [registration_history EXCEPT ![m] = k]
  BY DEF R!Leave, R!Record, R!Restrict
<1>2. h \in Seq(HistoryRow) /\ Alternates(h) /\ EndsWithApply(h, g)
  BY <1>1, HistoryParts DEF RowsOK
<1>a. g \in Meetings
  BY <1>1 DEF RowsOK, TablesOK
<1>3. Alternates(k) /\ EndsWithCancel(k)
  BY <1>2, <1>a, LeftHistory
<1>4. registration_history'[m] = k /\ \A x \in Members \ {m} :
        registration_history'[x] = registration_history[x]
  BY <1>1 DEF RowsOK
<1> HIDE DEF h, k
<1>5. ASSUME NEW x \in Members
      PROVE  /\ Alternates(registration_history'[x])
             /\ x \in DOMAIN registration' =>
                  EndsWithApply(registration_history'[x], registration'[x])
             /\ x \notin DOMAIN registration' => EndsWithCancel(registration_history'[x])
  <2>1. CASE x = m
    BY <1>1, <1>3, <1>4, <2>1
  <2>2. CASE x # m
    BY <1>1, <1>4, <2>2, HistoryParts
  <2> QED
    BY <2>1, <2>2
<1> QED
  BY <1>5 DEF HistoryExplainsRegistrations, LastEntry, Alternates, EndsWithApply, EndsWithCancel

\* A member's history alternates, and ends with the registration the member has or with
\* a cancellation (registration_service.py: the two inserts of each transaction).
THEOREM RegistrationHistoryExplains == Spec => []HistoryExplainsRegistrations
<1>1. Init => HistoryExplainsRegistrations
  BY DEF Init, RegistrationInit, TablesInit, HistoryExplainsRegistrations
<1>2. /\ Inv /\ HistoryExplainsRegistrations
      /\ [R!Next]_<<member, meeting, R!roster>>
      => HistoryExplainsRegistrations'
  <2> SUFFICES ASSUME RowsOK, HistoryExplainsRegistrations,
                      [R!Next]_<<member, meeting, R!roster>>
               PROVE  HistoryExplainsRegistrations'
    BY DEF Inv, TypeOK
  <2>1. CASE R!Administer \/ UNCHANGED <<member, meeting, R!roster>>
    BY <2>1 DEF R!Administer, R!roster, HistoryExplainsRegistrations, LastEntry
  <2>2. CASE R!Next
    BY <2>1, <2>2, EnterExplained, LeaveExplained DEF R!Next
  <2> QED
    BY <2>1, <2>2
<1> QED
  BY <1>1, <1>2, RegistrationInvariant, RosterStep, PTL DEF Spec

-----------------------------------------------------------------------------
\* The answers.  E holds the rows, S the requests that succeeded, T those and the failed.
Balanced(E, S, T) ==
  /\ IsFiniteSet(E) /\ IsFiniteSet(T) /\ S \subseteq T
  /\ Cardinality(S) <= Cardinality(E) /\ Cardinality(E) <= Cardinality(T)

LEMMA BalanceKept ==
  ASSUME NEW E, NEW S, NEW T, NEW U, NEW V, NEW r, Balanced(E, S, T),
         U \subseteq S, U \subseteq V, T \subseteq V, V \subseteq T \cup {r}
  PROVE  Balanced(E, U, V)
<1>1. IsFiniteSet(S) /\ IsFiniteSet(T \cup {r})
  BY FS_Subset, FS_AddElement DEF Balanced
<1>2. IsFiniteSet(V)
  BY <1>1, FS_Subset
<1>3. IsFiniteSet(U) /\ Cardinality(U) <= Cardinality(S) /\ Cardinality(T) <= Cardinality(V)
  BY <1>1, <1>2, FS_Subset
<1>4. /\ Cardinality(U) \in Nat /\ Cardinality(S) \in Nat /\ Cardinality(T) \in Nat
      /\ Cardinality(V) \in Nat /\ Cardinality(E) \in Nat
  BY <1>1, <1>2, <1>3, FS_CardinalityType DEF Balanced
<1>5. Cardinality(U) <= Cardinality(E) /\ Cardinality(E) <= Cardinality(V)
  BY <1>3, <1>4 DEF Balanced
<1> QED
  BY <1>2, <1>5 DEF Balanced

LEMMA BalanceGrows ==
  ASSUME NEW E, NEW S, NEW T, NEW i, NEW r, Balanced(E, S, T), i \notin E, r \notin T
  PROVE  Balanced(E \cup {i}, S \cup {r}, T \cup {r})
<1>1. IsFiniteSet(S) /\ r \notin S
  BY FS_Subset DEF Balanced
<1>2. /\ IsFiniteSet(E \cup {i}) /\ Cardinality(E \cup {i}) = Cardinality(E) + 1
      /\ IsFiniteSet(T \cup {r}) /\ Cardinality(T \cup {r}) = Cardinality(T) + 1
      /\ Cardinality(S \cup {r}) = Cardinality(S) + 1
  BY <1>1, FS_AddElement DEF Balanced
<1>3. Cardinality(S) \in Nat /\ Cardinality(T) \in Nat /\ Cardinality(E) \in Nat
  BY <1>1, FS_CardinalityType DEF Balanced
<1>4. /\ Cardinality(S \cup {r}) <= Cardinality(E \cup {i})
      /\ Cardinality(E \cup {i}) <= Cardinality(T \cup {r})
  BY <1>2, <1>3 DEF Balanced
<1> QED
  BY <1>2, <1>4 DEF Balanced

\* Appending an entry adds one place to its own kind of entries, and to no other.
Places(h, e) == {i \in DOMAIN h : h[i] = e}

LEMMA PlacesGrow ==
  ASSUME NEW h \in Seq(HistoryRow), NEW e \in HistoryRow, NEW f
  PROVE  /\ Len(h) + 1 \notin Places(h, f)
         /\ f = e => Places(Append(h, e), f) = Places(h, f) \cup {Len(h) + 1}
         /\ f # e => Places(Append(h, e), f) = Places(h, f)
<1> DEFINE k == Append(h, e)
<1>1. /\ k \in Seq(HistoryRow) /\ Len(h) \in Nat /\ Len(k) = Len(h) + 1
      /\ k[Len(h) + 1] = e /\ \A i \in 1 .. Len(h) : k[i] = h[i]
  BY Appended
<1>2. DOMAIN h = 1 .. Len(h) /\ DOMAIN k = 1 .. Len(k)
  BY <1>1
<1> HIDE DEF k
<1>3. DOMAIN k = DOMAIN h \cup {Len(h) + 1} /\ Len(h) + 1 \notin DOMAIN h
  BY <1>1, <1>2
<1>4. \A i \in DOMAIN h : k[i] = h[i]
  BY <1>1, <1>2
<1>5. \A i \in DOMAIN k : k[i] = f <=> (i \in DOMAIN h /\ h[i] = f) \/ (i = Len(h) + 1 /\ e = f)
  BY <1>1, <1>3, <1>4
<1> QED
  BY <1>3, <1>5 DEF Places, k

AnswersCounted ==
  \A m \in Members, g \in Meetings :
    /\ Balanced(Entries("APPLY", m, g), Applied(m, g), Applied(m, g) \cup FailedToApply(m, g))
    /\ Balanced(Entries("CANCEL", m, g), Cancelled(m, g), Cancelled(m, g) \cup FailedToCancel(m, g))

\* An answer is the last thing a request gets.
AnswerIsFinal ==
  /\ \A r \in ApplyRequests : apply[r].pc # "done" => apply[r].answer = "NONE"
  /\ \A r \in CancelRequests : cancel[r].pc # "done" => cancel[r].answer = "NONE"

AnswersInv == AnswersCounted /\ AnswerIsFinal

\* A step of a request r that writes no history: before its COMMIT r has not succeeded
\* after it either, and after its COMMIT r is told so or fails.
QuietStep(before, after) ==
  /\ before.pc # "done"
  /\ after.pc # "done" => after.answer = "NONE"
  /\ \/ before.pc # "answer" /\ after.pc # "answer"
        /\ after.answer \notin {"APPLIED", "CANCELLED"}
     \/ /\ before.pc = "answer" /\ after.pc = "done"
        /\ after.answer \in {"APPLIED", "CANCELLED", "ERROR"}
        /\ after.member_id = before.member_id /\ after.meeting_id = before.meeting_id

LEMMA QuietApply ==
  ASSUME Inv, AnswersInv, NEW r \in ApplyRequests, NEW locals,
         apply' = [apply EXCEPT ![r] = locals], UNCHANGED <<cancel, registration_history>>,
         QuietStep(apply[r], locals), locals.answer # "CANCELLED"
  PROVE  AnswersInv'
<1>1. apply'[r] = locals /\ \A q \in ApplyRequests \ {r} : apply'[q] = apply[q]
  BY DEF Inv, TypeOK, RegistrationRequestsOK
<1>2. AnswerIsFinal'
  BY <1>1 DEF AnswersInv, AnswerIsFinal, QuietStep
<1>3. ASSUME NEW m \in Members, NEW g \in Meetings
      PROVE  Balanced(Entries("APPLY", m, g)', Applied(m, g)',
                      Applied(m, g)' \cup FailedToApply(m, g)')
  <2> DEFINE T == Applied(m, g) \cup FailedToApply(m, g)
             V == Applied(m, g)' \cup FailedToApply(m, g)'
  <2>1. Balanced(Entries("APPLY", m, g), Applied(m, g), T)
    BY DEF AnswersInv, AnswersCounted
  <2>2. apply[r].answer = "NONE"
    BY DEF AnswersInv, AnswerIsFinal, QuietStep
  <2>3. Applied(m, g)' \subseteq Applied(m, g)
    BY <1>1, <2>2 DEF QuietStep, Applied
  <2>4. T \subseteq V
    BY <1>1, <2>2 DEF QuietStep, Applied, FailedToApply
  <2>5. V \subseteq T \cup {r}
    BY <1>1 DEF Applied, FailedToApply
  <2>6. Entries("APPLY", m, g)' = Entries("APPLY", m, g)
    BY DEF Entries
  <2>7. Applied(m, g)' \subseteq V
    OBVIOUS
  <2> HIDE DEF T, V
  <2>8. Balanced(Entries("APPLY", m, g), Applied(m, g)', V)
    BY <2>1, <2>3, <2>4, <2>5, <2>7, BalanceKept
  <2> QED
    BY <2>6, <2>8 DEF V
<1>4. ASSUME NEW m \in Members, NEW g \in Meetings
      PROVE  /\ Entries("CANCEL", m, g)' = Entries("CANCEL", m, g)
             /\ Cancelled(m, g)' = Cancelled(m, g)
             /\ FailedToCancel(m, g)' = FailedToCancel(m, g)
  BY DEF Entries, Cancelled, FailedToCancel
<1>5. AnswersCounted'
  BY <1>3, <1>4 DEF AnswersInv, AnswersCounted, Balanced
<1> QED
  BY <1>2, <1>5 DEF AnswersInv

LEMMA QuietCancel ==
  ASSUME Inv, AnswersInv, NEW r \in CancelRequests, NEW locals,
         cancel' = [cancel EXCEPT ![r] = locals], UNCHANGED <<apply, registration_history>>,
         QuietStep(cancel[r], locals), locals.answer # "APPLIED"
  PROVE  AnswersInv'
<1>1. cancel'[r] = locals /\ \A q \in CancelRequests \ {r} : cancel'[q] = cancel[q]
  BY DEF Inv, TypeOK, RegistrationRequestsOK
<1>2. AnswerIsFinal'
  BY <1>1 DEF AnswersInv, AnswerIsFinal, QuietStep
<1>3. ASSUME NEW m \in Members, NEW g \in Meetings
      PROVE  Balanced(Entries("CANCEL", m, g)', Cancelled(m, g)',
                      Cancelled(m, g)' \cup FailedToCancel(m, g)')
  <2> DEFINE T == Cancelled(m, g) \cup FailedToCancel(m, g)
             V == Cancelled(m, g)' \cup FailedToCancel(m, g)'
  <2>1. Balanced(Entries("CANCEL", m, g), Cancelled(m, g), T)
    BY DEF AnswersInv, AnswersCounted
  <2>2. cancel[r].answer = "NONE"
    BY DEF AnswersInv, AnswerIsFinal, QuietStep
  <2>3. Cancelled(m, g)' \subseteq Cancelled(m, g)
    BY <1>1, <2>2 DEF QuietStep, Cancelled
  <2>4. T \subseteq V
    BY <1>1, <2>2 DEF QuietStep, Cancelled, FailedToCancel
  <2>5. V \subseteq T \cup {r}
    BY <1>1 DEF Cancelled, FailedToCancel
  <2>6. Entries("CANCEL", m, g)' = Entries("CANCEL", m, g)
    BY DEF Entries
  <2>7. Cancelled(m, g)' \subseteq V
    OBVIOUS
  <2> HIDE DEF T, V
  <2>8. Balanced(Entries("CANCEL", m, g), Cancelled(m, g)', V)
    BY <2>1, <2>3, <2>4, <2>5, <2>7, BalanceKept
  <2> QED
    BY <2>6, <2>8 DEF V
<1>4. ASSUME NEW m \in Members, NEW g \in Meetings
      PROVE  /\ Entries("APPLY", m, g)' = Entries("APPLY", m, g)
             /\ Applied(m, g)' = Applied(m, g)
             /\ FailedToApply(m, g)' = FailedToApply(m, g)
  BY DEF Entries, Applied, FailedToApply
<1>5. AnswersCounted'
  BY <1>3, <1>4 DEF AnswersInv, AnswersCounted, Balanced
<1> QED
  BY <1>2, <1>5 DEF AnswersInv

\* The reasons to refuse are no successes.
LEMMA Refusals ==
  ASSUME NEW m, NEW g, NEW n, NEW k
  PROVE  /\ ApplicantDenial(m) \notin {"APPLIED", "CANCELLED"}
         /\ MeetingDenial(m, g, n, k) \notin {"APPLIED", "CANCELLED"}
         /\ CancelDenial(m) \notin {"APPLIED", "CANCELLED"}
<1>1. ApplicantDenial(m) \notin {"APPLIED", "CANCELLED"}
  BY DEF ApplicantDenial, ApplicantDenialReason, Permitted
<1>2. MeetingDenial(m, g, n, k) \notin {"APPLIED", "CANCELLED"}
  BY DEF MeetingDenial, MeetingDenialReason, Permitted
<1>3. CancelDenial(m) \notin {"APPLIED", "CANCELLED"}
  BY DEF CancelDenial, Permitted
<1> QED
  BY <1>1, <1>2, <1>3

\* A refusal or an error before the COMMIT, and either answer after it.
LEMMA AnsweredApply ==
  ASSUME Inv, AnswersInv, NEW r \in ApplyRequests, apply[r].pc # "done",
         UNCHANGED <<cancel, registration_history>>, NEW answer, AnswerApply(r, answer),
         \/ apply[r].pc # "answer" /\ answer \notin {"APPLIED", "CANCELLED"}
         \/ apply[r].pc = "answer" /\ answer \in {"APPLIED", "ERROR"}
  PROVE  AnswersInv'
<1> DEFINE locals == [apply[r] EXCEPT !.pc = "done", !.answer = answer,
                                      !.active_part_member_count = 0,
                                      !.distribution_meeting_count = 0]
<1>1. apply[r] \in ApplyRecord
  BY DEF Inv, TypeOK, RegistrationRequestsOK
<1>2. /\ locals.pc = "done" /\ locals.answer = answer
      /\ locals.member_id = apply[r].member_id /\ locals.meeting_id = apply[r].meeting_id
  BY <1>1 DEF ApplyRecord
<1>3. apply' = [apply EXCEPT ![r] = locals]
  BY DEF AnswerApply, EndApply
<1> HIDE DEF locals
<1> QED
  BY <1>2, <1>3, QuietApply DEF QuietStep

LEMMA AnsweredCancel ==
  ASSUME Inv, AnswersInv, NEW r \in CancelRequests, cancel[r].pc # "done",
         UNCHANGED <<apply, registration_history>>, NEW answer, AnswerCancel(r, answer),
         \/ cancel[r].pc # "answer" /\ answer \notin {"APPLIED", "CANCELLED"}
         \/ cancel[r].pc = "answer" /\ answer \in {"CANCELLED", "ERROR"}
  PROVE  AnswersInv'
<1> DEFINE locals == [cancel[r] EXCEPT !.pc = "done", !.answer = answer]
<1>1. cancel[r] \in CancelRecord
  BY DEF Inv, TypeOK, RegistrationRequestsOK
<1>2. /\ locals.pc = "done" /\ locals.answer = answer
      /\ locals.member_id = cancel[r].member_id /\ locals.meeting_id = cancel[r].meeting_id
  BY <1>1 DEF CancelRecord
<1>3. cancel' = [cancel EXCEPT ![r] = locals]
  BY DEF AnswerCancel
<1> HIDE DEF locals
<1> QED
  BY <1>2, <1>3, QuietCancel DEF QuietStep

\* A request that goes on keeps the answer it has not got yet.
LEMMA ContinuedApply ==
  ASSUME Inv, AnswersInv, NEW r \in ApplyRequests,
         LockMember(r) \/ LockMeeting(r) \/ CountDistribution(r) \/ Decide(r)
  PROVE  AnswersInv'
<1>1. apply[r] \in ApplyRecord /\ apply \in [ApplyRequests -> ApplyRecord]
  BY DEF Inv, TypeOK, RegistrationRequestsOK
<1>2. /\ apply[r].pc \notin {"answer", "done"} /\ apply[r].answer = "NONE"
      /\ UNCHANGED <<cancel, registration_history>>
  BY DEF AnswersInv, AnswerIsFinal, LockMember, LockMeeting, CountDistribution, Decide,
     registrations
<1>3. CASE \E answer : answer \notin {"APPLIED", "CANCELLED"} /\ AnswerApply(r, answer)
  BY <1>2, <1>3, AnsweredApply
<1>4. CASE ~\E answer : answer \notin {"APPLIED", "CANCELLED"} /\ AnswerApply(r, answer)
  <2>1. PICK locals : /\ apply' = [apply EXCEPT ![r] = locals] /\ locals.answer = apply[r].answer
                      /\ locals.pc # "answer"
    <3>1. CASE LockMember(r)
      <4>1. apply' = [apply EXCEPT ![r] = [apply[r] EXCEPT !.pc = "lock_meeting"]]
        BY <1>4, <3>1, Refusals DEF LockMember
      <4>2. /\ [apply[r] EXCEPT !.pc = "lock_meeting"].answer = apply[r].answer
            /\ [apply[r] EXCEPT !.pc = "lock_meeting"].pc = "lock_meeting"
        BY <1>1 DEF ApplyRecord
      <4> QED
        BY <4>1, <4>2
    <3>2. CASE LockMeeting(r)
      <4> DEFINE n == Cardinality(ActivePartMembers(member[apply[r].member_id].part_id))
                 a == [apply[r] EXCEPT !.pc = "count_distribution",
                                       !.active_part_member_count = n]
      <4>1. apply' = [apply EXCEPT ![r] = a]
        BY <1>4, <3>2 DEF LockMeeting
      <4>2. a.answer = apply[r].answer /\ a.pc = "count_distribution"
        BY <1>1 DEF ApplyRecord
      <4> QED
        BY <4>1, <4>2
    <3>3. CASE CountDistribution(r)
      <4> DEFINE n == Cardinality(DistributionMeetings)
                 a == [apply[r] EXCEPT !.pc = "decide", !.distribution_meeting_count = n]
      <4>1. apply' = [apply EXCEPT ![r] = a]
        BY <3>3 DEF CountDistribution
      <4>2. a.answer = apply[r].answer /\ a.pc = "decide"
        BY <1>1 DEF ApplyRecord
      <4> QED
        BY <4>1, <4>2
    <3>4. CASE Decide(r)
      <4>1. apply' = [apply EXCEPT ![r] = [apply[r] EXCEPT !.pc = "commit"]]
        BY <1>4, <3>4, Refusals DEF Decide
      <4>2. /\ [apply[r] EXCEPT !.pc = "commit"].answer = apply[r].answer
            /\ [apply[r] EXCEPT !.pc = "commit"].pc = "commit"
        BY <1>1 DEF ApplyRecord
      <4> QED
        BY <4>1, <4>2
    <3> QED
      BY <3>1, <3>2, <3>3, <3>4
  <2> QED
    BY <1>2, <2>1, QuietApply DEF QuietStep
<1> QED
  BY <1>3, <1>4

LEMMA ReceivedApply ==
  ASSUME Inv, AnswersInv, NEW r \in ApplyRequests, NEW m \in Members, NEW g \in Meetings,
         ReceiveApply(r, m, g)
  PROVE  AnswersInv'
<1> DEFINE locals == [apply[r] EXCEPT
              !.member_id = m, !.meeting_id = g,
              !.pc = IF registration_open THEN "lock_member" ELSE "done",
              !.answer = IF registration_open THEN "NONE" ELSE "REGISTRATION_NOT_STARTED"]
<1>1. apply[r] \in ApplyRecord
  BY DEF Inv, TypeOK, RegistrationRequestsOK
<1>2. /\ locals.pc \in {"lock_member", "done"} /\ (locals.pc # "done" => locals.answer = "NONE")
      /\ locals.answer \in {"NONE", "REGISTRATION_NOT_STARTED"}
  BY <1>1 DEF ApplyRecord
<1>3. /\ apply[r].pc = "idle" /\ apply' = [apply EXCEPT ![r] = locals]
      /\ UNCHANGED <<cancel, registration_history>>
  BY DEF ReceiveApply, registrations
<1> HIDE DEF locals
<1> QED
  BY <1>2, <1>3, QuietApply DEF QuietStep

LEMMA ReceivedCancel ==
  ASSUME Inv, AnswersInv, NEW r \in CancelRequests, NEW m \in Members, ReceiveCancel(r, m)
  PROVE  AnswersInv'
<1> DEFINE locals == [cancel[r] EXCEPT
              !.member_id = m,
              !.pc = IF registration_open THEN "lock_member" ELSE "done",
              !.answer = IF registration_open THEN "NONE" ELSE "REGISTRATION_NOT_STARTED"]
<1>1. cancel[r] \in CancelRecord
  BY DEF Inv, TypeOK, RegistrationRequestsOK
<1>2. /\ locals.pc \in {"lock_member", "done"} /\ (locals.pc # "done" => locals.answer = "NONE")
      /\ locals.answer \in {"NONE", "REGISTRATION_NOT_STARTED"}
  BY <1>1 DEF CancelRecord
<1>3. /\ cancel[r].pc = "idle" /\ cancel' = [cancel EXCEPT ![r] = locals]
      /\ UNCHANGED <<apply, registration_history>>
  BY DEF ReceiveCancel, registrations
<1> HIDE DEF locals
<1> QED
  BY <1>2, <1>3, QuietCancel DEF QuietStep

LEMMA CheckedCancel ==
  ASSUME Inv, AnswersInv, NEW r \in CancelRequests, CheckCancel(r)
  PROVE  AnswersInv'
<1> DEFINE m == cancel[r].member_id
           locals == [cancel[r] EXCEPT !.pc = "commit", !.meeting_id = registration[m]]
<1>1. cancel[r] \in CancelRecord
  BY DEF Inv, TypeOK, RegistrationRequestsOK
<1>2. /\ cancel[r].pc = "lock_member" /\ cancel[r].answer = "NONE"
      /\ UNCHANGED <<apply, registration_history>>
  BY DEF CheckCancel, AnswersInv, AnswerIsFinal, registrations
<1>3. CASE AnswerCancel(r, CancelDenial(m))
  BY <1>2, <1>3, Refusals, AnsweredCancel
<1>4. CASE cancel' = [cancel EXCEPT ![r] = locals]
  <2>1. locals.answer = cancel[r].answer /\ locals.pc = "commit"
    BY <1>1 DEF CancelRecord
  <2> HIDE DEF locals
  <2> QED
    BY <1>2, <1>4, <2>1, QuietCancel DEF QuietStep
<1> QED
  BY <1>3, <1>4 DEF CheckCancel

\* The two commits: one request to be told of its success, one row.
LEMMA CommittedApply ==
  ASSUME Inv, AnswersInv, NEW r \in ApplyRequests, CommitApply(r)
  PROVE  AnswersInv'
<1>0. PICK m \in Members, g \in Meetings : m = apply[r].member_id /\ g = apply[r].meeting_id
  BY DEF CommitApply, Inv, TypeOK, RegistrationRequestsOK, ApplyFilled
<1> DEFINE locals == [apply[r] EXCEPT !.pc = "answer", !.answer = "NONE",
                                      !.active_part_member_count = 0,
                                      !.distribution_meeting_count = 0]
           e == [action |-> "APPLY", meeting_id |-> g]
           h == registration_history[m]
<1>1. apply[r].pc = "commit" /\ apply[r] \in ApplyRecord /\ apply[r].answer = "NONE"
  BY DEF CommitApply, Inv, TypeOK, RegistrationRequestsOK, AnswersInv, AnswerIsFinal
<1>2. m \notin DOMAIN registration
  BY <1>0, <1>1 DEF Inv, DecisionsStillHold, HoldsMember
<1>3. /\ registration_history' = [registration_history EXCEPT ![m] = Append(@, e)]
      /\ apply' = [apply EXCEPT ![r] = locals] /\ UNCHANGED cancel
  BY <1>0, <1>2 DEF CommitApply, EndApply, RecordHistory
<1>4. /\ locals.member_id = m /\ locals.meeting_id = g /\ locals.answer = "NONE"
      /\ locals.pc = "answer"
  BY <1>0, <1>1 DEF ApplyRecord
<1> HIDE DEF locals
<1>5. apply'[r] = locals /\ \A q \in ApplyRequests \ {r} : apply'[q] = apply[q]
  BY <1>3 DEF Inv, TypeOK, RegistrationRequestsOK
<1>6. AnswerIsFinal'
  BY <1>3, <1>4, <1>5 DEF AnswersInv, AnswerIsFinal
<1>7. /\ registration_history'[m] = Append(h, e) /\ h \in Seq(HistoryRow)
      /\ \A x \in Members \ {m} : registration_history'[x] = registration_history[x]
  BY <1>3 DEF Inv, TypeOK, RowsOK
<1>8. e \in HistoryRow
  BY DEF HistoryRow
<1>9. ASSUME NEW x \in Members, NEW y \in Meetings
      PROVE  /\ Balanced(Entries("APPLY", x, y)', Applied(x, y)',
                         Applied(x, y)' \cup FailedToApply(x, y)')
             /\ Balanced(Entries("CANCEL", x, y)', Cancelled(x, y)',
                         Cancelled(x, y)' \cup FailedToCancel(x, y)')
  <2> DEFINE a == [action |-> "APPLY", meeting_id |-> y]
             c == [action |-> "CANCEL", meeting_id |-> y]
  <2>1. /\ Balanced(Entries("APPLY", x, y), Applied(x, y), Applied(x, y) \cup FailedToApply(x, y))
        /\ Balanced(Entries("CANCEL", x, y), Cancelled(x, y),
                    Cancelled(x, y) \cup FailedToCancel(x, y))
    BY DEF AnswersInv, AnswersCounted
  <2>2. Cancelled(x, y)' = Cancelled(x, y) /\ FailedToCancel(x, y)' = FailedToCancel(x, y)
    BY <1>3 DEF Cancelled, FailedToCancel
  <2>3. FailedToApply(x, y)' = FailedToApply(x, y)
    BY <1>1, <1>4, <1>5 DEF FailedToApply
  <2>4. c # e
    OBVIOUS
  <2> HIDE DEF e, h
  <2>5. Entries("CANCEL", x, y)' = Entries("CANCEL", x, y)
    <3>1. CASE x = m
      <4>1. Places(Append(h, e), c) = Places(h, c)
        BY <1>7, <1>8, <2>4, PlacesGrow
      <4> QED
        BY <1>7, <3>1, <4>1 DEF Entries, Places, h
    <3>2. CASE x # m
      BY <1>7, <3>2 DEF Entries
    <3> QED
      BY <3>1, <3>2
  <2>6. CASE x = m /\ y = g
    <3>1. Applied(x, y)' = Applied(x, y) \cup {r}
      BY <1>4, <1>5, <2>6 DEF Applied
    <3>2. r \notin Applied(x, y) \cup FailedToApply(x, y)
      BY <1>1 DEF Applied, FailedToApply
    <3>3. a = e
      BY <2>6 DEF e
    <3>4. Places(Append(h, e), a) = Places(h, a) \cup {Len(h) + 1} /\ Len(h) + 1 \notin Places(h, a)
      BY <1>7, <1>8, <3>3, PlacesGrow
    <3>5. /\ Entries("APPLY", x, y)' = Entries("APPLY", x, y) \cup {Len(h) + 1}
          /\ Len(h) + 1 \notin Entries("APPLY", x, y)
      BY <1>7, <2>6, <3>4 DEF Entries, Places, h
    <3>6. Balanced(Entries("APPLY", x, y) \cup {Len(h) + 1}, Applied(x, y) \cup {r},
                   (Applied(x, y) \cup FailedToApply(x, y)) \cup {r})
      BY <2>1, <3>2, <3>5, BalanceGrows
    <3>7. (Applied(x, y) \cup FailedToApply(x, y)) \cup {r}
            = Applied(x, y)' \cup FailedToApply(x, y)'
      BY <2>3, <3>1
    <3> QED
      BY <2>1, <2>2, <2>5, <3>1, <3>5, <3>6, <3>7
  <2>7. CASE ~(x = m /\ y = g)
    <3>1. Applied(x, y)' = Applied(x, y)
      BY <1>0, <1>1, <1>4, <1>5, <2>7 DEF Applied
    <3>2. Entries("APPLY", x, y)' = Entries("APPLY", x, y)
      <4>1. CASE x = m
        <5>1. a # e
          <6>1. a.meeting_id = y /\ e.meeting_id = g
            BY DEF e
          <6> QED
            BY <2>7, <4>1, <6>1
        <5>2. Places(Append(h, e), a) = Places(h, a)
          BY <1>7, <1>8, <5>1, PlacesGrow
        <5> QED
          BY <1>7, <4>1, <5>2 DEF Entries, Places, h
      <4>2. CASE x # m
        BY <1>7, <4>2 DEF Entries
      <4> QED
        BY <4>1, <4>2
    <3> QED
      BY <2>1, <2>2, <2>3, <2>5, <3>1, <3>2
  <2> QED
    BY <2>6, <2>7
<1>10. AnswersCounted'
  BY <1>9 DEF AnswersCounted, Balanced
<1> QED
  BY <1>6, <1>10 DEF AnswersInv

LEMMA CommittedCancel ==
  ASSUME Inv, AnswersInv, NEW r \in CancelRequests, CommitCancel(r)
  PROVE  AnswersInv'
<1>0. PICK m \in Members, g \in Meetings : m = cancel[r].member_id /\ g = cancel[r].meeting_id
  <2>1. cancel[r].pc = "commit" /\ cancel[r].member_id \in Members
    BY DEF CommitCancel, Inv, TypeOK, RegistrationRequestsOK, CancelFilled
  <2>2. cancel[r].meeting_id \in Meetings
    BY <2>1 DEF Inv, TypeOK, RowsOK, TablesOK, CancellationsStillHold
  <2> QED
    BY <2>1, <2>2
<1> DEFINE locals == [cancel[r] EXCEPT !.pc = "answer"]
           e == [action |-> "CANCEL", meeting_id |-> g]
           h == registration_history[m]
<1>1. cancel[r].pc = "commit" /\ cancel[r] \in CancelRecord /\ cancel[r].answer = "NONE"
  BY DEF CommitCancel, Inv, TypeOK, RegistrationRequestsOK, AnswersInv, AnswerIsFinal
<1>3. /\ registration_history' = [registration_history EXCEPT ![m] = Append(@, e)]
      /\ cancel' = [cancel EXCEPT ![r] = locals] /\ UNCHANGED apply
  BY <1>0 DEF CommitCancel, RecordHistory
<1>4. /\ locals.member_id = m /\ locals.meeting_id = g /\ locals.answer = "NONE"
      /\ locals.pc = "answer"
  BY <1>0, <1>1 DEF CancelRecord
<1> HIDE DEF locals
<1>5. cancel'[r] = locals /\ \A q \in CancelRequests \ {r} : cancel'[q] = cancel[q]
  BY <1>3 DEF Inv, TypeOK, RegistrationRequestsOK
<1>6. AnswerIsFinal'
  BY <1>3, <1>4, <1>5 DEF AnswersInv, AnswerIsFinal
<1>7. /\ registration_history'[m] = Append(h, e) /\ h \in Seq(HistoryRow)
      /\ \A x \in Members \ {m} : registration_history'[x] = registration_history[x]
  BY <1>3 DEF Inv, TypeOK, RowsOK
<1>8. e \in HistoryRow
  BY DEF HistoryRow
<1>9. ASSUME NEW x \in Members, NEW y \in Meetings
      PROVE  /\ Balanced(Entries("CANCEL", x, y)', Cancelled(x, y)',
                         Cancelled(x, y)' \cup FailedToCancel(x, y)')
             /\ Balanced(Entries("APPLY", x, y)', Applied(x, y)',
                         Applied(x, y)' \cup FailedToApply(x, y)')
  <2> DEFINE a == [action |-> "CANCEL", meeting_id |-> y]
             c == [action |-> "APPLY", meeting_id |-> y]
  <2>1. /\ Balanced(Entries("CANCEL", x, y), Cancelled(x, y), Cancelled(x, y) \cup FailedToCancel(x, y))
        /\ Balanced(Entries("APPLY", x, y), Applied(x, y),
                    Applied(x, y) \cup FailedToApply(x, y))
    BY DEF AnswersInv, AnswersCounted
  <2>2. Applied(x, y)' = Applied(x, y) /\ FailedToApply(x, y)' = FailedToApply(x, y)
    BY <1>3 DEF Applied, FailedToApply
  <2>3. FailedToCancel(x, y)' = FailedToCancel(x, y)
    BY <1>1, <1>4, <1>5 DEF FailedToCancel
  <2>4. c # e
    OBVIOUS
  <2> HIDE DEF e, h
  <2>5. Entries("APPLY", x, y)' = Entries("APPLY", x, y)
    <3>1. CASE x = m
      <4>1. Places(Append(h, e), c) = Places(h, c)
        BY <1>7, <1>8, <2>4, PlacesGrow
      <4> QED
        BY <1>7, <3>1, <4>1 DEF Entries, Places, h
    <3>2. CASE x # m
      BY <1>7, <3>2 DEF Entries
    <3> QED
      BY <3>1, <3>2
  <2>6. CASE x = m /\ y = g
    <3>1. Cancelled(x, y)' = Cancelled(x, y) \cup {r}
      BY <1>4, <1>5, <2>6 DEF Cancelled
    <3>2. r \notin Cancelled(x, y) \cup FailedToCancel(x, y)
      BY <1>1 DEF Cancelled, FailedToCancel
    <3>3. a = e
      BY <2>6 DEF e
    <3>4. Places(Append(h, e), a) = Places(h, a) \cup {Len(h) + 1} /\ Len(h) + 1 \notin Places(h, a)
      BY <1>7, <1>8, <3>3, PlacesGrow
    <3>5. /\ Entries("CANCEL", x, y)' = Entries("CANCEL", x, y) \cup {Len(h) + 1}
          /\ Len(h) + 1 \notin Entries("CANCEL", x, y)
      BY <1>7, <2>6, <3>4 DEF Entries, Places, h
    <3>6. Balanced(Entries("CANCEL", x, y) \cup {Len(h) + 1}, Cancelled(x, y) \cup {r},
                   (Cancelled(x, y) \cup FailedToCancel(x, y)) \cup {r})
      BY <2>1, <3>2, <3>5, BalanceGrows
    <3>7. (Cancelled(x, y) \cup FailedToCancel(x, y)) \cup {r}
            = Cancelled(x, y)' \cup FailedToCancel(x, y)'
      BY <2>3, <3>1
    <3> QED
      BY <2>1, <2>2, <2>5, <3>1, <3>5, <3>6, <3>7
  <2>7. CASE ~(x = m /\ y = g)
    <3>1. Cancelled(x, y)' = Cancelled(x, y)
      BY <1>0, <1>1, <1>4, <1>5, <2>7 DEF Cancelled
    <3>2. Entries("CANCEL", x, y)' = Entries("CANCEL", x, y)
      <4>1. CASE x = m
        <5>1. a # e
          <6>1. a.meeting_id = y /\ e.meeting_id = g
            BY DEF e
          <6> QED
            BY <2>7, <4>1, <6>1
        <5>2. Places(Append(h, e), a) = Places(h, a)
          BY <1>7, <1>8, <5>1, PlacesGrow
        <5> QED
          BY <1>7, <4>1, <5>2 DEF Entries, Places, h
      <4>2. CASE x # m
        BY <1>7, <4>2 DEF Entries
      <4> QED
        BY <4>1, <4>2
    <3> QED
      BY <2>1, <2>2, <2>3, <2>5, <3>1, <3>2
  <2> QED
    BY <2>6, <2>7
<1>10. AnswersCounted'
  BY <1>9 DEF AnswersCounted, Balanced
<1> QED
  BY <1>6, <1>10 DEF AnswersInv

LEMMA ToldOrFailed ==
  ASSUME Inv, AnswersInv,
         \/ \E r \in ApplyRequests : TellApplied(r) \/ AbortApply(r)
         \/ \E r \in CancelRequests : TellCancelled(r) \/ AbortCancel(r)
  PROVE  AnswersInv'
<1>1. ASSUME NEW r \in ApplyRequests, TellApplied(r) PROVE AnswersInv'
  BY <1>1, AnsweredApply DEF TellApplied, registrations
<1>2. ASSUME NEW r \in ApplyRequests, AbortApply(r) PROVE AnswersInv'
  BY <1>2, AnsweredApply DEF AbortApply, ApplySteps, registrations
<1>3. ASSUME NEW r \in CancelRequests, TellCancelled(r) PROVE AnswersInv'
  BY <1>3, AnsweredCancel DEF TellCancelled, registrations
<1>4. ASSUME NEW r \in CancelRequests, AbortCancel(r) PROVE AnswersInv'
  BY <1>4, AnsweredCancel DEF AbortCancel, CancelSteps, registrations
<1> QED
  BY <1>1, <1>2, <1>3, <1>4

\* The console's handlers tell no applicant anything.
LEMMA ConsoleSilent ==
  ASSUME AdministrationStep \/ (\E r \in MeetingRequests : AbortMeetingForm(r)) \/ UNCHANGED vars
  PROVE  UNCHANGED <<apply, cancel, registration_history>>
  BY DEF AdministrationStep, ReceiveAdminMeetingEdit, ReceiveHostMeetingEdit, CheckHost,
     CountApplicants, FlushMeeting, CommitMeeting, ReceiveMeetingCreation, InsertMeeting,
     AbortMeetingForm, ReceiveMemberEdit, CountRegistrations, CountHosted, SaveMember,
     AbortMemberForm, CreateMember, vars, registrations

LEMMA AnswersStep == Inv /\ AnswersInv /\ [Next]_vars => AnswersInv'
<1> SUFFICES ASSUME Inv, AnswersInv, [Next]_vars PROVE AnswersInv'
  OBVIOUS
<1>2. ASSUME UNCHANGED <<apply, cancel, registration_history>> PROVE AnswersInv'
  <2>1. ASSUME NEW m \in Members, NEW g \in Meetings
        PROVE  /\ Entries("APPLY", m, g)' = Entries("APPLY", m, g)
               /\ Entries("CANCEL", m, g)' = Entries("CANCEL", m, g)
               /\ Applied(m, g)' = Applied(m, g) /\ FailedToApply(m, g)' = FailedToApply(m, g)
               /\ Cancelled(m, g)' = Cancelled(m, g)
               /\ FailedToCancel(m, g)' = FailedToCancel(m, g)
    BY <1>2 DEF Entries, Applied, FailedToApply, Cancelled, FailedToCancel
  <2>2. AnswersCounted'
    BY <2>1 DEF AnswersInv, AnswersCounted, Balanced
  <2> QED
    BY <1>2, <2>2 DEF AnswersInv, AnswerIsFinal
<1>3. CASE RegistrationStep
  <2>1. CASE ChangeRegistrationWindow
    BY <1>2, <2>1 DEF ChangeRegistrationWindow, registrations
  <2> QED
    BY <1>3, <2>1, ReceivedApply, ContinuedApply, CommittedApply, ReceivedCancel, CheckedCancel,
       CommittedCancel, ToldOrFailed
    DEF RegistrationStep
<1>4. CASE BreakDeadlock
  BY <1>2, <1>4, ToldOrFailed, ConsoleSilent DEF BreakDeadlock
<1>5. CASE AdministrationStep \/ UNCHANGED vars
  BY <1>2, <1>5, ConsoleSilent
<1> QED
  BY <1>3, <1>4, <1>5 DEF Next

\* Every success told has a row of its own in the history, and every further row is that of
\* a request that failed after its COMMIT (registration_service.py: the exit of db.begin();
\* pages.py: the answer formed after it).
THEOREM RegistrationAnswersMatchHistory == Spec => []AnswersMatchHistory
<1>1. Init => AnswersInv
  <2> SUFFICES ASSUME Init PROVE AnswersInv
    OBVIOUS
  <2>1. /\ \A r \in ApplyRequests : apply[r].answer = "NONE" /\ apply[r].pc = "idle"
        /\ \A r \in CancelRequests : cancel[r].answer = "NONE" /\ cancel[r].pc = "idle"
    BY DEF Init, RegistrationInit, IdleApply, IdleCancel
  <2>2. ASSUME NEW m \in Members, NEW g \in Meetings
        PROVE  /\ Applied(m, g) = {} /\ FailedToApply(m, g) = {}
               /\ Cancelled(m, g) = {} /\ FailedToCancel(m, g) = {}
    BY <2>1 DEF Applied, Cancelled, FailedToApply, FailedToCancel
  <2>3. ASSUME NEW m \in Members, NEW g \in Meetings
        PROVE  Entries("APPLY", m, g) = {} /\ Entries("CANCEL", m, g) = {}
    BY DEF Init, RegistrationInit, Entries
  <2>4. IsFiniteSet({}) /\ Cardinality({}) = 0
    BY FS_EmptySet
  <2>5. AnswersCounted
    <3>1. Balanced({}, {}, {})
      BY <2>4 DEF Balanced
    <3>2. ASSUME NEW m \in Members, NEW g \in Meetings
          PROVE  /\ Balanced(Entries("APPLY", m, g), Applied(m, g),
                             Applied(m, g) \cup FailedToApply(m, g))
                 /\ Balanced(Entries("CANCEL", m, g), Cancelled(m, g),
                             Cancelled(m, g) \cup FailedToCancel(m, g))
      <4>1. /\ Applied(m, g) = {} /\ Applied(m, g) \cup FailedToApply(m, g) = {}
            /\ Cancelled(m, g) = {} /\ Cancelled(m, g) \cup FailedToCancel(m, g) = {}
        BY <2>2
      <4>2. Entries("APPLY", m, g) = {} /\ Entries("CANCEL", m, g) = {}
        BY <2>3
      <4> QED
        BY <3>1, <4>1, <4>2
    <3> QED
      BY <3>2 DEF AnswersCounted
  <2> QED
    BY <2>1, <2>5 DEF AnswersInv, AnswerIsFinal
<1>2. AnswersInv => AnswersMatchHistory
  BY DEF AnswersInv, AnswersCounted, Balanced, Accounted, AnswersMatchHistory
<1> QED
  BY <1>1, <1>2, RegistrationInvariant, AnswersStep, PTL DEF Spec

-----------------------------------------------------------------------------
\* A host's form asks for the status the handler loaded, so its UPDATE leaves the
\* column alone.
HostForms ==
  \A r \in HostMeetingEdits :
    meeting_form[r].pc \in MeetingSteps =>
      meeting_form[r].form.status = meeting_form[r].loaded.status

LEMMA FormReplaced ==
  ASSUME Inv, HostForms, NEW r \in MeetingRequests, NEW locals,
         meeting_form' = [meeting_form EXCEPT ![r] = locals],
         r \in HostMeetingEdits /\ locals.pc \in MeetingSteps =>
           locals.form.status = locals.loaded.status
  PROVE  HostForms'
<1>1. meeting_form'[r] = locals /\ \A q \in MeetingRequests \ {r} : meeting_form'[q] = meeting_form[q]
  BY DEF Inv, TypeOK, FormsOK
<1>2. HostMeetingEdits \subseteq MeetingRequests
  BY DEF MeetingRequests, MeetingEdits
<1> QED
  BY <1>1, <1>2 DEF HostForms

LEMMA FormAnswered ==
  ASSUME Inv, HostForms, NEW r \in MeetingRequests, NEW answer, AnswerMeetingForm(r, answer)
  PROVE  HostForms'
<1> DEFINE locals == [IdleMeetingForm EXCEPT !.pc = "done", !.answer = answer]
<1>1. locals.pc \notin MeetingSteps
  BY DEF IdleMeetingForm, MeetingSteps
<1>2. meeting_form' = [meeting_form EXCEPT ![r] = locals]
  BY DEF AnswerMeetingForm
<1> HIDE DEF locals
<1> QED
  BY <1>1, <1>2, FormReplaced

\* The steps of an edit keep the form and the row it loaded.
LEMMA FormContinued ==
  ASSUME Inv, HostForms, NEW r \in MeetingEdits,
         CheckHost(r) \/ CountApplicants(r) \/ FlushMeeting(r)
  PROVE  HostForms'
<1>1. meeting_form[r] \in MeetingFormRecord /\ r \in MeetingRequests
      /\ meeting_form[r].pc \in MeetingSteps
  BY DEF Inv, TypeOK, FormsOK, MeetingRequests, CheckHost, CountApplicants, FlushMeeting,
     MeetingSteps
<1>2. CASE \E answer : AnswerMeetingForm(r, answer)
  BY <1>1, <1>2, FormAnswered
<1>3. CASE ~\E answer : AnswerMeetingForm(r, answer)
  <2>1. PICK locals : /\ meeting_form' = [meeting_form EXCEPT ![r] = locals]
                      /\ locals.form = meeting_form[r].form
                      /\ locals.loaded = meeting_form[r].loaded
    <3>1. CASE CheckHost(r)
      <4> DEFINE a == [meeting_form[r] EXCEPT !.pc = "count"]
      <4>1. meeting_form' = [meeting_form EXCEPT ![r] = a]
        BY <1>3, <3>1 DEF CheckHost
      <4>2. a.form = meeting_form[r].form /\ a.loaded = meeting_form[r].loaded
        BY <1>1 DEF MeetingFormRecord
      <4> HIDE DEF a
      <4> QED
        BY <4>1, <4>2
    <3>2. CASE CountApplicants(r)
      <4> DEFINE a == [meeting_form[r] EXCEPT !.pc = "flush"]
      <4>1. meeting_form' = [meeting_form EXCEPT ![r] = a]
        BY <1>3, <3>2 DEF CountApplicants
      <4>2. a.form = meeting_form[r].form /\ a.loaded = meeting_form[r].loaded
        BY <1>1 DEF MeetingFormRecord
      <4> HIDE DEF a
      <4> QED
        BY <4>1, <4>2
    <3>3. CASE FlushMeeting(r)
      <4> DEFINE host == meeting_host[meeting_form[r].meeting_id]
                 a == [meeting_form[r] EXCEPT !.pc = "commit", !.loaded_host = host]
      <4>1. meeting_form' = [meeting_form EXCEPT ![r] = a]
        BY <3>3 DEF FlushMeeting
      <4>2. a.form = meeting_form[r].form /\ a.loaded = meeting_form[r].loaded
        BY <1>1 DEF MeetingFormRecord
      <4> HIDE DEF a
      <4> QED
        BY <4>1, <4>2
    <3> QED
      BY <3>1, <3>2, <3>3
  <2>2. r \in HostMeetingEdits => locals.form.status = locals.loaded.status
    BY <1>1, <2>1 DEF HostForms
  <2> QED
    BY <1>1, <2>1, <2>2, FormReplaced
<1> QED
  BY <1>2, <1>3

LEMMA FormReceived ==
  ASSUME Inv, HostForms, NEW r \in MeetingRequests, NEW form \in MeetingForms,
         \/ \E g \in Meetings : r \in AdminMeetingEdits /\ ReceiveAdminMeetingEdit(r, g, form)
         \/ \E m \in Members, g \in Meetings :
              r \in HostMeetingEdits /\ ReceiveHostMeetingEdit(r, m, g, form)
         \/ r \in MeetingCreations /\ ReceiveMeetingCreation(r, form)
  PROVE  HostForms'
<1>1. meeting_form[r] \in MeetingFormRecord
  BY DEF Inv, TypeOK, FormsOK
<1>2. CASE \E answer : AnswerMeetingForm(r, answer)
  BY <1>2, FormAnswered
<1>3. CASE ~\E answer : AnswerMeetingForm(r, answer)
  <2>1. CASE \E g \in Meetings : r \in AdminMeetingEdits /\ ReceiveAdminMeetingEdit(r, g, form)
    <3>1. r \notin HostMeetingEdits
      BY <2>1, AdministrationAssumption
    <3>2. \E locals : meeting_form' = [meeting_form EXCEPT ![r] = locals]
      BY <1>3, <2>1 DEF ReceiveAdminMeetingEdit
    <3> QED
      BY <3>1, <3>2, FormReplaced
  <2>2. CASE r \in MeetingCreations /\ ReceiveMeetingCreation(r, form)
    <3>1. r \notin HostMeetingEdits
      BY <2>2, AdministrationAssumption DEF MeetingEdits
    <3>2. \E locals : meeting_form' = [meeting_form EXCEPT ![r] = locals]
      BY <1>3, <2>2 DEF ReceiveMeetingCreation
    <3> QED
      BY <3>1, <3>2, FormReplaced
  <2>3. CASE \E m \in Members, g \in Meetings : ReceiveHostMeetingEdit(r, m, g, form)
    <3>1. PICK m \in Members, g \in Meetings : ReceiveHostMeetingEdit(r, m, g, form)
      BY <2>3
    <3> DEFINE locals == [meeting_form[r] EXCEPT !.pc = "count", !.form = form,
                                                 !.meeting_id = g, !.loaded = meeting[g]]
    <3>2. meeting_form' = [meeting_form EXCEPT ![r] = locals] /\ form.status = meeting[g].status
      BY <1>3, <3>1 DEF ReceiveHostMeetingEdit
    <3>3. locals.form = form /\ locals.loaded = meeting[g]
      BY <1>1 DEF MeetingFormRecord
    <3> HIDE DEF locals
    <3> QED
      BY <3>2, <3>3, FormReplaced
  <2> QED
    BY <2>1, <2>2, <2>3
<1> QED
  BY <1>2, <1>3

LEMMA HostFormsStep == Inv /\ HostForms /\ [Next]_vars => HostForms'
<1> SUFFICES ASSUME Inv, HostForms, [Next]_vars PROVE HostForms'
  OBVIOUS
<1>1. CASE UNCHANGED meeting_form
  BY <1>1 DEF HostForms
<1>2. ASSUME NEW r \in MeetingRequests, NEW form \in MeetingForms,
             \/ \E g \in Meetings : r \in AdminMeetingEdits /\ ReceiveAdminMeetingEdit(r, g, form)
             \/ \E m \in Members, g \in Meetings :
                  r \in HostMeetingEdits /\ ReceiveHostMeetingEdit(r, m, g, form)
             \/ r \in MeetingCreations /\ ReceiveMeetingCreation(r, form)
      PROVE  HostForms'
  BY <1>2, FormReceived
<1>3. ASSUME NEW r \in MeetingEdits, CheckHost(r) \/ CountApplicants(r) \/ FlushMeeting(r)
      PROVE  HostForms'
  BY <1>3, FormContinued
<1>4. ASSUME NEW r \in MeetingRequests,
             AbortMeetingForm(r) \/ CommitMeeting(r) \/ \E g \in Meetings : InsertMeeting(r, g)
      PROVE  HostForms'
  BY <1>4, FormAnswered DEF AbortMeetingForm, CommitMeeting, InsertMeeting
<1>5. MeetingEdits \subseteq MeetingRequests /\ MeetingCreations \subseteq MeetingRequests
      /\ AdminMeetingEdits \subseteq MeetingRequests /\ HostMeetingEdits \subseteq MeetingRequests
  BY DEF MeetingRequests, MeetingEdits
<1>6. CASE RegistrationStep /\ UNCHANGED forms
  BY <1>1, <1>6 DEF forms
<1>7. CASE AdministrationStep
  <2>1. CASE \/ \E r \in MemberEdits, m \in Members, form \in MemberForms :
                  ReceiveMemberEdit(r, m, form)
             \/ \E r \in MemberEdits : CountRegistrations(r) \/ CountHosted(r) \/ SaveMember(r)
                                         \/ AbortMemberForm(r)
             \/ \E m \in Members, form \in MemberForms : CreateMember(m, form)
    BY <1>1, <2>1 DEF ReceiveMemberEdit, CountRegistrations, CountHosted, SaveMember,
       AbortMemberForm, CreateMember, forms
  <2> QED
    BY <1>2, <1>3, <1>4, <1>5, <1>7, <2>1 DEF AdministrationStep
<1>8. CASE BreakDeadlock
  BY <1>1, <1>4, <1>8 DEF BreakDeadlock, forms
<1>9. CASE UNCHANGED vars
  BY <1>1, <1>9 DEF vars, forms
<1> QED
  BY <1>6, <1>7, <1>8, <1>9 DEF Next

\* The only statements that write table meeting.
LEMMA MeetingWriters ==
  ASSUME Next, meeting' # meeting
  PROVE  \/ \E r \in MeetingEdits : CommitMeeting(r)
         \/ \E r \in MeetingCreations, g \in Meetings : InsertMeeting(r, g)
<1>1. ~RegistrationStep
  BY DEF RegistrationStep, ReceiveApply, LockMember, LockMeeting, CountDistribution, Decide,
     CommitApply, TellApplied, AbortApply, ReceiveCancel, CheckCancel, CommitCancel,
     TellCancelled, AbortCancel, ChangeRegistrationWindow, tables
<1>2. ~BreakDeadlock
  BY DEF BreakDeadlock, AbortApply, AbortCancel, AbortMeetingForm, tables
<1>3. AdministrationStep
  BY <1>1, <1>2 DEF Next
<1> QED
  BY <1>3 DEF AdministrationStep, ReceiveAdminMeetingEdit, ReceiveHostMeetingEdit, CheckHost,
     CountApplicants, FlushMeeting, ReceiveMeetingCreation, AbortMeetingForm, ReceiveMemberEdit,
     CountRegistrations, CountHosted, SaveMember, AbortMemberForm, CreateMember, tables

LEMMA StatusWritten ==
  ASSUME Inv, HostForms, Next, NEW g \in DOMAIN meeting, meeting'[g].status # meeting[g].status
  PROVE  \E r \in AdminMeetingEdits :
           /\ meeting_form[r].pc = "commit" /\ meeting_form'[r].pc = "done"
           /\ meeting_form[r].meeting_id = g
           /\ meeting_form[r].form.status = meeting'[g].status
<1>1. CASE \E r \in MeetingCreations, x \in Meetings : InsertMeeting(r, x)
  BY <1>1 DEF InsertMeeting, Upsert
<1>2. CASE \E r \in MeetingEdits : CommitMeeting(r)
  <2>1. PICK r \in MeetingEdits : CommitMeeting(r)
    BY <1>2
  <2> DEFINE f == meeting_form[r]
  <2>2. /\ f.pc = "commit" /\ f.meeting_id \in DOMAIN meeting
        /\ meeting' = [meeting EXCEPT ![f.meeting_id] =
                         MeetingUpdate(meeting[f.meeting_id], f.form, f.loaded)]
        /\ AnswerMeetingForm(r, "SAVED")
    BY <2>1 DEF CommitMeeting, Inv, TypeOK, FormsOK, MeetingFormFilled, MeetingSteps,
       MeetingRequests
  <2>3. f.meeting_id = g /\ meeting'[g] = MeetingUpdate(meeting[g], f.form, f.loaded)
    BY <2>2 DEF Inv, TypeOK, RowsOK, TablesOK
  <2>4. f.form.status # f.loaded.status /\ meeting'[g].status = f.form.status
    BY <2>3 DEF MeetingUpdate
  <2>5. r \in AdminMeetingEdits
    BY <2>2, <2>4 DEF HostForms, MeetingEdits, MeetingSteps
  <2>6. meeting_form'[r].pc = "done"
    BY <2>2 DEF AnswerMeetingForm, IdleMeetingForm, Inv, TypeOK, FormsOK, MeetingRequests
  <2> QED
    BY <2>2, <2>3, <2>4, <2>5, <2>6
<1> QED
  BY <1>1, <1>2, MeetingWriters

\* A status changes only to what an admin submitted, whatever a host saves meanwhile.
THEOREM RegistrationStatusByAdmin == Spec => StatusChangedOnlyByAdmin
<1> DEFINE ByAdmin ==
      \A g \in DOMAIN meeting :
        meeting'[g].status # meeting[g].status =>
          \E r \in AdminMeetingEdits :
            /\ meeting_form[r].pc = "commit" /\ meeting_form'[r].pc = "done"
            /\ meeting_form[r].meeting_id = g
            /\ meeting_form[r].form.status = meeting'[g].status
<1>1. Init => HostForms
  BY DEF Init, HostForms, IdleMeetingForm, MeetingSteps, MeetingRequests, MeetingEdits
<1>2. Inv /\ HostForms /\ [Next]_vars => [ByAdmin]_vars
  <2>1. ASSUME Inv, HostForms, Next PROVE ByAdmin
    BY <2>1, StatusWritten
  <2> HIDE DEF ByAdmin
  <2> QED
    BY <2>1
<1> QED
  BY <1>1, <1>2, RegistrationInvariant, HostFormsStep, PTL DEF Spec, StatusChangedOnlyByAdmin
=============================================================================
