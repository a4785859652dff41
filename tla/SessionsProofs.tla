--------------------------- MODULE SessionsProofs ---------------------------
(***************************************************************************)
(* The properties of Sessions for every set of members, addresses,         *)
(* browsers, requests and tokens.                                          *)
(*                                                                         *)
(* What is asked of a session depends on the session, which does not       *)
(* change while it travels, and on four records that only grow: the login  *)
(* history, the persons who have unlocked the console, the credentials     *)
(* given and the tokens issued.  So a session stays good wherever it is,   *)
(* however late it arrives (SessionKept), and an action has to be looked   *)
(* at only for the one session it makes (Answered).                        *)
(*                                                                         *)
(* The rights of members do not only grow: what an edit under way may      *)
(* still rely on when it commits is a second invariant, EditsOK.           *)
(***************************************************************************)
EXTENDS Sessions, TLAPS

\* A page's token was issued to the page's person.
PageGood(x, tokens) ==
  /\ x \in Page
  /\ x.csrf_token # None => x.csrf_token \in DOMAIN tokens /\ x.person = tokens[x.csrf_token]

SessionGood(s, logins, opened, given, tokens) ==
  /\ s \in Session /\ WellFormed(s)
  /\ Person(s) # None => \E ip \in Addresses : <<Person(s), ip>> \in logins
  /\ s.admin_console_verified \/ s.session_kind = "impersonation" => Person(s) \in opened
  /\ PageGood(PageOf(s), tokens)
  /\ s.pending_member_id # None => <<s.pending_member_id, s.pending_ip>> \in given

Good(s) == SessionGood(s, login_history, unlocked, credentials, issued)

DatabaseOK ==
  /\ member \in [Members -> MemberRow]
  /\ last_login_ip \in [Members -> Addresses \cup {None}]
  /\ login_history \subseteq Members \X Addresses
  /\ credentials \subseteq Members \X Addresses
  /\ unlocked \subseteq Members
  /\ DOMAIN issued \subseteq Tokens /\ issued \in [DOMAIN issued -> Members \cup {None}]
  /\ login_history \subseteq credentials
  /\ \A m \in Members : last_login_ip[m] # None => <<m, last_login_ip[m]>> \in credentials

BrowsersOK ==
  /\ jar \in [Browsers -> Session] /\ \A b \in Browsers : Good(jar[b])
  /\ pages \in [Browsers -> SUBSET Page]
  /\ \A b \in Browsers : \A x \in pages[b] : PageGood(x, issued)

\* A request has a row while it edits it.
RowOK(q) ==
  /\ q.pc = "loaded" <=> q.target # None
  /\ q.pc = "loaded" => q.loaded \in MemberRow

RequestsOK ==
  /\ request \in [Requests -> RequestRecord]
  /\ \A r \in Requests : request[r].pc # "idle" => request[r].browser \in Browsers
  /\ \A r \in Requests : RowOK(request[r])
  /\ \A r \in Requests : Good(request[r].session) /\ PageGood(request[r].page, issued)

SessionsInv == DatabaseOK /\ BrowsersOK /\ RequestsOK

\* An edit has passed the check, with the form of the session's person, and its sender
\* still has the rights unless another edit took them.
EditsOK ==
  /\ overtaken \subseteq {r \in Requests : request[r].pc \in Editing}
  /\ \A r \in Requests : request[r].pc \in Editing =>
       LET s == request[r].session IN
       /\ HasRights(s.member_id, member) \/ r \in overtaken
       /\ s.admin_console_verified
       /\ VerifyCsrf(s, request[r].page)

\* Nothing recorded is forgotten.
RecordsGrow ==
  /\ login_history \subseteq login_history'
  /\ unlocked \subseteq unlocked'
  /\ credentials \subseteq credentials'
  /\ DOMAIN issued \subseteq DOMAIN issued'
  /\ \A t \in DOMAIN issued : issued'[t] = issued[t]

-----------------------------------------------------------------------------
LEMMA NoPageGood == ASSUME NEW tokens PROVE PageGood(NoPage, tokens)
<1>1. NoPage \in Page
  BY DEF NoPage, Page
<1>2. NoPage.csrf_token = None
  BY DEF NoPage
<1> QED
  BY <1>1, <1>2 DEF PageGood

LEMMA EmptyGood ==
  ASSUME NEW l, NEW o, NEW g, NEW tokens
  PROVE  SessionGood(Empty, l, o, g, tokens)
<1>1. Empty \in Session
  BY DEF Empty, Session
<1>2. WellFormed(Empty) /\ Person(Empty) = None
  BY SessionsAssumption DEF Empty, WellFormed, Person
<1>3. PageOf(Empty) = NoPage
  BY <1>2 DEF PageOf, NoPage, Empty
<1>4. PageGood(PageOf(Empty), tokens)
  BY <1>3, NoPageGood
<1>5. ~Empty.admin_console_verified /\ Empty.session_kind = None /\ Empty.pending_member_id = None
  BY DEF Empty
<1> QED
  BY <1>1, <1>2, <1>4, <1>5, SessionsAssumption DEF SessionGood

\* The person of a session is a member or nobody.
LEMMA PersonType ==
  ASSUME NEW s \in Session, WellFormed(s)
  PROVE  /\ Person(s) \in Members \cup {None}
         /\ PageOf(s) \in Page
         /\ s.member_id # None => Person(s) \in Members
  BY SessionsAssumption DEF Session, WellFormed, Person, PageOf, Page

LEMMA PageKept ==
  ASSUME RecordsGrow, NEW x, PageGood(x, issued)
  PROVE  PageGood(x, issued')
  BY DEF RecordsGrow, PageGood

LEMMA SessionKept ==
  ASSUME RecordsGrow, NEW s, Good(s)
  PROVE  SessionGood(s, login_history', unlocked', credentials', issued')
<1>1. PageGood(PageOf(s), issued')
  BY PageKept DEF Good, SessionGood
<1> QED
  BY <1>1 DEF RecordsGrow, Good, SessionGood

LEMMA BrowsersKept ==
  ASSUME RecordsGrow, BrowsersOK, UNCHANGED browsers
  PROVE  BrowsersOK'
<1>1. jar' = jar /\ pages' = pages
  BY DEF browsers
<1>2. \A b \in Browsers : SessionGood(jar[b], login_history', unlocked', credentials', issued')
  BY SessionKept DEF BrowsersOK
<1>3. \A b \in Browsers : \A x \in pages[b] : PageGood(x, issued')
  BY PageKept DEF BrowsersOK
<1> QED
  BY <1>1, <1>2, <1>3 DEF BrowsersOK, Good

\* A handler that answers r with a good session and a good page, and leaves the
\* database in order, preserves the invariant.
LEMMA Answered ==
  ASSUME SessionsInv, NEW r \in Requests, NEW s, NEW page,
         request[r].pc # "idle", Respond(r, s, page), UNCHANGED browsers,
         RecordsGrow, DatabaseOK',
         SessionGood(s, login_history', unlocked', credentials', issued'),
         PageGood(page, issued')
  PROVE  SessionsInv'
<1>1. BrowsersOK'
  BY BrowsersKept DEF SessionsInv
<1>2. s \in Session /\ page \in Page
  BY DEF SessionGood, PageGood
<1>3. request' \in [Requests -> RequestRecord]
  BY <1>2 DEF SessionsInv, RequestsOK, RequestRecord, Respond
<1>4. /\ request'[r].pc = "answered" /\ request'[r].session = s /\ request'[r].page = page
      /\ request'[r].browser = request[r].browser /\ request'[r].target = None
      /\ \A q \in Requests \ {r} : request'[q] = request[q]
  BY DEF SessionsInv, RequestsOK, RequestRecord, Respond
<1>5. \A q \in Requests : request'[q].pc # "idle" => request'[q].browser \in Browsers
  BY <1>4 DEF SessionsInv, RequestsOK
<1>6. ASSUME NEW q \in Requests
      PROVE  /\ SessionGood(request'[q].session, login_history', unlocked', credentials', issued')
             /\ PageGood(request'[q].page, issued')
  <2>1. CASE q = r
    BY <1>4, <2>1
  <2>2. CASE q # r
    <3>1. request'[q] = request[q]
      BY <1>4, <2>2
    <3>2. Good(request[q].session) /\ PageGood(request[q].page, issued)
      BY DEF SessionsInv, RequestsOK
    <3> QED
      BY <3>1, <3>2, SessionKept, PageKept
  <2> QED
    BY <2>1, <2>2
<1>7. \A q \in Requests : RowOK(request'[q])
  BY <1>4 DEF SessionsInv, RequestsOK, RowOK
<1>8. RequestsOK'
  BY <1>3, <1>5, <1>6, <1>7 DEF RequestsOK, Good
<1> QED
  BY <1>1, <1>8 DEF SessionsInv

\* A handler that changes no record.
LEMMA AnsweredOnly ==
  ASSUME SessionsInv, NEW r \in Requests, NEW s, NEW page,
         request[r].pc = "sent", Respond(r, s, page),
         UNCHANGED <<database, browsers, history>>,
         Good(s), PageGood(page, issued)
  PROVE  SessionsInv'
<1>1. RecordsGrow /\ DatabaseOK' /\ UNCHANGED browsers
  BY DEF RecordsGrow, DatabaseOK, SessionsInv, database, browsers, history
<1>2. /\ SessionGood(s, login_history', unlocked', credentials', issued')
      /\ PageGood(page, issued')
  BY <1>1, SessionKept, PageKept
<1> QED
  BY <1>1, <1>2, Answered

\* The parts of the invariant a handler of r starts from.
LEMMA RequestGood ==
  ASSUME SessionsInv, NEW r \in Requests
  PROVE  /\ request[r] \in RequestRecord
         /\ Good(request[r].session) /\ PageGood(request[r].page, issued)
         /\ request[r].session \in Session /\ WellFormed(request[r].session)
  BY DEF SessionsInv, RequestsOK, Good, SessionGood

\* A new token, or the one a session has, becomes or stays that of one person.
LEMMA IssueGrows ==
  ASSUME DatabaseOK, NEW t \in Tokens, NEW person \in Members \cup {None}, Issue(t, person)
  PROVE  /\ DOMAIN issued' = DOMAIN issued \cup {t}
         /\ \A x \in DOMAIN issued : issued'[x] = issued[x]
         /\ t \notin DOMAIN issued => issued'[t] = person
         /\ DOMAIN issued' \subseteq Tokens
         /\ issued' \in [DOMAIN issued' -> Members \cup {None}]
  BY DEF DatabaseOK, Issue

-----------------------------------------------------------------------------
\* The browser's side and the network change no record.
LEMMA RequestReplaced ==
  ASSUME SessionsInv, NEW r \in Requests, NEW q \in RequestRecord,
         request' = [request EXCEPT ![r] = q],
         q.pc # "idle" => q.browser \in Browsers,
         RowOK(q), Good(q.session), PageGood(q.page, issued),
         UNCHANGED <<database, credentials, unlocked, issued>>
  PROVE  RequestsOK' /\ DatabaseOK' /\ RecordsGrow
<1>1. DatabaseOK' /\ RecordsGrow
  BY DEF RecordsGrow, DatabaseOK, SessionsInv, database
<1>2. /\ login_history' = login_history /\ unlocked' = unlocked
      /\ credentials' = credentials /\ issued' = issued
  BY DEF database
<1>3. request' \in [Requests -> RequestRecord]
  BY DEF SessionsInv, RequestsOK
<1>4. ASSUME NEW x \in Requests
      PROVE  /\ request'[x].pc # "idle" => request'[x].browser \in Browsers
             /\ RowOK(request'[x])
             /\ Good(request'[x].session) /\ PageGood(request'[x].page, issued)
  <2>1. request'[x] = IF x = r THEN q ELSE request[x]
    BY DEF SessionsInv, RequestsOK
  <2> QED
    BY <2>1 DEF SessionsInv, RequestsOK
<1>5. RequestsOK'
  BY <1>2, <1>3, <1>4 DEF RequestsOK, Good
<1> QED
  BY <1>1, <1>5

LEMMA IdleGood ==
  /\ Idle \in RequestRecord /\ Idle.pc = "idle" /\ RowOK(Idle)
  /\ Good(Idle.session) /\ PageGood(Idle.page, issued)
<1>1. Good(Empty) /\ PageGood(NoPage, issued)
  BY EmptyGood, NoPageGood DEF Good
<1>2. Empty \in Session /\ NoPage \in Page
  BY <1>1 DEF Good, SessionGood, PageGood
<1>3. Idle \in RequestRecord
  BY <1>2 DEF Idle, RequestRecord
<1> QED
  BY <1>1, <1>3 DEF Idle, RowOK

LEMMA SendPreserves ==
  ASSUME SessionsInv, NEW r \in Requests, NEW b \in Browsers,
         NEW form \in pages[b] \cup {NoPage}, Send(r, b, form)
  PROVE  SessionsInv'
<1> DEFINE q == [Idle EXCEPT !.pc = "sent", !.browser = b, !.session = jar[b], !.page = form]
<1>1. Good(jar[b]) /\ jar[b] \in Session
  BY DEF SessionsInv, BrowsersOK
<1>2. PageGood(form, issued)
  BY NoPageGood DEF SessionsInv, BrowsersOK
<1>3. q \in RequestRecord
  BY <1>1, <1>2 DEF RequestRecord, PageGood, Idle
<1>4. q.pc = "sent" /\ q.browser = b /\ q.session = jar[b] /\ q.page = form /\ RowOK(q)
  BY DEF Idle, RowOK
<1>5. /\ request' = [request EXCEPT ![r] = q]
      /\ UNCHANGED <<database, browsers, credentials, unlocked, issued>>
  BY DEF Send, history
<1> HIDE DEF q
<1>6. RequestsOK' /\ DatabaseOK' /\ RecordsGrow
  BY <1>1, <1>2, <1>3, <1>4, <1>5, RequestReplaced
<1>7. BrowsersOK'
  BY <1>5, <1>6, BrowsersKept DEF SessionsInv
<1> QED
  BY <1>6, <1>7 DEF SessionsInv

LEMMA LosePreserves ==
  ASSUME SessionsInv, NEW r \in Requests, Lose(r)
  PROVE  SessionsInv'
<1>1. /\ request' = [request EXCEPT ![r] = Idle]
      /\ UNCHANGED <<database, browsers, credentials, unlocked, issued>>
  BY DEF Lose
<1>2. RequestsOK' /\ DatabaseOK' /\ RecordsGrow
  BY <1>1, IdleGood, RequestReplaced
<1>3. BrowsersOK'
  BY <1>1, <1>2, BrowsersKept DEF SessionsInv
<1> QED
  BY <1>2, <1>3 DEF SessionsInv

LEMMA ReceivePreserves ==
  ASSUME SessionsInv, NEW r \in Requests, Receive(r)
  PROVE  SessionsInv'
<1> DEFINE b == request[r].browser
<1>1. /\ request[r].pc = "answered" /\ request' = [request EXCEPT ![r] = Idle]
      /\ UNCHANGED <<database, credentials, unlocked, issued>>
  BY DEF Receive, history
<1>2. RequestsOK' /\ DatabaseOK' /\ RecordsGrow
  BY <1>1, IdleGood, RequestReplaced
<1>3. b \in Browsers /\ Good(request[r].session) /\ PageGood(request[r].page, issued)
  BY <1>1 DEF SessionsInv, RequestsOK
<1>4. request[r].session \in Session /\ request[r].page \in Page
  BY <1>3 DEF Good, SessionGood, PageGood
<1>5. /\ jar' = [jar EXCEPT ![b] = request[r].session]
      /\ pages' = [pages EXCEPT ![b] = @ \cup ({request[r].page} \ {NoPage})]
  BY DEF Receive
<1> HIDE DEF b
<1>6. jar' \in [Browsers -> Session] /\ \A x \in Browsers : Good(jar'[x])
  BY <1>3, <1>4, <1>5 DEF SessionsInv, BrowsersOK
<1>7. pages' \in [Browsers -> SUBSET Page]
  BY <1>3, <1>4, <1>5 DEF SessionsInv, BrowsersOK
<1>8. \A x \in Browsers : \A y \in pages'[x] : PageGood(y, issued)
  BY <1>3, <1>5 DEF SessionsInv, BrowsersOK
<1>9. /\ login_history' = login_history /\ unlocked' = unlocked
      /\ credentials' = credentials /\ issued' = issued
  BY <1>1 DEF database
<1>10. BrowsersOK'
  BY <1>6, <1>7, <1>8, <1>9 DEF BrowsersOK, Good
<1> QED
  BY <1>2, <1>10 DEF SessionsInv

LEMMA ExpirePreserves ==
  ASSUME SessionsInv, NEW b \in Browsers, Expire(b)
  PROVE  SessionsInv'
<1>1. /\ jar' = [jar EXCEPT ![b] = Empty] /\ request' = request /\ pages' = pages
      /\ UNCHANGED <<database, history>>
  BY DEF Expire
<1>2. /\ login_history' = login_history /\ unlocked' = unlocked
      /\ credentials' = credentials /\ issued' = issued
      /\ member' = member /\ last_login_ip' = last_login_ip
  BY <1>1 DEF database, history
<1>3. Good(Empty) /\ Empty \in Session
  BY EmptyGood DEF Good, SessionGood
<1>4. jar' \in [Browsers -> Session] /\ \A x \in Browsers : Good(jar'[x])
  BY <1>1, <1>3 DEF SessionsInv, BrowsersOK
<1>5. BrowsersOK'
  BY <1>1, <1>2, <1>4 DEF SessionsInv, BrowsersOK, Good
<1>6. DatabaseOK' /\ RequestsOK'
  BY <1>1, <1>2 DEF SessionsInv, DatabaseOK, RequestsOK, Good
<1> QED
  BY <1>5, <1>6 DEF SessionsInv

-----------------------------------------------------------------------------
\* Handlers that change no record.
LEMMA PlainAnswers ==
  ASSUME SessionsInv, NEW r \in Requests,
         \/ AnswerUnchanged(r) \/ ClearInactive(r) \/ ShowAgain(r)
         \/ RefuseConfirmation(r) \/ Logout(r)
  PROVE  SessionsInv'
<1> DEFINE s == request[r].session
<1>1. Good(s) /\ Good(Empty) /\ PageGood(NoPage, issued) /\ PageGood(PageOf(s), issued)
  BY RequestGood, EmptyGood, NoPageGood DEF Good, SessionGood
<1>2. request[r].pc = "sent" /\ UNCHANGED <<database, browsers, history>>
  BY DEF AnswerUnchanged, ClearInactive, ShowAgain, RefuseConfirmation, Logout, Posted
<1>3. \E a \in {s, Empty}, x \in {NoPage, PageOf(s)} : Respond(r, a, x)
  BY DEF AnswerUnchanged, ClearInactive, ShowAgain, RefuseConfirmation, Logout
<1> HIDE DEF s
<1>4. PICK a \in {s, Empty}, x \in {NoPage, PageOf(s)} : Respond(r, a, x)
  BY <1>3
<1>5. Good(a) /\ PageGood(x, issued)
  BY <1>1
<1> QED
  BY <1>2, <1>4, <1>5, AnsweredOnly

\* The session that keeps the person and the token of s, and opens no console that
\* the person has not unlocked.
LEMMA SamePersonGood ==
  ASSUME NEW s, Good(s), NEW a \in Session, WellFormed(a),
         Person(a) = Person(s), a.csrf_token = s.csrf_token,
         a.admin_console_verified \/ a.session_kind = "impersonation" => Person(s) \in unlocked,
         a.pending_member_id = None
  PROVE  Good(a)
<1>1. PageOf(a) = PageOf(s)
  BY DEF PageOf
<1> QED
  BY <1>1 DEF Good, SessionGood

LEMMA ImpersonatePreserves ==
  ASSUME SessionsInv, NEW r \in Requests, NEW target \in Members, Impersonate(r, target)
  PROVE  SessionsInv'
<1> DEFINE s == request[r].session
           a == [Empty EXCEPT !.member_id = target, !.session_kind = "impersonation",
                              !.impersonator_member_id = s.member_id,
                              !.csrf_token = s.csrf_token]
<1>1. Good(s) /\ s \in Session /\ WellFormed(s) /\ PageGood(NoPage, issued)
  BY RequestGood, NoPageGood
<1>2. /\ s.admin_console_verified /\ s.member_id \in Members
      /\ s.session_kind = "login" /\ target # s.member_id
  BY <1>1, SessionsAssumption
     DEF Impersonate, AdminConsole, AdminRole, CurrentMember, MayImpersonate, WellFormed, Session
<1>3. /\ a.member_id = target /\ a.session_kind = "impersonation"
      /\ a.impersonator_member_id = s.member_id /\ a.csrf_token = s.csrf_token
      /\ a.pending_member_id = None /\ a.pending_ip = None /\ ~a.admin_console_verified
  BY DEF Empty
<1>4. a \in Session
  BY <1>1, <1>2 DEF Session, Empty
<1>5. Respond(r, a, NoPage) /\ request[r].pc = "sent" /\ UNCHANGED <<database, browsers, history>>
  BY DEF Impersonate, Posted
<1> HIDE DEF s, a
<1>6. WellFormed(a) /\ Person(a) = s.member_id /\ Person(s) = s.member_id
  BY <1>2, <1>3, SessionsAssumption DEF WellFormed, Person
<1>7. Person(s) \in unlocked
  BY <1>1, <1>2 DEF Good, SessionGood
<1>8. Good(a)
  BY <1>1, <1>3, <1>4, <1>6, <1>7, SamePersonGood
<1> QED
  BY <1>1, <1>5, <1>8, AnsweredOnly

LEMMA ReturnPreserves ==
  ASSUME SessionsInv, NEW r \in Requests, ReturnFromImpersonation(r)
  PROVE  SessionsInv'
<1> DEFINE s == request[r].session
           a == ReturnedSession(s)
<1>1. Good(s) /\ s \in Session /\ WellFormed(s) /\ PageGood(NoPage, issued) /\ Good(Empty)
  BY RequestGood, NoPageGood, EmptyGood DEF Good
<1>2. /\ s.session_kind = "impersonation" /\ s.impersonator_member_id \in Members
      /\ Person(s) = s.impersonator_member_id /\ Person(s) \in unlocked
  BY <1>1 DEF ReturnFromImpersonation, WellFormed, Session, Person, Good, SessionGood
<1>3. /\ a.member_id = s.impersonator_member_id /\ a.session_kind = "login"
      /\ a.impersonator_member_id = None /\ a.csrf_token = s.csrf_token
      /\ a.pending_member_id = None /\ a.pending_ip = None /\ a.admin_console_verified
  BY DEF Empty, ReturnedSession
<1>4. a \in Session
  BY <1>1, <1>2 DEF Session, Empty, ReturnedSession
<1>5. /\ Respond(r, a, NoPage) \/ Respond(r, Empty, NoPage)
      /\ request[r].pc = "sent" /\ UNCHANGED <<database, browsers, history>>
  BY DEF ReturnFromImpersonation, Posted
<1> HIDE DEF s, a
<1>6. WellFormed(a) /\ Person(a) = Person(s)
  BY <1>2, <1>3, SessionsAssumption DEF WellFormed, Person
<1>7. Good(a)
  BY <1>1, <1>2, <1>3, <1>4, <1>6, SamePersonGood
<1> QED
  BY <1>1, <1>5, <1>7, AnsweredOnly

-----------------------------------------------------------------------------
\* Handlers that record something.
LEMMA UpdateType ==
  ASSUME NEW row \in MemberRow, NEW loaded \in MemberRow, NEW form \in MemberRow
  PROVE  Update(row, loaded, form) \in MemberRow
  BY DEF Update, MemberRow

LEMMA SaveMemberPreserves ==
  ASSUME SessionsInv, NEW r \in Requests, NEW form \in MemberForms, SaveMember(r, form)
  PROVE  SessionsInv'
<1> DEFINE m == request[r].target
           row == Update(member[m], request[r].loaded, form)
<1>1. /\ member' = [member EXCEPT ![m] = row] /\ UNCHANGED <<last_login_ip, login_history>>
      /\ UNCHANGED browsers /\ UNCHANGED <<credentials, unlocked, issued>>
      /\ Respond(r, request[r].session, NoPage) /\ request[r].pc = "loaded"
  BY DEF SaveMember
<1>2. m \in Members /\ request[r].loaded \in MemberRow
  BY <1>1 DEF SessionsInv, RequestsOK, RowOK, RequestRecord
<1>3. row \in MemberRow
  BY <1>2, UpdateType, SessionsAssumption DEF SessionsInv, DatabaseOK
<1> HIDE DEF m, row
<1>4. DatabaseOK'
  BY <1>1, <1>2, <1>3 DEF SessionsInv, DatabaseOK
<1>5. RecordsGrow
  BY <1>1 DEF RecordsGrow
<1>6. SessionGood(request[r].session, login_history', unlocked', credentials', issued')
  BY <1>5, RequestGood, SessionKept
<1> QED
  BY <1>1, <1>4, <1>5, <1>6, NoPageGood, Answered

\* The steps of an edit that write nothing.
LEMMA EditStepsPreserve ==
  ASSUME SessionsInv, NEW r \in Requests,
         CheckConsole(r) \/ RefuseEdit(r) \/ \E m \in Members : LoadMember(r, m)
  PROVE  SessionsInv'
<1> DEFINE s == request[r].session
<1>1. /\ Good(s) /\ PageGood(NoPage, issued) /\ PageGood(PageOf(s), issued)
      /\ PageGood(request[r].page, issued) /\ request[r] \in RequestRecord
  BY RequestGood, NoPageGood DEF Good, SessionGood
<1>2. /\ UNCHANGED <<database, browsers, credentials, unlocked, issued>>
      /\ request[r].pc # "idle"
  BY DEF CheckConsole, RefuseEdit, LoadMember, Posted, Editing, history
<1>3. ASSUME NEW q \in RequestRecord, request' = [request EXCEPT ![r] = q],
             q.browser = request[r].browser, q.session = s, q.page = request[r].page, RowOK(q)
      PROVE  SessionsInv'
  <2>1. q.browser \in Browsers
    BY <1>2, <1>3 DEF SessionsInv, RequestsOK
  <2> HIDE DEF s
  <2>2. RequestsOK' /\ DatabaseOK' /\ RecordsGrow
    BY <1>1, <1>2, <1>3, <2>1, RequestReplaced
  <2>3. BrowsersOK'
    BY <1>2, <2>2, BrowsersKept DEF SessionsInv
  <2> QED
    BY <2>2, <2>3 DEF SessionsInv
<1>4. CASE CheckConsole(r)
  <2> DEFINE q == [request[r] EXCEPT !.pc = "checked"]
  <2>1. request' = [request EXCEPT ![r] = q] /\ request[r].pc = "sent"
    BY <1>4 DEF CheckConsole, Posted, SessionsInv, RequestsOK
  <2>2. request[r].target = None
    BY <2>1 DEF SessionsInv, RequestsOK, RowOK
  <2>3. /\ q \in RequestRecord /\ RowOK(q) /\ q.browser = request[r].browser
        /\ q.session = s /\ q.page = request[r].page
    BY <1>1, <2>2 DEF RequestRecord, RowOK, Editing
  <2> HIDE DEF q
  <2> QED
    BY <1>3, <2>1, <2>3
<1>5. ASSUME NEW m \in Members, LoadMember(r, m) PROVE SessionsInv'
  <2> DEFINE row == IF m = s.member_id THEN [active |-> TRUE, admin_enabled |-> TRUE]
                    ELSE member[m]
             q == [request[r] EXCEPT !.pc = "loaded", !.target = m, !.loaded = row]
  <2>1. request' = [request EXCEPT ![r] = q]
    BY <1>5 DEF LoadMember
  <2>2. row \in MemberRow
    BY DEF SessionsInv, DatabaseOK, MemberRow
  <2> HIDE DEF row
  <2>3. /\ q \in RequestRecord /\ RowOK(q) /\ q.browser = request[r].browser
        /\ q.session = s /\ q.page = request[r].page
    BY <1>1, <2>2, SessionsAssumption DEF RequestRecord, RowOK, Editing
  <2> HIDE DEF q
  <2> QED
    BY <1>3, <2>1, <2>3
<1>6. CASE RefuseEdit(r)
  <2>1. \E x \in {NoPage, PageOf(s)} : Respond(r, s, x)
    BY <1>6 DEF RefuseEdit
  <2> HIDE DEF s
  <2>2. PICK x \in {NoPage, PageOf(s)} : Respond(r, s, x)
    BY <2>1
  <2>3. RecordsGrow /\ DatabaseOK' /\ UNCHANGED browsers
    BY <1>2 DEF RecordsGrow, DatabaseOK, SessionsInv, database
  <2>4. /\ SessionGood(s, login_history', unlocked', credentials', issued')
        /\ PageGood(x, issued')
    BY <1>1, <2>3, SessionKept, PageKept
  <2> QED
    BY <1>2, <2>2, <2>3, <2>4, Answered
<1> QED
  BY <1>4, <1>5, <1>6

LEMMA AdminUnlockPreserves ==
  ASSUME SessionsInv, NEW r \in Requests, AdminUnlock(r)
  PROVE  SessionsInv'
<1> DEFINE s == request[r].session
           a == [s EXCEPT !.admin_console_verified = TRUE]
<1>1. Good(s) /\ s \in Session /\ WellFormed(s)
  BY RequestGood
<1>2. /\ unlocked' = unlocked \cup {Person(s)} /\ UNCHANGED <<database, browsers, credentials, issued>>
      /\ Respond(r, a, NoPage) /\ request[r].pc = "sent" /\ s.member_id # None
  BY DEF AdminUnlock, Posted, AdminRole, CurrentMember
<1>3. Person(s) \in Members
  BY <1>1, <1>2, PersonType
<1>4. DatabaseOK'
  BY <1>2, <1>3 DEF SessionsInv, DatabaseOK, database
<1>5. RecordsGrow
  BY <1>2 DEF RecordsGrow, database
<1>6. SessionGood(s, login_history', unlocked', credentials', issued')
  BY <1>1, <1>5, SessionKept
<1>7. /\ a \in Session /\ a.member_id = s.member_id /\ a.session_kind = s.session_kind
      /\ a.impersonator_member_id = s.impersonator_member_id /\ a.csrf_token = s.csrf_token
      /\ a.pending_member_id = s.pending_member_id /\ a.pending_ip = s.pending_ip
  BY <1>1 DEF Session
<1> HIDE DEF s, a
<1>8. Person(a) = Person(s) /\ PageOf(a) = PageOf(s) /\ WellFormed(a)
  BY <1>1, <1>2, <1>7 DEF Person, PageOf, WellFormed
<1>9. SessionGood(a, login_history', unlocked', credentials', issued')
  BY <1>2, <1>6, <1>7, <1>8 DEF SessionGood
<1> QED
  BY <1>2, <1>4, <1>5, <1>9, NoPageGood, Answered

LEMMA GetPagePreserves ==
  ASSUME SessionsInv, NEW r \in Requests, NEW t \in Tokens, GetPage(r, t)
  PROVE  SessionsInv'
<1> DEFINE s == request[r].session
           a == [s EXCEPT !.csrf_token = t]
<1>1. Good(s) /\ s \in Session /\ WellFormed(s)
  BY RequestGood
<1>2. /\ CsrfToken(s, t) /\ Issue(t, Person(s)) /\ Respond(r, a, PageOf(a))
      /\ request[r].pc = "sent" /\ UNCHANGED <<database, browsers, credentials, unlocked>>
  BY DEF GetPage
<1>3. Person(s) \in Members \cup {None}
  BY <1>1, PersonType
<1>4. /\ DOMAIN issued' = DOMAIN issued \cup {t}
      /\ \A x \in DOMAIN issued : issued'[x] = issued[x]
      /\ t \notin DOMAIN issued => issued'[t] = Person(s)
      /\ DOMAIN issued' \subseteq Tokens
      /\ issued' \in [DOMAIN issued' -> Members \cup {None}]
  BY <1>2, <1>3, IssueGrows DEF SessionsInv
<1>5. DatabaseOK' /\ RecordsGrow
  BY <1>2, <1>4 DEF SessionsInv, DatabaseOK, RecordsGrow, database
<1>6. /\ a \in Session /\ a.member_id = s.member_id /\ a.session_kind = s.session_kind
      /\ a.impersonator_member_id = s.impersonator_member_id /\ a.csrf_token = t
      /\ a.pending_member_id = s.pending_member_id /\ a.pending_ip = s.pending_ip
      /\ a.admin_console_verified = s.admin_console_verified
  BY <1>1 DEF Session
<1> HIDE DEF s, a
<1>7. Person(a) = Person(s) /\ WellFormed(a)
  BY <1>1, <1>6 DEF Person, WellFormed
<1>8. issued'[t] = Person(s)
  BY <1>1, <1>2, <1>4 DEF CsrfToken, Good, SessionGood, PageGood, PageOf
<1>9. PageGood(PageOf(a), issued')
  BY <1>3, <1>4, <1>6, <1>7, <1>8 DEF PageGood, PageOf, Page
<1>10. SessionGood(a, login_history', unlocked', credentials', issued')
  BY <1>1, <1>2, <1>6, <1>7, <1>9 DEF Good, SessionGood, database
<1> QED
  BY <1>2, <1>5, <1>9, <1>10, Answered

\* The session a login makes, for a member whose login has been recorded.
LEMMA LoginGood ==
  ASSUME NEW s, NEW m \in Members, NEW t \in Tokens, NEW logins, NEW opened, NEW given,
         NEW tokens, NEW ip \in Addresses, <<m, ip>> \in logins,
         t \in DOMAIN tokens, tokens[t] = m
  PROVE  SessionGood(LoginSession(s, m, t), logins, opened, given, tokens)
<1> DEFINE a == LoginSession(s, m, t)
<1>1. /\ a.member_id = m /\ a.session_kind = "login" /\ a.impersonator_member_id = None
      /\ a.csrf_token = t /\ a.pending_member_id = None /\ a.pending_ip = None
      /\ ~a.admin_console_verified
  BY DEF LoginSession, Empty
<1>2. a \in Session
  BY DEF LoginSession, Empty, Session
<1> HIDE DEF a
<1>3. WellFormed(a) /\ Person(a) = m
  BY <1>1, SessionsAssumption DEF WellFormed, Person
<1>4. PageGood(PageOf(a), tokens)
  BY <1>1, <1>3 DEF PageGood, PageOf, Page
<1>5. SessionGood(a, logins, opened, given, tokens)
  BY <1>1, <1>2, <1>3, <1>4, SessionsAssumption DEF SessionGood
<1> QED
  BY <1>5 DEF a

LEMMA LoginPreserves ==
  ASSUME SessionsInv, NEW r \in Requests, NEW m \in Members, NEW ip \in Addresses,
         NEW t \in Tokens, Login(r, m, ip, t)
  PROVE  SessionsInv'
<1>1. /\ last_login_ip' = [last_login_ip EXCEPT ![m] = ip]
      /\ login_history' = login_history \cup {<<m, ip>>}
      /\ credentials' = credentials \cup {<<m, ip>>}
      /\ t \notin DOMAIN issued /\ Issue(t, m) /\ request[r].pc = "sent"
      /\ Respond(r, LoginSession(request[r].session, m, t), NoPage)
      /\ UNCHANGED <<member, browsers, unlocked>>
  BY DEF Login, Posted
<1>2. /\ DOMAIN issued' = DOMAIN issued \cup {t} /\ issued'[t] = m
      /\ \A x \in DOMAIN issued : issued'[x] = issued[x]
      /\ DOMAIN issued' \subseteq Tokens
      /\ issued' \in [DOMAIN issued' -> Members \cup {None}]
  BY <1>1, IssueGrows DEF SessionsInv
<1>3. DatabaseOK'
  BY <1>1, <1>2 DEF SessionsInv, DatabaseOK
<1>4. RecordsGrow
  BY <1>1, <1>2 DEF RecordsGrow
<1>5. SessionGood(LoginSession(request[r].session, m, t), login_history', unlocked',
                  credentials', issued')
  BY <1>1, <1>2, LoginGood
<1> QED
  BY <1>1, <1>3, <1>4, <1>5, NoPageGood, Answered

LEMMA ConfirmIpPreserves ==
  ASSUME SessionsInv, NEW r \in Requests, NEW ip \in Addresses, NEW t \in Tokens,
         ConfirmIp(r, ip, t)
  PROVE  SessionsInv'
<1> DEFINE s == request[r].session
           m == s.pending_member_id
           a == s.pending_ip
<1>1. /\ last_login_ip' = [last_login_ip EXCEPT ![m] = a]
      /\ login_history' = login_history \cup {<<m, a>>}
      /\ t \notin DOMAIN issued /\ Issue(t, m) /\ request[r].pc = "sent" /\ m # None
      /\ Respond(r, LoginSession(s, m, t), NoPage)
      /\ UNCHANGED <<member, browsers, credentials, unlocked>>
  BY DEF ConfirmIp, ConfirmedAddress, Posted
<1>2. Good(s) /\ s \in Session /\ WellFormed(s)
  BY RequestGood
<1>3. m \in Members /\ a \in Addresses /\ <<m, a>> \in credentials
  BY <1>1, <1>2, SessionsAssumption DEF Good, SessionGood, WellFormed, Session
<1> HIDE DEF m, a, s
<1>4. /\ DOMAIN issued' = DOMAIN issued \cup {t} /\ issued'[t] = m
      /\ \A x \in DOMAIN issued : issued'[x] = issued[x]
      /\ DOMAIN issued' \subseteq Tokens
      /\ issued' \in [DOMAIN issued' -> Members \cup {None}]
  BY <1>1, <1>3, IssueGrows DEF SessionsInv
<1>5. DatabaseOK'
  BY <1>1, <1>3, <1>4 DEF SessionsInv, DatabaseOK
<1>6. RecordsGrow
  BY <1>1, <1>4 DEF RecordsGrow
<1>7. SessionGood(LoginSession(s, m, t), login_history', unlocked', credentials', issued')
  BY <1>1, <1>3, <1>4, LoginGood
<1> QED
  BY <1>1, <1>5, <1>6, <1>7, NoPageGood, Answered

LEMMA NewAddressPreserves ==
  ASSUME SessionsInv, NEW r \in Requests, NEW m \in Members, NEW ip \in Addresses,
         NEW t \in Tokens, LoginFromNewAddress(r, m, ip, t)
  PROVE  SessionsInv'
<1> DEFINE a == [Empty EXCEPT !.pending_member_id = m, !.pending_ip = ip, !.csrf_token = t]
<1>1. /\ t \notin DOMAIN issued /\ credentials' = credentials \cup {<<m, ip>>}
      /\ Issue(t, None) /\ Respond(r, a, PageOf(a)) /\ request[r].pc = "sent"
      /\ UNCHANGED <<database, browsers, unlocked>>
  BY DEF LoginFromNewAddress, Posted
<1>2. /\ DOMAIN issued' = DOMAIN issued \cup {t} /\ issued'[t] = None
      /\ \A x \in DOMAIN issued : issued'[x] = issued[x]
      /\ DOMAIN issued' \subseteq Tokens
      /\ issued' \in [DOMAIN issued' -> Members \cup {None}]
  BY <1>1, IssueGrows DEF SessionsInv
<1>3. DatabaseOK'
  BY <1>1, <1>2 DEF SessionsInv, DatabaseOK, database
<1>4. RecordsGrow
  BY <1>1, <1>2 DEF RecordsGrow, database
<1>5. /\ a.member_id = None /\ a.session_kind = None /\ a.impersonator_member_id = None
      /\ a.csrf_token = t /\ a.pending_member_id = m /\ a.pending_ip = ip
      /\ ~a.admin_console_verified
  BY DEF Empty
<1>6. a \in Session
  BY DEF Empty, Session
<1> HIDE DEF a
<1>7. WellFormed(a) /\ Person(a) = None
  BY <1>5, SessionsAssumption DEF WellFormed, Person
<1>8. PageGood(PageOf(a), issued')
  BY <1>2, <1>5, <1>7 DEF PageGood, PageOf, Page
<1>9. SessionGood(a, login_history', unlocked', credentials', issued')
  BY <1>1, <1>5, <1>6, <1>7, <1>8, SessionsAssumption DEF SessionGood
<1> QED
  BY <1>1, <1>3, <1>4, <1>8, <1>9, Answered

-----------------------------------------------------------------------------
LEMMA InitGood == Init => SessionsInv
<1> SUFFICES ASSUME Init PROVE SessionsInv
  OBVIOUS
<1>1. PICK t \in InitialTables : member = t.member /\ last_login_ip = t.last_login_ip
  BY DEF Init
<1>2. DatabaseOK
  BY <1>1, SessionsAssumption DEF Init, DatabaseOK
<1>3. Good(Empty) /\ Empty \in Session
  BY EmptyGood DEF Good, SessionGood
<1>4. BrowsersOK
  BY <1>3 DEF Init, BrowsersOK
<1>5. RequestsOK
  BY IdleGood DEF Init, RequestsOK
<1> QED
  BY <1>2, <1>4, <1>5 DEF SessionsInv

LEMMA StepGood == SessionsInv /\ [Next]_vars => SessionsInv'
<1> SUFFICES ASSUME SessionsInv, [Next]_vars PROVE SessionsInv'
  OBVIOUS
<1>1. CASE UNCHANGED vars
  BY <1>1 DEF vars, database, browsers, history, SessionsInv, DatabaseOK, BrowsersOK,
              RequestsOK, Good
<1>2. ASSUME NEW r \in Requests, Handle(r) PROVE SessionsInv'
  BY <1>2, PlainAnswers, AdminUnlockPreserves, ReturnPreserves, GetPagePreserves,
     LoginPreserves, NewAddressPreserves, ConfirmIpPreserves, ImpersonatePreserves,
     SaveMemberPreserves, EditStepsPreserve DEF Handle
<1>3. ASSUME NEW r \in Requests, Receive(r) \/ Lose(r) PROVE SessionsInv'
  BY <1>3, ReceivePreserves, LosePreserves
<1>4. ASSUME NEW r \in Requests, NEW b \in Browsers,
             NEW form \in pages[b] \cup {NoPage}, Send(r, b, form)
      PROVE  SessionsInv'
  BY <1>4, SendPreserves
<1>5. ASSUME NEW b \in Browsers, Expire(b) PROVE SessionsInv'
  BY <1>5, ExpirePreserves
<1> QED
  BY <1>1, <1>2, <1>3, <1>4, <1>5 DEF Next

\* What holds of every session and page holds in every reachable state.
THEOREM SessionsInvariant == Spec => []SessionsInv
  BY InitGood, StepGood, PTL DEF Spec

\* Every session that exists anywhere is good.
LEMMA EverySession == SessionsInv => \A s \in Sessions : Good(s)
  BY DEF SessionsInv, BrowsersOK, RequestsOK, Sessions

LEMMA EveryPage == SessionsInv => \A x \in Pages : PageGood(x, issued)
<1> SUFFICES ASSUME SessionsInv, NEW x \in Pages PROVE PageGood(x, issued)
  OBVIOUS
<1>1. CASE x \in UNION {pages[b] : b \in Browsers}
  <2>1. PICK b \in Browsers : x \in pages[b]
    BY <1>1
  <2> QED
    BY <2>1 DEF SessionsInv, BrowsersOK
<1>2. CASE x \in {request[r].page : r \in Requests}
  BY <1>2 DEF SessionsInv, RequestsOK
<1> QED
  BY <1>1, <1>2 DEF Pages

\* Behind every session is a person whose login is recorded (auth.py, admin.py).
THEOREM SessionsAlwaysAuthenticated == Spec => []SessionsAuthenticated
<1>1. SessionsInv => SessionsAuthenticated
  BY EverySession DEF SessionsAuthenticated, Good, SessionGood
<1> QED
  BY <1>1, SessionsInvariant, PTL

\* An open console, an impersonation and the return from one presuppose the password.
THEOREM SessionsConsoleUnlocked == Spec => []ConsoleUnlocked
<1>1. SessionsInv => ConsoleUnlocked
  BY EverySession DEF ConsoleUnlocked, Good, SessionGood
<1> QED
  BY <1>1, SessionsInvariant, PTL

\* No token passes from one person to another, whatever is answered late.
THEOREM SessionsTokensPersonal == Spec => []TokensPersonal
<1>1. SessionsInv => TokensPersonal
  <2> SUFFICES ASSUME SessionsInv, NEW x \in {PageOf(s) : s \in Sessions} \cup Pages
               PROVE  PageGood(x, issued)
    BY DEF TokensPersonal, PageGood
  <2>1. \A s \in Sessions : PageGood(PageOf(s), issued)
    BY EverySession DEF Good, SessionGood
  <2> QED
    BY <2>1, EveryPage
<1> QED
  BY <1>1, SessionsInvariant, PTL

\* Recorded addresses, and those waiting to be confirmed, are where the password was given.
THEOREM SessionsAddressesProved == Spec => []AddressesProved
<1>1. SessionsInv => AddressesProved
  BY EverySession DEF AddressesProved, SessionsInv, DatabaseOK, Good, SessionGood
<1> QED
  BY <1>1, SessionsInvariant, PTL

-----------------------------------------------------------------------------
\* Edits under way.  Only the edit that commits touches the rights of another.
LEMMA EditsKept ==
  ASSUME SessionsInv, EditsOK, NEW r \in Requests, NEW q,
         request' = [request EXCEPT ![r] = q], q.pc \notin Editing,
         overtaken' \in {overtaken, overtaken \ {r}}, r \in overtaken => overtaken' # overtaken,
         member' = member
  PROVE  EditsOK'
<1>1. request'[r] = q /\ \A x \in Requests \ {r} : request'[x] = request[x]
  BY DEF SessionsInv, RequestsOK
<1>2. \A x \in Requests : x \in overtaken' <=> x \in overtaken /\ x # r
  OBVIOUS
<1>3. overtaken' \subseteq {x \in Requests : request'[x].pc \in Editing}
  BY <1>1, <1>2 DEF EditsOK
<1> QED
  BY <1>1, <1>2, <1>3 DEF EditsOK, HasRights, VerifyCsrf

\* A handler that is not an edit, the browser's side and the network.
LEMMA OtherSteps ==
  ASSUME SessionsInv, EditsOK, NEW r \in Requests, NEW q,
         request[r].pc \notin Editing, request' = [request EXCEPT ![r] = q],
         q.pc \notin Editing, UNCHANGED <<member, overtaken>>
  PROVE  EditsOK'
<1>1. r \notin overtaken
  BY DEF EditsOK
<1> QED
  BY <1>1, EditsKept

LEMMA AnswersKeepEdits ==
  ASSUME SessionsInv, EditsOK, NEW r \in Requests, Handle(r),
         ~CheckConsole(r), ~RefuseEdit(r), \A m \in Members : ~LoadMember(r, m),
         \A form \in MemberForms : ~SaveMember(r, form)
  PROVE  EditsOK'
<1>1. /\ request[r].pc = "sent" /\ UNCHANGED <<member, overtaken>>
      /\ \E s, x : Respond(r, s, x)
  BY DEF Handle, AnswerUnchanged, ClearInactive, GetPage, ShowAgain, Login,
     LoginFromNewAddress, ConfirmIp, RefuseConfirmation, Logout, AdminUnlock,
     Impersonate, ReturnFromImpersonation, Posted, database, history
<1>2. PICK s, x : Respond(r, s, x)
  BY <1>1
<1> DEFINE q == [request[r] EXCEPT !.pc = "answered", !.session = s, !.page = x,
                                   !.target = None, !.loaded = None]
<1>3. request' = [request EXCEPT ![r] = q]
  BY <1>2 DEF Respond
<1>4. q.pc = "answered"
  BY DEF SessionsInv, RequestsOK, RequestRecord
<1> HIDE DEF q
<1> QED
  BY <1>1, <1>3, <1>4, OtherSteps DEF Editing

LEMMA CheckAndLoadKeepEdits ==
  ASSUME SessionsInv, EditsOK, NEW r \in Requests,
         CheckConsole(r) \/ \E m \in Members : LoadMember(r, m)
  PROVE  EditsOK'
<1>1. /\ UNCHANGED <<member, overtaken>>
      /\ \A x \in Requests \ {r} : request'[x] = request[x]
      /\ request'[r].session = request[r].session /\ request'[r].page = request[r].page
      /\ request'[r].pc \in Editing
  <2>1. CASE CheckConsole(r)
    BY <2>1 DEF CheckConsole, SessionsInv, RequestsOK, RequestRecord, Editing, database, history
  <2>2. ASSUME NEW m \in Members, LoadMember(r, m)
        PROVE  \E row : request' = [request EXCEPT ![r] =
                         [@ EXCEPT !.pc = "loaded", !.target = m, !.loaded = row]]
    BY <2>2 DEF LoadMember
  <2>3. CASE \E m \in Members : LoadMember(r, m)
    <3>1. PICK m \in Members : LoadMember(r, m)
      BY <2>3
    <3>2. PICK row : request' = [request EXCEPT ![r] =
                       [@ EXCEPT !.pc = "loaded", !.target = m, !.loaded = row]]
      BY <2>2, <3>1
    <3>3. UNCHANGED <<member, overtaken>>
      BY <3>1 DEF LoadMember, database, history
    <3> QED
      BY <3>2, <3>3 DEF SessionsInv, RequestsOK, RequestRecord, Editing
  <2> QED
    BY <2>1, <2>3
<1>2. /\ HasRights(request[r].session.member_id, member) \/ r \in overtaken
      /\ request[r].session.admin_console_verified
      /\ VerifyCsrf(request[r].session, request[r].page)
  BY DEF CheckConsole, LoadMember, Posted, AdminConsole, AdminRole, CurrentMember, HasRights,
     EditsOK, Editing
<1>3. overtaken' \subseteq {x \in Requests : request'[x].pc \in Editing}
  BY <1>1 DEF EditsOK
<1> QED
  BY <1>1, <1>2, <1>3 DEF EditsOK, HasRights, VerifyCsrf

LEMMA RefusalKeepsEdits ==
  ASSUME SessionsInv, EditsOK, NEW r \in Requests, RefuseEdit(r)
  PROVE  EditsOK'
<1>1. /\ \E s, x : Respond(r, s, x)
      /\ overtaken' = overtaken \ {r} /\ member' = member
  BY DEF RefuseEdit, database
<1>2. PICK s, x : Respond(r, s, x)
  BY <1>1
<1> DEFINE q == [request[r] EXCEPT !.pc = "answered", !.session = s, !.page = x,
                                   !.target = None, !.loaded = None]
<1>3. request' = [request EXCEPT ![r] = q]
  BY <1>2 DEF Respond
<1>4. q.pc = "answered"
  BY DEF SessionsInv, RequestsOK, RequestRecord
<1> HIDE DEF q
<1> QED
  BY <1>1, <1>3, <1>4, EditsKept DEF Editing

LEMMA SaveKeepsEdits ==
  ASSUME SessionsInv, EditsOK, NEW r \in Requests, NEW form \in MemberForms,
         SaveMember(r, form)
  PROVE  EditsOK'
<1> DEFINE losing(x) == /\ request[x].pc \in Editing
                        /\ HasRights(request[x].session.member_id, member)
                        /\ ~HasRights(request[x].session.member_id, member')
<1>1. /\ overtaken' = (overtaken \cup {x \in Requests : losing(x)}) \ {r}
      /\ Respond(r, request[r].session, NoPage)
  BY DEF SaveMember, HasRights
<1>2. request'[r].pc = "answered" /\ \A x \in Requests \ {r} : request'[x] = request[x]
  BY <1>1 DEF SessionsInv, RequestsOK, RequestRecord, Respond
<1>3. overtaken' \subseteq {x \in Requests : request'[x].pc \in Editing}
  BY <1>1, <1>2 DEF EditsOK
<1>4. ASSUME NEW x \in Requests, request'[x].pc \in Editing
      PROVE  /\ HasRights(request'[x].session.member_id, member') \/ x \in overtaken'
             /\ request'[x].session.admin_console_verified
             /\ VerifyCsrf(request'[x].session, request'[x].page)
  <2>1. x # r /\ request'[x] = request[x]
    BY <1>2, <1>4 DEF Editing
  <2>2. /\ HasRights(request[x].session.member_id, member) \/ x \in overtaken
        /\ request[x].session.admin_console_verified
        /\ VerifyCsrf(request[x].session, request[x].page)
    BY <1>4, <2>1 DEF EditsOK
  <2> QED
    BY <1>1, <1>4, <2>1, <2>2
<1> QED
  BY <1>3, <1>4 DEF EditsOK, HasRights, VerifyCsrf

LEMMA EditsStep == SessionsInv /\ EditsOK /\ [Next]_vars => EditsOK'
<1> SUFFICES ASSUME SessionsInv, EditsOK, [Next]_vars PROVE EditsOK'
  OBVIOUS
<1>1. ASSUME NEW r \in Requests, Handle(r) PROVE EditsOK'
  BY <1>1, AnswersKeepEdits, CheckAndLoadKeepEdits, RefusalKeepsEdits, SaveKeepsEdits
<1>2. ASSUME NEW r \in Requests, Receive(r) PROVE EditsOK'
  BY <1>2, OtherSteps DEF Receive, Idle, Editing, database, history
<1>3. ASSUME NEW r \in Requests, Lose(r) PROVE EditsOK'
  BY <1>3, EditsKept DEF Lose, Idle, Editing, database
<1>4. ASSUME NEW r \in Requests, NEW b \in Browsers,
             NEW form \in pages[b] \cup {NoPage}, Send(r, b, form)
      PROVE  EditsOK'
  <2> DEFINE q == [Idle EXCEPT !.pc = "sent", !.browser = b, !.session = jar[b], !.page = form]
  <2>1. /\ request[r].pc = "idle" /\ request' = [request EXCEPT ![r] = q]
        /\ UNCHANGED <<member, overtaken>>
    BY <1>4 DEF Send, database, history
  <2>2. q.pc = "sent"
    BY DEF Idle
  <2> HIDE DEF q
  <2> QED
    BY <2>1, <2>2, OtherSteps DEF Editing
<1>5. ASSUME NEW b \in Browsers, Expire(b) PROVE EditsOK'
  BY <1>5 DEF Expire, EditsOK, database, history, HasRights, VerifyCsrf
<1>6. CASE UNCHANGED vars
  BY <1>6 DEF vars, EditsOK, database, history, HasRights, VerifyCsrf
<1> QED
  BY <1>1, <1>2, <1>3, <1>4, <1>5, <1>6 DEF Next

\* What holds of every edit under way holds in every reachable state.
THEOREM EditsInvariant == Spec => []EditsOK
<1>1. Init => EditsOK
  BY DEF Init, EditsOK, Idle, Editing
<1> QED
  BY <1>1, EditsStep, SessionsInvariant, PTL DEF Spec

\* Types, and the keys of each kind of session: what the handlers clear and fill.
THEOREM SessionsTypes == Spec => []TypeOK
<1>1. SessionsInv /\ EditsOK => TypeOK
  BY EverySession DEF SessionsInv, EditsOK, DatabaseOK, BrowsersOK, RequestsOK, RowOK, TypeOK,
     Good, SessionGood
<1> QED
  BY <1>1, SessionsInvariant, EditsInvariant, PTL

\* Only SaveMember writes table member, and it does so in good hands.
LEMMA EditByConsole ==
  ASSUME SessionsInv, EditsOK, NEW r \in Requests, NEW form \in MemberForms,
         SaveMember(r, form)
  PROVE  LET s == request[r].session IN
         /\ request[r].pc = "loaded" /\ request'[r].pc = "answered"
         /\ HasRights(s.member_id, member) \/ r \in overtaken
         /\ Person(s) \in unlocked
         /\ request[r].page.person = Person(s)
<1> DEFINE s == request[r].session
           x == request[r].page
<1>1. /\ s.csrf_token # None /\ x.csrf_token = s.csrf_token /\ s.admin_console_verified
      /\ HasRights(s.member_id, member) \/ r \in overtaken
      /\ request[r].pc = "loaded"
  BY DEF SaveMember, EditsOK, VerifyCsrf, Editing
<1>2. request'[r].pc = "answered"
  BY DEF SaveMember, Respond, SessionsInv, RequestsOK, RequestRecord
<1>3. Good(s) /\ PageGood(x, issued)
  BY RequestGood
<1> HIDE DEF s, x
<1>4. Person(s) \in unlocked
  BY <1>1, <1>3 DEF Good, SessionGood
<1>5. x.person = Person(s)
  BY <1>1, <1>3 DEF Good, SessionGood, PageGood, PageOf
<1> QED
  BY <1>1, <1>2, <1>4, <1>5 DEF s, x

\* Every change of a member row is the commit of an edit by somebody who knows the
\* password and was shown the form, and who is an active admin still, or was one at the
\* check and lost it to another edit meanwhile (admin.py:478-498).
THEOREM SessionsEditsByConsole == Spec => EditsByConsoleOnly
<1> DEFINE Console ==
      member' # member =>
        \E r \in Requests :
          LET s == request[r].session IN
          /\ request[r].pc = "loaded" /\ request'[r].pc = "answered"
          /\ HasRights(s.member_id, member) \/ r \in overtaken
          /\ Person(s) \in unlocked
          /\ request[r].page.person = Person(s)
<1>1. SessionsInv /\ EditsOK /\ [Next]_vars => [Console]_vars
  <2>1. ASSUME SessionsInv, EditsOK, Next, member' # member PROVE Console
    <3>1. PICK r \in Requests : Handle(r)
      BY <2>1 DEF Next, Send, Receive, Lose, Expire, database
    <3>2. PICK form \in MemberForms : SaveMember(r, form)
      BY <2>1, <3>1 DEF Handle, AnswerUnchanged, ClearInactive, GetPage, ShowAgain, Login,
           LoginFromNewAddress, ConfirmIp, RefuseConfirmation, Logout, AdminUnlock,
           Impersonate, ReturnFromImpersonation, CheckConsole, LoadMember, RefuseEdit, database
    <3> QED
      BY <2>1, <3>2, EditByConsole
  <2>2. ASSUME SessionsInv, EditsOK, Next PROVE Console
    BY <2>1, <2>2
  <2> HIDE DEF Console
  <2> QED
    BY <2>2
<1> QED
  BY <1>1, SessionsInvariant, EditsInvariant, PTL DEF Spec, EditsByConsoleOnly
=============================================================================
