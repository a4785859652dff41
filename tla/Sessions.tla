------------------------------ MODULE Sessions ------------------------------
(***************************************************************************)
(* Who a request acts as: app/routers/auth.py, the unlock and              *)
(* impersonation handlers of admin.py, app/policies/access.py and          *)
(* app/services/session_service.py.                                        *)
(*                                                                         *)
(* The session is a signed cookie.  A request carries the copy the browser *)
(* had when it was sent, the handler changes that copy, and the answer     *)
(* writes it back whenever it arrives: of two overlapping answers the one  *)
(* received last wins.  Nothing on the server revokes a cookie, so each    *)
(* handler reads the member's rights again.                                *)
(***************************************************************************)
CONSTANTS
  Members,         \* member_id values; a member row is never deleted
  Addresses,       \* client addresses
  Browsers,
  Requests,        \* requests that one may have in flight
  Tokens,          \* what secrets.token_urlsafe may return; finite for TLC
  InitialTables,   \* contents of table member at start, rights and addresses
  MemberForms,     \* what admin_member_edit may write
  None

MemberRow == [active : BOOLEAN, admin_enabled : BOOLEAN]

ASSUME SessionsAssumption ==
  /\ None \notin Members \cup Addresses \cup Tokens \cup {"login", "impersonation"}
  /\ InitialTables \subseteq [member : [Members -> MemberRow],
                                last_login_ip : [Members -> Addresses \cup {None}]]
  /\ MemberForms \subseteq MemberRow

\* request.session; an absent key is None.
Session ==
  [member_id : Members \cup {None}, session_kind : {"login", "impersonation", None},
   impersonator_member_id : Members \cup {None}, admin_console_verified : BOOLEAN,
   pending_member_id : Members \cup {None}, pending_ip : Addresses \cup {None},
   csrf_token : Tokens \cup {None}]

Empty == [member_id |-> None, session_kind |-> None, impersonator_member_id |-> None,
          admin_console_verified |-> FALSE, pending_member_id |-> None,
          pending_ip |-> None, csrf_token |-> None]

\* The person at the keyboard: impersonation changes the member, not the person.
Person(s) == IF s.session_kind = "impersonation" THEN s.impersonator_member_id ELSE s.member_id

\* A page with a form: its token, and the person it was rendered for.
Page == [csrf_token : Tokens \cup {None}, person : Members \cup {None}]
NoPage == [csrf_token |-> None, person |-> None]
PageOf(s) == [csrf_token |-> s.csrf_token, person |-> Person(s)]

\* Between its check of the admin and its commit admin_member_edit awaits the database.
Editing == {"checked", "loaded"}

\* Which handler a request reaches matters only when it runs, and is chosen then.
RequestRecord ==
  [pc : {"idle", "sent", "answered"} \cup Editing, browser : Browsers \cup {None},
   session : Session,  \* the cookie as sent, then as the answer sets it
   page : Page,        \* the form submitted, then the page the answer brings
   target : Members \cup {None}, loaded : MemberRow \cup {None}]  \* the row being edited

Idle == [pc |-> "idle", browser |-> None, session |-> Empty, page |-> NoPage,
         target |-> None, loaded |-> None]

VARIABLES
  member,          \* table member
  last_login_ip,   \* its column of that name
  login_history,   \* the successful rows of table login_history: <<member_id, login_ip>>
  jar,             \* the cookie of each browser
  pages,           \* the pages open in each browser
  request,
  \* what happened, kept to state the properties:
  credentials,     \* <<m, ip>>: somebody at ip gave the credentials of m
  unlocked,        \* persons who have entered the console password
  issued,          \* token -> the person of the session it was made in
  overtaken        \* edits under way whose sender lost the rights to another edit

database == <<member, last_login_ip, login_history>>
browsers == <<jar, pages>>
history == <<credentials, unlocked, issued, overtaken>>
vars == <<database, browsers, request, history>>

-----------------------------------------------------------------------------
\* csrf_token(request) gives s the token t: the one it has, or a new one.
CsrfToken(s, t) ==
  IF s.csrf_token # None THEN t = s.csrf_token ELSE t \in Tokens \ DOMAIN issued

Issue(t, person) ==
  issued' = [x \in DOMAIN issued \cup {t} |-> IF x \in DOMAIN issued THEN issued[x] ELSE person]

\* verify_csrf.
VerifyCsrf(s, form) == s.csrf_token # None /\ form.csrf_token = s.csrf_token

\* current_member finds the member, require_admin_role finds an admin.
CurrentMember(s) == s.member_id # None /\ member[s.member_id].active
AdminRole(s) == CurrentMember(s) /\ member[s.member_id].admin_enabled

\* Mutant: the console asks for the role only.
AdminRoleOnly(s) == AdminRole(s)

\* Mutant: the cookie says that the console is open.
CookieOnly(s) == s.admin_console_verified

\* require_admin_console.
AdminConsole(s) == AdminRole(s) /\ s.admin_console_verified

Respond(r, s, page) ==
  request' = [request EXCEPT ![r] = [@ EXCEPT !.pc = "answered", !.session = s, !.page = page,
                                              !.target = None, !.loaded = None]]

\* A POST whose form carries the session's token.
Posted(r) == request[r].pc = "sent" /\ VerifyCsrf(request[r].session, request[r].page)

-----------------------------------------------------------------------------
Send(r, b, form) ==
  /\ request[r].pc = "idle"
  /\ form \in pages[b] \cup {NoPage}
  /\ request' = [request EXCEPT ![r] = [Idle EXCEPT !.pc = "sent", !.browser = b,
                                                    !.session = jar[b], !.page = form]]
  /\ UNCHANGED <<database, browsers, history>>

\* SessionMiddleware writes the cookie with every answer, and deletes it when the
\* session has become empty.
Receive(r) ==
  LET b == request[r].browser IN
  /\ request[r].pc = "answered"
  /\ jar' = [jar EXCEPT ![b] = request[r].session]
  /\ pages' = [pages EXCEPT ![b] = @ \cup ({request[r].page} \ {NoPage})]
  /\ request' = [request EXCEPT ![r] = Idle]
  /\ UNCHANGED <<database, history>>

\* The request or its answer is lost, or the browser has turned to another page, or the
\* process stops.
Lose(r) ==
  /\ request[r].pc # "idle"
  /\ request' = [request EXCEPT ![r] = Idle]
  /\ overtaken' = overtaken \ {r}
  /\ UNCHANGED <<database, browsers, credentials, unlocked, issued>>

\* max_age passes, or the user deletes the cookie.
Expire(b) ==
  /\ jar' = [jar EXCEPT ![b] = Empty]
  /\ UNCHANGED <<database, pages, request, history>>

-----------------------------------------------------------------------------
\* Every answer that leaves the session alone: redirects, 403 for a wrong token or a
\* missing role, 404, 409, the registration and edit handlers of the other modules.
AnswerUnchanged(r) ==
  /\ request[r].pc = "sent"
  /\ Respond(r, request[r].session, NoPage)
  /\ UNCHANGED <<database, browsers, history>>

\* current_member, first in every handler that needs a member, finds none that is
\* active and clears the session.
ClearInactive(r) ==
  LET s == request[r].session IN
  /\ request[r].pc = "sent"
  /\ s.member_id # None /\ ~member[s.member_id].active
  /\ Respond(r, Empty, NoPage)
  /\ UNCHANGED <<database, browsers, history>>

\* A page with a form: login_page when nobody is logged in, a member's page otherwise.
GetPage(r, t) ==
  LET s == request[r].session
      rendered == [s EXCEPT !.csrf_token = t]
  IN
  /\ request[r].pc = "sent"
  /\ s.member_id = None \/ CurrentMember(s)
  /\ CsrfToken(s, t)
  /\ Issue(t, Person(s))
  /\ Respond(r, rendered, PageOf(rendered))
  /\ UNCHANGED <<database, browsers, credentials, unlocked, overtaken>>

\* A form shown again with its error: wrong credentials, an inactive account, a wrong
\* console password.
ShowAgain(r) ==
  /\ Posted(r)
  /\ Respond(r, request[r].session, PageOf(request[r].session))
  /\ UNCHANGED <<database, browsers, history>>

\* Mutant: the login keeps the token of the session before it.
LoginSessionWithOldToken(s, m, t) ==
  [Empty EXCEPT !.member_id = m, !.session_kind = "login", !.csrf_token = s.csrf_token]

\* The session s is cleared and filled for member m, with a new token t.
LoginSession(s, m, t) ==
  [Empty EXCEPT !.member_id = m, !.session_kind = "login", !.csrf_token = t]

\* POST /login with the credentials of m, from the address m used last or the first.
Login(r, m, ip, t) ==
  /\ Posted(r)
  /\ member[m].active
  /\ last_login_ip[m] \in {None, ip}
  /\ t \in Tokens \ DOMAIN issued
  /\ last_login_ip' = [last_login_ip EXCEPT ![m] = ip]
  /\ login_history' = login_history \cup {<<m, ip>>}
  /\ credentials' = credentials \cup {<<m, ip>>}
  /\ Issue(t, m)
  /\ Respond(r, LoginSession(request[r].session, m, t), NoPage)
  /\ UNCHANGED <<member, browsers, unlocked, overtaken>>

\* From another address the login waits for a confirmation.
LoginFromNewAddress(r, m, ip, t) ==
  LET pending == [Empty EXCEPT !.pending_member_id = m, !.pending_ip = ip, !.csrf_token = t] IN
  /\ Posted(r)
  /\ member[m].active
  /\ last_login_ip[m] \notin {None, ip}
  /\ t \in Tokens \ DOMAIN issued
  /\ credentials' = credentials \cup {<<m, ip>>}
  /\ Issue(t, None)
  /\ Respond(r, pending, PageOf(pending))
  /\ UNCHANGED <<database, browsers, unlocked, overtaken>>

\* Mutant: the address of the confirming request.
ConfirmedFrom(s, ip) == ip

\* confirm_ip takes the address of the login, not of the request that confirms it.
ConfirmedAddress(s, ip) == s.pending_ip

ConfirmIp(r, ip, t) ==
  LET s == request[r].session
      m == s.pending_member_id
  IN
  /\ Posted(r)
  /\ m # None /\ member[m].active
  /\ t \in Tokens \ DOMAIN issued
  /\ last_login_ip' = [last_login_ip EXCEPT ![m] = ConfirmedAddress(s, ip)]
  /\ login_history' = login_history \cup {<<m, ConfirmedAddress(s, ip)>>}
  /\ Issue(t, m)
  /\ Respond(r, LoginSession(s, m, t), NoPage)
  /\ UNCHANGED <<member, browsers, credentials, unlocked, overtaken>>

\* Nothing is pending, or the account has been deactivated meanwhile.
RefuseConfirmation(r) ==
  LET m == request[r].session.pending_member_id IN
  /\ Posted(r)
  /\ ~(m # None /\ member[m].active)
  /\ Respond(r, Empty, NoPage)
  /\ UNCHANGED <<database, browsers, history>>

Logout(r) ==
  /\ Posted(r)
  /\ Respond(r, Empty, NoPage)
  /\ UNCHANGED <<database, browsers, history>>

\* POST /admin/unlock with the right password.
AdminUnlock(r) ==
  LET s == request[r].session IN
  /\ Posted(r)
  /\ AdminRole(s)
  /\ unlocked' = unlocked \cup {Person(s)}
  /\ Respond(r, [s EXCEPT !.admin_console_verified = TRUE], NoPage)
  /\ UNCHANGED <<database, browsers, credentials, issued, overtaken>>

\* Mutant: an impersonation may start from an impersonation.
AnyKind(s) == TRUE

\* The check that answers 409.
MayImpersonate(s) == s.session_kind # "impersonation"

Impersonate(r, target) ==
  LET s == request[r].session IN
  /\ Posted(r)
  /\ AdminConsole(s)
  /\ MayImpersonate(s)
  /\ member[target].active
  /\ target # s.member_id
  /\ Respond(r, [Empty EXCEPT !.member_id = target, !.session_kind = "impersonation",
                              !.impersonator_member_id = s.member_id,
                              !.csrf_token = s.csrf_token], NoPage)
  /\ UNCHANGED <<database, browsers, history>>

\* Mutant: the session is not cleared first.
ReturnedSessionUncleared(s) ==
  [s EXCEPT !.member_id = s.impersonator_member_id, !.session_kind = "login",
            !.admin_console_verified = TRUE]

\* The session of the admin who returns, the console unlocked as it was.
ReturnedSession(s) ==
  [Empty EXCEPT !.member_id = s.impersonator_member_id, !.session_kind = "login",
                !.admin_console_verified = TRUE, !.csrf_token = s.csrf_token]

\* Whoever is no longer an active admin loses the session instead.
ReturnFromImpersonation(r) ==
  LET s == request[r].session
      admin == s.impersonator_member_id
  IN
  /\ Posted(r)
  /\ s.session_kind = "impersonation"
  /\ Respond(r, IF member[admin].active /\ member[admin].admin_enabled
                THEN ReturnedSession(s) ELSE Empty, NoPage)
  /\ UNCHANGED <<database, browsers, history>>

\* admin_member_edit, as far as it concerns sessions, in three steps: the check, ...
CheckConsole(r) ==
  /\ Posted(r)
  /\ AdminConsole(request[r].session)
  /\ request' = [request EXCEPT ![r].pc = "checked"]
  /\ UNCHANGED <<database, browsers, history>>

\* ... load_member of the row to change, without a lock; the sender's own row is the one
\* the check has read, ...
LoadMember(r, m) ==
  LET row == IF m = request[r].session.member_id
             THEN [active |-> TRUE, admin_enabled |-> TRUE] ELSE member[m]
  IN
  /\ request[r].pc = "checked"
  /\ request' = [request EXCEPT ![r] = [@ EXCEPT !.pc = "loaded", !.target = m, !.loaded = row]]
  /\ UNCHANGED <<database, browsers, history>>

\* The UPDATE names the columns in which the form differs from the loaded row.
Update(row, loaded, form) ==
  [active |-> IF form.active = loaded.active THEN row.active ELSE form.active,
   admin_enabled |-> IF form.admin_enabled = loaded.admin_enabled
                     THEN row.admin_enabled ELSE form.admin_enabled]

HasRights(m, table) == table[m].active /\ table[m].admin_enabled

\* ... and the commit, which does not ask for the sender's rights again.
SaveMember(r, form) ==
  LET m == request[r].target
      losing(q) == LET sender == request[q].session.member_id IN
                   request[q].pc \in Editing /\ HasRights(sender, member)
                   /\ ~HasRights(sender, member')
  IN
  /\ request[r].pc = "loaded"
  /\ member' = [member EXCEPT ![m] = Update(@, request[r].loaded, form)]
  /\ overtaken' = (overtaken \cup {q \in Requests : losing(q)}) \ {r}
  /\ Respond(r, request[r].session, NoPage)
  /\ UNCHANGED <<last_login_ip, login_history, browsers, credentials, unlocked, issued>>

\* The member does not exist (404), the form is refused (422) or repeats a login_id or
\* employee_no (409), or the transaction fails: nothing is written.
RefuseEdit(r) ==
  LET s == request[r].session IN
  /\ request[r].pc \in Editing
  /\ \/ Respond(r, s, NoPage)
     \/ request[r].pc = "loaded" /\ Respond(r, s, PageOf(s))
  /\ overtaken' = overtaken \ {r}
  /\ UNCHANGED <<database, browsers, credentials, unlocked, issued>>

-----------------------------------------------------------------------------
Init ==
  /\ \E t \in InitialTables : member = t.member /\ last_login_ip = t.last_login_ip
  /\ login_history = {x \in Members \X Addresses : last_login_ip[x[1]] = x[2]}
  /\ jar = [b \in Browsers |-> Empty]
  /\ pages = [b \in Browsers |-> {}]
  /\ request = [r \in Requests |-> Idle]
  /\ credentials = login_history
  /\ unlocked = {}
  /\ issued = [t \in {} |-> None]
  /\ overtaken = {}

Handle(r) ==
  \/ AnswerUnchanged(r) \/ ClearInactive(r) \/ ShowAgain(r)
  \/ RefuseConfirmation(r) \/ Logout(r)
  \/ AdminUnlock(r) \/ ReturnFromImpersonation(r)
  \/ \E t \in Tokens : GetPage(r, t)
  \/ \E m \in Members, ip \in Addresses, t \in Tokens :
       Login(r, m, ip, t) \/ LoginFromNewAddress(r, m, ip, t)
  \/ \E ip \in Addresses, t \in Tokens : ConfirmIp(r, ip, t)
  \/ \E target \in Members : Impersonate(r, target)
  \/ CheckConsole(r) \/ RefuseEdit(r)
  \/ \E m \in Members : LoadMember(r, m)
  \/ \E form \in MemberForms : SaveMember(r, form)

Next ==
  \/ \E r \in Requests : Handle(r) \/ Receive(r) \/ Lose(r)
  \/ \E r \in Requests, b \in Browsers : \E form \in pages[b] \cup {NoPage} : Send(r, b, form)
  \/ \E b \in Browsers : Expire(b)

Spec == Init /\ [][Next]_vars

-----------------------------------------------------------------------------
\* The sessions that exist anywhere: in a browser, or under way to or from the server.
Sessions == {jar[b] : b \in Browsers} \cup {request[r].session : r \in Requests}

\* Open pages, and pages under way.
Pages == (UNION {pages[b] : b \in Browsers}) \cup {request[r].page : r \in Requests}

\* A session is anonymous, pending or somebody's; only an impersonation has an
\* impersonator, who is somebody else.
WellFormed(s) ==
  /\ s.session_kind = None <=> s.member_id = None
  /\ s.session_kind = "impersonation" <=> s.impersonator_member_id # None
  /\ s.member_id # None => s.member_id # s.impersonator_member_id /\ s.pending_member_id = None
  /\ s.pending_member_id = None <=> s.pending_ip = None
  /\ s.admin_console_verified => s.member_id # None

\* Every variable has its type, and a session holds only the keys of its kind.
TypeOK ==
  /\ member \in [Members -> MemberRow]
  /\ last_login_ip \in [Members -> Addresses \cup {None}]
  /\ login_history \subseteq Members \X Addresses
  /\ jar \in [Browsers -> Session]
  /\ pages \in [Browsers -> SUBSET Page]
  /\ request \in [Requests -> RequestRecord]
  /\ \A r \in Requests : request[r].pc # "idle" => request[r].browser \in Browsers
  /\ \A r \in Requests : request[r].pc = "loaded" <=> request[r].target # None
  /\ overtaken \subseteq {r \in Requests : request[r].pc \in Editing}
  /\ credentials \subseteq Members \X Addresses
  /\ unlocked \subseteq Members
  /\ DOMAIN issued \subseteq Tokens /\ issued \in [DOMAIN issued -> Members \cup {None}]
  /\ \A s \in Sessions : WellFormed(s)

\* Behind every session, impersonations and returns from them included, is a person
\* who has logged in: login_history has the row.
SessionsAuthenticated ==
  \A s \in Sessions :
    Person(s) # None => \E ip \in Addresses : <<Person(s), ip>> \in login_history

\* Nobody gets a session with the console open, or one as somebody else, without
\* having entered the console password; the return needs none because of this.
ConsoleUnlocked ==
  \A s \in Sessions :
    s.admin_console_verified \/ s.session_kind = "impersonation" => Person(s) \in unlocked

\* A CSRF token belongs to one person: a form left open from before a login, a logout
\* or a change of user is not accepted in the session of anybody else.
TokensPersonal ==
  \A x \in {PageOf(s) : s \in Sessions} \cup Pages :
    x.csrf_token # None => x.csrf_token \in DOMAIN issued /\ x.person = issued[x.csrf_token]

\* An address is recorded for a member only if the member's credentials were given
\* there, however late and from wherever the login is confirmed.
AddressesProved ==
  /\ login_history \subseteq credentials
  /\ \A m \in Members : last_login_ip[m] # None => <<m, last_login_ip[m]>> \in credentials
  /\ \A s \in Sessions :
       s.pending_member_id # None => <<s.pending_member_id, s.pending_ip>> \in credentials

\* A change of a member row is the commit of an edit that passed the check of the admin
\* console: it is in the hands of a person who knows the console password and who was
\* shown the form that was sent, and whoever sends it is an active admin at that moment,
\* or was one at the check and lost it to another edit before the commit.
EditsByConsoleOnly ==
  [][member' # member =>
       \E r \in Requests :
         LET s == request[r].session IN
         /\ request[r].pc = "loaded" /\ request'[r].pc = "answered"
         /\ HasRights(s.member_id, member) \/ r \in overtaken
         /\ Person(s) \in unlocked
         /\ request[r].page.person = Person(s)]_vars
=============================================================================
